----------------------------- MODULE ExecutorProofs -----------------------------
(***************************************************************************)
(* Theorems about Executor for any number of items and any capacities.      *)
(*                                                                          *)
(* That Execute implements a bounded pool rests on two invariants: a token  *)
(* is out for each goroutine that has not released it (TokensMatch), and an *)
(* item is in one place only (OnePlaceEach), so that the goroutine that is  *)
(* started is the first for its item.  That nil means all items ran rests   *)
(* on Accounted: as long as Execute has not given up, no item is lost.      *)
(*                                                                          *)
(* That a call ends needs fairness and is left to TLC, but what it rests on *)
(* is proved: somebody can always go on (NeverStuck), and every step brings *)
(* the measure StepsLeft, a natural number, down (StepsBounded).            *)
(***************************************************************************)
EXTENDS Executor, FiniteSetTheorems, TLAPS

(* The caller holds an index exactly while it selects, and a result once it   *)
(* has left the loop.                                                          *)
CallerOK ==
  /\ caller.pc = "select" <=> caller.index # 0
  /\ caller.pc \in {"receive", "select"} <=> result = "none"

Accounted ==
  result \in {"none", "nil"} =>
    \A i \in Items : \/ i \in unsent
                     \/ \E k \in DOMAIN channel : channel[k] = i
                     \/ i = caller.index
                     \/ i \in Begun

(* No item is in two places: still to send, on the channel, with the caller   *)
(* and begun exclude each other, so that none is worked on twice.             *)
OnePlaceEach ==
  /\ \A k \in DOMAIN channel : channel[k] \notin unsent \cup Begun \cup {caller.index}
  /\ \A j, k \in DOMAIN channel : channel[j] = channel[k] => j = k
  /\ unsent \cap Begun = {}
  /\ caller.index \notin unsent \cup Begun

(* Nothing is left behind by a schedule that ended by itself. *)
Drained ==
  /\ producer = "closed" /\ ~ctxDone => unsent = {}
  /\ result = "nil" => channel = <<>> /\ producer = "closed"

ReturnedQuiet ==
  caller.pc = "returned" => \A i \in Items : workers[i] \in {"none", "done"}

IInv ==
  /\ TypeOK
  /\ CallerOK
  /\ TokensMatch
  /\ OnePlaceEach
  /\ Accounted
  /\ Drained
  /\ ReturnedQuiet

LEMMA ItemsFacts == 0 \notin Items /\ IsFiniteSet(Items)
BY ExecutorAssumption, FS_Interval DEF Items

-----------------------------------------------------------------------------
(* Type correctness.  What bounds sem is the guard of SelectToken; that it     *)
(* does not go below zero is TokensMatch.                                      *)

LEMMA TokenFacts ==
  ASSUME TypeOK, TokensMatch
  PROVE  /\ IsFiniteSet(HoldingToken)
         /\ \A i \in HoldingToken : sem > 0
         /\ Cardinality(Working) <= sem
<1>1. IsFiniteSet(HoldingToken)
  BY ItemsFacts, FS_Subset DEF HoldingToken
<1>2. ASSUME NEW i \in HoldingToken PROVE sem > 0
  BY <1>1, FS_EmptySet, FS_CardinalityType DEF TokensMatch
<1>3. Working \subseteq HoldingToken
  BY DEF Working, HoldingToken
<1>4. Cardinality(Working) <= sem
  BY <1>1, <1>3, FS_Subset DEF TokensMatch
<1>5. QED
  BY <1>1, <1>2, <1>4

LEMMA NextTypeOK == TypeOK /\ TokensMatch /\ [Next]_vars => TypeOK'
<1> SUFFICES ASSUME TypeOK, TokensMatch, [Next]_vars PROVE TypeOK'
  OBVIOUS
<1> USE ExecutorAssumption DEF TypeOK
<1>1. CASE UNCHANGED vars
  BY <1>1 DEF vars
<1>2. CASE Cancel
  BY <1>2 DEF Cancel
<1>3. ASSUME NEW i \in Items, Send(i) PROVE TypeOK'
  BY <1>3 DEF Send, ProducerPcs
<1>14. ASSUME NEW i \in Items, HandOver(i) PROVE TypeOK'
  BY <1>14 DEF HandOver, ProducerPcs, CallerPcs
<1>4. CASE PauseEnds \/ AllSent \/ ScheduleCancelled
  BY <1>4 DEF PauseEnds, AllSent, ScheduleCancelled, ProducerPcs
<1>5. CASE Receive
  BY <1>5 DEF Receive, CallerPcs
<1>6. CASE RangeEnds
  BY <1>6 DEF RangeEnds, CallerPcs, Results
<1>7. CASE SelectCancelled \/ SelectError
  <2>1. caller' \in [pc : CallerPcs, index : Items \cup {0}]
    BY <1>7 DEF SelectCancelled, SelectError, GiveUp, CallerPcs
  <2>2. result' \in Results
    BY <1>7 DEF SelectCancelled, SelectError, GiveUp, Results
  <2>3. errCh' \in BOOLEAN
    BY <1>7, Zenon DEF SelectCancelled, SelectError
  <2>4. QED
    BY <1>7, <2>1, <2>2, <2>3 DEF SelectCancelled, SelectError
<1>8. CASE SelectToken
  <2>1. caller' \in [pc : CallerPcs, index : Items \cup {0}]
    BY <1>8 DEF SelectToken, CallerPcs
  <2>2. workers' \in [Items -> WorkerPcs]
    BY <1>8 DEF SelectToken, WorkerPcs
  <2>3. sem' \in 0..MaxConcurrent
    BY <1>8 DEF SelectToken
  <2>4. QED
    BY <1>8, <2>1, <2>2, <2>3 DEF SelectToken
<1>9. CASE WaitForAll
  BY <1>9 DEF WaitForAll, CallerPcs
<1>10. ASSUME NEW i \in Items, NEW fails \in BOOLEAN, WorkReturns(i, fails) PROVE TypeOK'
  BY <1>10 DEF WorkReturns, WorkerPcs
<1>11. ASSUME NEW i \in Items, Release(i) PROVE TypeOK'
  <2>1. sem > 0
    BY <1>11, TokenFacts DEF Release, HoldingToken
  <2>2. QED
    BY <1>11, <2>1 DEF Release, WorkerPcs
<1>12. ASSUME NEW i \in Items, Done(i) PROVE TypeOK'
  BY <1>12 DEF Done, WorkerPcs
<1>13. QED
  BY <1>1, <1>2, <1>3, <1>4, <1>5, <1>6, <1>7, <1>8, <1>9, <1>10, <1>11, <1>12, <1>14
     DEF Next, ProducerNext, CallerNext, WorkerNext

-----------------------------------------------------------------------------
(* CallerOK, Drained and ReturnedQuiet: one case per action. *)

LEMMA NextCallerOK == TypeOK /\ CallerOK /\ [Next]_vars => CallerOK'
<1> SUFFICES ASSUME TypeOK, CallerOK, [Next]_vars PROVE CallerOK'
  OBVIOUS
<1> USE ItemsFacts DEF TypeOK, CallerOK
<1>0. ASSUME NEW i \in Items, HandOver(i) PROVE CallerOK'
  BY <1>0 DEF HandOver, Meets
<1>1. CASE Receive
  BY <1>1 DEF Receive
<1>2. CASE RangeEnds \/ SelectCancelled \/ SelectError \/ SelectToken
  BY <1>2 DEF RangeEnds, SelectCancelled, SelectError, GiveUp, SelectToken
<1>3. CASE WaitForAll
  BY <1>3 DEF WaitForAll
<1>4. CASE UNCHANGED <<caller, result>>
  BY <1>4
<1>5. QED
  BY <1>0, <1>1, <1>2, <1>3, <1>4
     DEF Next, ProducerNext, CallerNext, WorkerNext, vars, Cancel, Send, PauseEnds, AllSent,
         ScheduleCancelled, WorkReturns, Release, Done

LEMMA NextDrained == TypeOK /\ CallerOK /\ Drained /\ [Next]_vars => Drained'
<1> SUFFICES ASSUME TypeOK, CallerOK, Drained, [Next]_vars PROVE Drained'
  OBVIOUS
<1> USE DEF TypeOK, CallerOK, Drained
<1>1. CASE Cancel
  BY <1>1 DEF Cancel
<1>2. ASSUME NEW i \in Items, Send(i) PROVE Drained'
  BY <1>2 DEF Send
<1>8. ASSUME NEW i \in Items, HandOver(i) PROVE Drained'
  BY <1>8 DEF HandOver, Meets
<1>3. CASE PauseEnds \/ AllSent \/ ScheduleCancelled
  BY <1>3 DEF PauseEnds, AllSent, ScheduleCancelled
<1>4. CASE Receive
  BY <1>4 DEF Receive
<1>5. CASE RangeEnds \/ SelectCancelled \/ SelectError
  BY <1>5 DEF RangeEnds, SelectCancelled, SelectError, GiveUp
<1>6. CASE UNCHANGED <<producer, ctxDone, unsent, result, channel>>
  BY <1>6
<1>7. QED
  BY <1>1, <1>2, <1>3, <1>4, <1>5, <1>6, <1>8
     DEF Next, ProducerNext, CallerNext, WorkerNext, vars, SelectToken, WaitForAll,
         WorkReturns, Release, Done

LEMMA NextReturnedQuiet == TypeOK /\ ReturnedQuiet /\ [Next]_vars => ReturnedQuiet'
<1> SUFFICES ASSUME TypeOK, ReturnedQuiet, [Next]_vars PROVE ReturnedQuiet'
  OBVIOUS
<1> USE DEF TypeOK, ReturnedQuiet
<1>1. CASE CallerNext
  BY <1>1 DEF CallerNext, Receive, RangeEnds, SelectCancelled, SelectError, GiveUp, SelectToken,
              WaitForAll
<1>7. ASSUME NEW i \in Items, HandOver(i) PROVE ReturnedQuiet'
  BY <1>7 DEF HandOver
<1>2. ASSUME NEW i \in Items, NEW fails \in BOOLEAN, WorkReturns(i, fails) PROVE ReturnedQuiet'
  BY <1>2 DEF WorkReturns
<1>3. ASSUME NEW i \in Items, Release(i) PROVE ReturnedQuiet'
  BY <1>3 DEF Release
<1>4. ASSUME NEW i \in Items, Done(i) PROVE ReturnedQuiet'
  BY <1>4 DEF Done
<1>5. CASE UNCHANGED <<caller, workers>>
  BY <1>5
<1>6. QED
  BY <1>1, <1>2, <1>3, <1>4, <1>5, <1>7
     DEF Next, ProducerNext, WorkerNext, vars, Cancel, Send, PauseEnds, AllSent, ScheduleCancelled

-----------------------------------------------------------------------------
(* TokensMatch: a token is taken for a goroutine that did not exist, and given *)
(* back once by each.                                                          *)

LEMMA NextTokensMatch ==
  TypeOK /\ CallerOK /\ OnePlaceEach /\ TokensMatch /\ [Next]_vars => TokensMatch'
<1> SUFFICES ASSUME TypeOK, CallerOK, OnePlaceEach, TokensMatch, [Next]_vars PROVE TokensMatch'
  OBVIOUS
<1>1. CASE SelectToken
  <2>1. caller.index \in Items /\ workers[caller.index] = "none"
    BY <1>1 DEF SelectToken, TypeOK, CallerOK, OnePlaceEach, Begun
  <2>2. HoldingToken' = HoldingToken \cup {caller.index}
    BY <1>1, <2>1 DEF SelectToken, HoldingToken, TypeOK
  <2>3. caller.index \notin HoldingToken
    BY <2>1 DEF HoldingToken
  <2>4. Cardinality(HoldingToken') = Cardinality(HoldingToken) + 1
    BY <2>2, <2>3, TokenFacts, FS_AddElement
  <2>5. QED
    BY <1>1, <2>4 DEF SelectToken, TokensMatch
<1>2. ASSUME NEW i \in Items, Release(i) PROVE TokensMatch'
  <2>1. i \in HoldingToken
    BY <1>2 DEF Release, HoldingToken
  <2>2. HoldingToken' = HoldingToken \ {i}
    BY <1>2 DEF Release, HoldingToken, TypeOK
  <2>3. Cardinality(HoldingToken') = Cardinality(HoldingToken) - 1
    BY <2>1, <2>2, TokenFacts, FS_RemoveElement
  <2>4. QED
    BY <1>2, <2>3 DEF Release, TokensMatch
<1>3. ASSUME NEW i \in Items, NEW fails \in BOOLEAN, WorkReturns(i, fails) PROVE TokensMatch'
  <2>1. HoldingToken' = HoldingToken
    BY <1>3 DEF WorkReturns, HoldingToken, TypeOK
  <2>2. QED
    BY <1>3, <2>1 DEF WorkReturns, TokensMatch
<1>4. ASSUME NEW i \in Items, Done(i) PROVE TokensMatch'
  <2>1. HoldingToken' = HoldingToken
    BY <1>4 DEF Done, HoldingToken, TypeOK
  <2>2. QED
    BY <1>4, <2>1 DEF Done, TokensMatch
<1>5. CASE UNCHANGED <<workers, sem>>
  BY <1>5 DEF TokensMatch, HoldingToken
<1>6. QED
  BY <1>1, <1>2, <1>3, <1>4, <1>5
     DEF Next, ProducerNext, CallerNext, WorkerNext, vars, Cancel, Send, HandOver, PauseEnds,
         AllSent, ScheduleCancelled, Receive, RangeEnds, SelectCancelled, SelectError, GiveUp, WaitForAll

-----------------------------------------------------------------------------
(* OnePlaceEach and Accounted: an item moves from unsent to the channel, to   *)
(* the caller and to its goroutine, or is dropped by a caller that gives up.   *)

LEMMA AppendFacts ==
  ASSUME TypeOK, NEW i \in Items, channel' = Append(channel, i)
  PROVE  /\ DOMAIN channel' = 1..(Len(channel) + 1)
         /\ DOMAIN channel = 1..Len(channel)
         /\ Len(channel) \in Nat
         /\ \A k \in 1..Len(channel) : channel'[k] = channel[k]
         /\ channel'[Len(channel) + 1] = i
BY DEF TypeOK

LEMMA TailFacts ==
  ASSUME TypeOK, channel # <<>>, channel' = Tail(channel)
  PROVE  /\ Len(channel) \in Nat \ {0}
         /\ DOMAIN channel = 1..Len(channel)
         /\ DOMAIN channel' = 1..(Len(channel) - 1)
         /\ \A k \in 1..(Len(channel) - 1) : channel'[k] = channel[k + 1]
         /\ Head(channel) = channel[1]
         /\ Head(channel) \in Items
BY DEF TypeOK

LEMMA NextOnePlaceEach ==
  TypeOK /\ CallerOK /\ OnePlaceEach /\ [Next]_vars => OnePlaceEach'
<1> SUFFICES ASSUME TypeOK, CallerOK, OnePlaceEach, [Next]_vars PROVE OnePlaceEach'
  OBVIOUS
<1>0. \A k \in DOMAIN channel : channel[k] \in Items
  BY DEF TypeOK
<1>1. ASSUME NEW i \in Items, Send(i) PROVE OnePlaceEach'
  <2>1. /\ i \in unsent
        /\ channel' = Append(channel, i)
        /\ unsent' = unsent \ {i}
        /\ caller' = caller /\ Begun' = Begun
    BY <1>1 DEF Send, NextIndex, Begun
  <2>2. \A k \in DOMAIN channel : channel[k] # i
    BY <2>1 DEF OnePlaceEach
  <2>3. i \notin Begun \cup {caller.index}
    BY <2>1 DEF OnePlaceEach
  <2>4. QED
    BY <2>1, <2>2, <2>3, AppendFacts DEF OnePlaceEach
<1>8. ASSUME NEW i \in Items, HandOver(i) PROVE OnePlaceEach'
  <2>1. /\ i \in unsent
        /\ channel' = channel
        /\ unsent' = unsent \ {i}
        /\ caller'.index = i /\ Begun' = Begun
    BY <1>8 DEF HandOver, NextIndex, Begun
  <2>2. \A k \in DOMAIN channel : channel[k] # i
    BY <2>1 DEF OnePlaceEach
  <2>3. QED
    BY <2>1, <2>2 DEF OnePlaceEach
<1>2. CASE Receive
  <2>1. /\ channel # <<>> /\ channel' = Tail(channel)
        /\ caller'.index = Head(channel)
        /\ unsent' = unsent /\ Begun' = Begun
    BY <1>2 DEF Receive, Begun
  <2>2. QED
    BY <2>1, TailFacts DEF OnePlaceEach
<1>3. CASE SelectToken
  <2>1. /\ caller.index \in Items
        /\ caller'.index = 0
        /\ unsent' = unsent /\ channel' = channel
    BY <1>3 DEF SelectToken, CallerOK, TypeOK
  <2>2. Begun' = Begun \cup {caller.index}
    BY <1>3, <2>1 DEF SelectToken, Begun, TypeOK
  <2>3. QED
    BY <1>0, <2>1, <2>2, ItemsFacts DEF OnePlaceEach, TypeOK, Begun
<1>4. CASE RangeEnds \/ SelectCancelled \/ SelectError \/ WaitForAll
  <2>1. /\ caller'.index = 0
        /\ unsent' = unsent /\ channel' = channel /\ Begun' = Begun
    BY <1>4 DEF RangeEnds, SelectCancelled, SelectError, GiveUp, WaitForAll, Begun
  <2>2. QED
    BY <1>0, <2>1, ItemsFacts DEF OnePlaceEach, TypeOK, Begun
<1>5. ASSUME NEW i \in Items, WorkerNext(i) PROVE OnePlaceEach'
  <2>1. Begun' = Begun
    BY <1>5 DEF WorkerNext, WorkReturns, Release, Done, Begun, TypeOK
  <2>2. QED
    BY <1>5, <2>1 DEF WorkerNext, WorkReturns, Release, Done, OnePlaceEach
<1>6. CASE UNCHANGED <<unsent, channel, caller, workers>>
  BY <1>6 DEF OnePlaceEach, Begun
<1>7. QED
  BY <1>1, <1>2, <1>3, <1>4, <1>5, <1>6, <1>8
     DEF Next, ProducerNext, CallerNext, vars, Cancel, PauseEnds, AllSent, ScheduleCancelled

LEMMA NextAccounted ==
  TypeOK /\ CallerOK /\ Accounted /\ [Next]_vars => Accounted'
<1> SUFFICES ASSUME TypeOK, CallerOK, Accounted, [Next]_vars, result' \in {"none", "nil"},
                    NEW i \in Items
             PROVE  \/ i \in unsent'
                    \/ \E k \in DOMAIN channel' : channel'[k] = i
                    \/ i = caller'.index
                    \/ i \in Begun'
  BY DEF Accounted
<1>1. ASSUME NEW j \in Items, Send(j) PROVE (i \in unsent' \/ (\E k \in DOMAIN channel' : channel'[k] = i)
                                             \/ i = caller'.index \/ i \in Begun')
  <2>1. /\ channel' = Append(channel, j)
        /\ unsent' = unsent \ {j}
        /\ caller' = caller /\ Begun' = Begun /\ result' = result
    BY <1>1 DEF Send, Begun
  <2>2. CASE i = j
    <3>1. channel'[Len(channel) + 1] = i /\ Len(channel) + 1 \in DOMAIN channel'
      BY <2>1, <2>2, AppendFacts
    <3>2. QED
      BY <3>1
  <2>3. CASE \E k \in DOMAIN channel : channel[k] = i
    BY <2>1, <2>3, AppendFacts
  <2>4. QED
    BY <2>1, <2>2, <2>3 DEF Accounted
<1>9. ASSUME NEW j \in Items, HandOver(j) PROVE (i \in unsent' \/ (\E k \in DOMAIN channel' : channel'[k] = i)
                                                 \/ i = caller'.index \/ i \in Begun')
  <2>1. /\ unsent' = unsent \ {j}
        /\ caller.pc = "receive" /\ caller'.index = j
        /\ channel' = channel /\ Begun' = Begun /\ result' = result
    BY <1>9 DEF HandOver, Meets, Begun
  <2>2. caller.index = 0
    BY <2>1 DEF CallerOK
  <2>3. QED
    BY <2>1, <2>2, ItemsFacts DEF Accounted
<1>2. CASE Receive
  <2>1. /\ channel # <<>> /\ channel' = Tail(channel)
        /\ caller.pc = "receive"
        /\ caller'.index = Head(channel)
        /\ unsent' = unsent /\ Begun' = Begun /\ result' = result
    BY <1>2 DEF Receive, Begun
  <2>2. caller.index = 0
    BY <2>1 DEF CallerOK
  <2>3. ASSUME NEW k \in DOMAIN channel, channel[k] = i, k # 1
        PROVE  \E l \in DOMAIN channel' : channel'[l] = i
    <3>1. k - 1 \in DOMAIN channel' /\ channel'[k - 1] = i
      BY <2>1, <2>3, TailFacts
    <3>2. QED
      BY <3>1
  <2>4. QED
    BY <2>1, <2>2, <2>3, TailFacts, ItemsFacts DEF Accounted
<1>3. CASE SelectToken
  <2>1. /\ caller.index \in Items
        /\ unsent' = unsent /\ channel' = channel /\ result' = result
    BY <1>3 DEF SelectToken, CallerOK, TypeOK
  <2>2. Begun' = Begun \cup {caller.index}
    BY <1>3, <2>1 DEF SelectToken, Begun, TypeOK
  <2>3. QED
    BY <2>1, <2>2 DEF Accounted
<1>4. CASE RangeEnds \/ WaitForAll
  <2>1. caller.index = 0
    BY <1>4 DEF RangeEnds, WaitForAll, CallerOK
  <2>2. result \in {"none", "nil"}
    BY <1>4 DEF RangeEnds, WaitForAll, CallerOK
  <2>3. unsent' = unsent /\ channel' = channel /\ Begun' = Begun
    BY <1>4 DEF RangeEnds, WaitForAll, Begun
  <2>4. QED
    BY <2>1, <2>2, <2>3, ItemsFacts DEF Accounted
<1>5. CASE SelectCancelled \/ SelectError
  BY <1>5 DEF SelectCancelled, SelectError, GiveUp
<1>6. ASSUME NEW j \in Items, WorkerNext(j) PROVE Begun' = Begun /\ UNCHANGED <<unsent, channel, caller, result>>
  BY <1>6 DEF WorkerNext, WorkReturns, Release, Done, Begun, TypeOK
<1>7. CASE UNCHANGED <<unsent, channel, caller, workers, result>>
  BY <1>7 DEF Accounted, Begun
<1>8. QED
  BY <1>1, <1>2, <1>3, <1>4, <1>5, <1>6, <1>7, <1>9
     DEF Next, ProducerNext, CallerNext, vars, Cancel, PauseEnds, AllSent, ScheduleCancelled, Accounted

-----------------------------------------------------------------------------
(* The inductive invariant. *)

LEMMA InitIInv == Init => IInv
<1> SUFFICES ASSUME Init PROVE IInv
  OBVIOUS
<1>1. ctxDone \in BOOLEAN /\ errCh \in BOOLEAN
  BY Zenon DEF Init
<1>2. TypeOK
  BY <1>1, ExecutorAssumption
     DEF Init, TypeOK, Strategies, ProducerPcs, CallerPcs, WorkerPcs, Results
<1>3. CallerOK /\ Accounted /\ Drained /\ ReturnedQuiet
  BY DEF Init, CallerOK, Accounted, Drained, ReturnedQuiet
<1>4. HoldingToken = {} /\ Begun = {}
  BY DEF Init, HoldingToken, Begun
<1>5. TokensMatch
  BY <1>4, FS_EmptySet DEF Init, TokensMatch
<1>6. OnePlaceEach
  BY <1>4, ItemsFacts DEF Init, OnePlaceEach
<1>7. QED
  BY <1>2, <1>3, <1>5, <1>6 DEF IInv

LEMMA NextIInv == IInv /\ [Next]_vars => IInv'
BY NextTypeOK, NextCallerOK, NextTokensMatch, NextOnePlaceEach, NextAccounted, NextDrained,
   NextReturnedQuiet DEF IInv

THEOREM ExecutorInvariant == Spec => []IInv
BY InitIInv, NextIInv, PTL DEF Spec

(* Every variable of Execute and Schedule keeps its type.                    *)
THEOREM Typing == Spec => []TypeOK
BY ExecutorInvariant, PTL DEF IInv

(* No token leaks, so the semaphore never shrinks (scheduler.go:255-281).     *)
THEOREM TokensAlwaysMatch == Spec => []TokensMatch
BY ExecutorInvariant, PTL DEF IInv

(* No item is in two places, so none is worked on twice (scheduler.go:258).   *)
THEOREM NoItemTwice == Spec => []OnePlaceEach
BY ExecutorInvariant, PTL DEF IInv

(* Execute returns nil without a cancellation only when every item has run    *)
(* (scheduler.go:250, 283).                                                   *)
THEOREM NilIsComplete == Spec => []NilMeansAllRan
<1>1. IInv => NilMeansAllRan
  <2> SUFFICES ASSUME IInv, caller.pc = "returned", result = "nil", ~ctxDone, NEW i \in Items
               PROVE  workers[i] = "done"
    BY DEF NilMeansAllRan
  <2>1. channel = <<>> /\ unsent = {}
    BY DEF IInv, Drained
  <2>2. caller.index = 0
    BY DEF IInv, CallerOK
  <2>3. i \in Begun
    BY <2>1, <2>2, ItemsFacts DEF IInv, Accounted
  <2>4. workers[i] # "none"
    BY <2>3 DEF Begun
  <2>5. QED
    BY <2>4 DEF IInv, ReturnedQuiet
<1>2. QED
  BY ExecutorInvariant, <1>1, PTL

(* Until Execute has returned somebody can go on, however full the channel and *)
(* the semaphore are (scheduler.go:258-283).                                   *)
THEOREM NeverAllWait == Spec => []NeverStuck
<1>1. IInv => NeverStuck
  <2> SUFFICES ASSUME IInv, caller.pc # "returned" PROVE CallerFree \/ ProducerFree \/ Running # {}
    BY DEF NeverStuck
  <2>1. caller.pc \in {"receive", "select", "wait"}
    BY DEF IInv, TypeOK, CallerPcs
  <2>2. CASE caller.pc = "receive"
    <3>1. CASE producer = "closed"
      BY <2>2, <3>1 DEF CallerFree
    <3>2. CASE channel # <<>>
      BY <2>2, <3>2 DEF CallerFree
    <3>3. CASE producer # "closed" /\ channel = <<>>
      <4>1. Len(channel) < buffer \/ Meets
        <5>1. buffer \in Nat /\ Len(channel) = 0
          BY <3>3, ExecutorAssumption DEF IInv, TypeOK
        <5>2. QED
          BY <2>2, <5>1 DEF Meets
      <4>2. QED
        BY <3>3, <4>1 DEF ProducerFree, IInv, TypeOK, ProducerPcs
    <3>4. QED
      BY <3>1, <3>2, <3>3
  <2>3. CASE caller.pc = "select"
    <3>1. CASE sem < MaxConcurrent
      BY <2>3, <3>1 DEF CallerFree
    <3>2. CASE ~(sem < MaxConcurrent)
      <4>1. HoldingToken # {}
        <5>1. sem \in Nat /\ MaxConcurrent \in Nat \ {0} /\ ~(sem < MaxConcurrent)
          BY <3>2, ExecutorAssumption DEF IInv, TypeOK
        <5>2. sem # 0
          BY <5>1
        <5>3. QED
          BY <5>2, FS_EmptySet, Zenon DEF IInv, TokensMatch
      <4>2. QED
        BY <4>1 DEF HoldingToken, Running
    <3>3. QED
      BY <3>1, <3>2
  <2>4. CASE caller.pc = "wait"
    BY <2>4 DEF CallerFree
  <2>5. QED
    BY <2>1, <2>2, <2>3, <2>4
<1>2. QED
  BY ExecutorInvariant, <1>1, PTL

-----------------------------------------------------------------------------
(* Every step uses up something that does not come back: an index moves on, a  *)
(* goroutine advances, none of them starts over.  So a call takes at most      *)
(* 7 * TotalItems + 5 steps in whatever order its goroutines run, and with     *)
(* NeverStuck it ends by returning (scheduler.go:12-21, 250-284).              *)
ProducerSteps(pc) == IF pc = "pause" THEN 2 ELSE IF pc = "send" THEN 1 ELSE 0
CallerSteps(pc) ==
  IF pc = "select" THEN 6 ELSE IF pc = "receive" THEN 2 ELSE IF pc = "wait" THEN 1 ELSE 0
WorkerSteps == Cardinality(Working) + Cardinality(HoldingToken) + Cardinality(Running)
CancelSteps(done) == IF done THEN 0 ELSE 1
StepsLeft ==
  7 * Cardinality(unsent) + ProducerSteps(producer) + 5 * Len(channel) + CallerSteps(caller.pc)
  + WorkerSteps + CancelSteps(ctxDone)
StepsBounded == [][StepsLeft' < StepsLeft]_vars

(* The measure.  Each part of it counts the steps one kind of place still has  *)
(* to see; a step takes from one part at least one more than it gives to the   *)
(* next.                                                                       *)

LEMMA StepParts ==
  ASSUME TypeOK
  PROVE  /\ IsFiniteSet(unsent) /\ Cardinality(unsent) \in 0..TotalItems
         /\ ProducerSteps(producer) \in 0..2
         /\ Len(channel) \in Nat
         /\ CallerSteps(caller.pc) \in 0..6
         /\ IsFiniteSet(Working) /\ Cardinality(Working) \in Nat
         /\ IsFiniteSet(HoldingToken) /\ Cardinality(HoldingToken) \in Nat
         /\ IsFiniteSet(Running) /\ Cardinality(Running) \in Nat
         /\ WorkerSteps \in Nat
         /\ CancelSteps(ctxDone) \in 0..1
<1>1. IsFiniteSet(Items) /\ Cardinality(Items) = TotalItems
  BY ExecutorAssumption, FS_Interval DEF Items
<1>2. IsFiniteSet(unsent) /\ Cardinality(unsent) <= TotalItems
  BY <1>1, FS_Subset DEF TypeOK
<1>3. IsFiniteSet(Working) /\ IsFiniteSet(HoldingToken) /\ IsFiniteSet(Running)
  BY <1>1, FS_Subset DEF Working, HoldingToken, Running
<1>4. Cardinality(unsent) \in 0..TotalItems
  BY <1>2, ExecutorAssumption, FS_CardinalityType
<1>5. /\ Cardinality(Working) \in Nat
      /\ Cardinality(HoldingToken) \in Nat
      /\ Cardinality(Running) \in Nat
  BY <1>3, FS_CardinalityType
<1>6. QED
  BY <1>2, <1>3, <1>4, <1>5 DEF TypeOK, ProducerSteps, CallerSteps, WorkerSteps, CancelSteps

\* The goroutine of an item moves from one of the three sets to the next.
LEMMA WorkerStepsLess ==
  ASSUME TypeOK, NEW i \in Items, WorkerNext(i)
  PROVE  WorkerSteps' = WorkerSteps - 1
<1>1. ASSUME NEW fails \in BOOLEAN, WorkReturns(i, fails) PROVE WorkerSteps' = WorkerSteps - 1
  <2>1. /\ i \in Working /\ Working' = Working \ {i}
        /\ HoldingToken' = HoldingToken /\ Running' = Running
    BY <1>1 DEF WorkReturns, Working, HoldingToken, Running, TypeOK
  <2>2. Cardinality(Working') = Cardinality(Working) - 1
    BY <2>1, StepParts, FS_RemoveElement
  <2>3. QED
    BY <2>1, <2>2, StepParts DEF WorkerSteps
<1>2. CASE Release(i)
  <2>1. /\ i \in HoldingToken /\ HoldingToken' = HoldingToken \ {i}
        /\ Working' = Working /\ Running' = Running
    BY <1>2 DEF Release, Working, HoldingToken, Running, TypeOK
  <2>2. Cardinality(HoldingToken') = Cardinality(HoldingToken) - 1
    BY <2>1, StepParts, FS_RemoveElement
  <2>3. QED
    BY <2>1, <2>2, StepParts DEF WorkerSteps
<1>3. CASE Done(i)
  <2>1. /\ i \in Running /\ Running' = Running \ {i}
        /\ Working' = Working /\ HoldingToken' = HoldingToken
    BY <1>3 DEF Done, Working, HoldingToken, Running, TypeOK
  <2>2. Cardinality(Running') = Cardinality(Running) - 1
    BY <2>1, StepParts, FS_RemoveElement
  <2>3. QED
    BY <2>1, <2>2, StepParts DEF WorkerSteps
<1>4. QED
  BY <1>1, <1>2, <1>3 DEF WorkerNext

LEMMA TokenSteps ==
  ASSUME TypeOK, CallerOK, OnePlaceEach, SelectToken
  PROVE  WorkerSteps' = WorkerSteps + 3
<1>1. caller.index \in Items /\ workers[caller.index] = "none"
  BY DEF SelectToken, TypeOK, CallerOK, OnePlaceEach, Begun
<1>2. /\ Working' = Working \cup {caller.index}
      /\ HoldingToken' = HoldingToken \cup {caller.index}
      /\ Running' = Running \cup {caller.index}
  BY <1>1 DEF SelectToken, Working, HoldingToken, Running, TypeOK
<1>3. caller.index \notin Working \cup HoldingToken \cup Running
  BY <1>1 DEF Working, HoldingToken, Running
<1>4. /\ Cardinality(Working') = Cardinality(Working) + 1
      /\ Cardinality(HoldingToken') = Cardinality(HoldingToken) + 1
      /\ Cardinality(Running') = Cardinality(Running) + 1
  BY <1>2, <1>3, StepParts, FS_AddElement
<1>5. QED
  BY <1>4, StepParts DEF WorkerSteps

LEMMA StepUsesUp ==
  ASSUME IInv, Next
  PROVE  StepsLeft' < StepsLeft
<1>0. TypeOK /\ CallerOK /\ OnePlaceEach
  BY DEF IInv
<1>parts. PICK u \in Nat, p \in Nat, l \in Nat, c \in Nat, w \in Nat, d \in Nat :
         /\ u = Cardinality(unsent) /\ p = ProducerSteps(producer) /\ l = Len(channel)
         /\ c = CallerSteps(caller.pc) /\ w = WorkerSteps /\ d = CancelSteps(ctxDone)
  <2>1. /\ Cardinality(unsent) \in Nat /\ ProducerSteps(producer) \in Nat /\ Len(channel) \in Nat
        /\ CallerSteps(caller.pc) \in Nat /\ WorkerSteps \in Nat /\ CancelSteps(ctxDone) \in Nat
    BY <1>0, StepParts
  <2>2. QED
    BY <2>1, Zenon
<1>sum. StepsLeft = 7 * u + p + 5 * l + c + w + d
  BY <1>parts, Zenon DEF StepsLeft
<1>1. ASSUME NEW i \in Items, WorkerNext(i) PROVE StepsLeft' < StepsLeft
  <2>1. UNCHANGED <<ctxDone, producer, unsent, channel, caller>>
    BY <1>1 DEF WorkerNext, WorkReturns, Release, Done
  <2>2. WorkerSteps' = WorkerSteps - 1
    BY <1>0, <1>1, WorkerStepsLess
  <2>3. StepsLeft' = 7 * u + p + 5 * l + c + (w - 1) + d
    BY <1>parts, <2>1, <2>2, Zenon DEF StepsLeft
  <2>4. QED
    BY <1>sum, <2>3
<1>2. CASE SelectToken
  <2>1. /\ UNCHANGED <<ctxDone, producer, unsent, channel>>
        /\ CallerSteps(caller.pc) = 6 /\ CallerSteps(caller'.pc) = 2
    BY <1>2 DEF SelectToken, CallerSteps
  <2>2. WorkerSteps' = WorkerSteps + 3
    BY <1>0, <1>2, TokenSteps
  <2>3. StepsLeft' = 7 * u + p + 5 * l + 2 + (w + 3) + d
    BY <1>parts, <2>1, <2>2, Zenon DEF StepsLeft
  <2>4. c = 6
    BY <1>parts, <2>1, Zenon
  <2>5. QED
    BY <1>sum, <2>3, <2>4
<1>3. ASSUME NEW i \in Items, Send(i) PROVE StepsLeft' < StepsLeft
  <2>1. /\ UNCHANGED <<ctxDone, caller, workers>>
        /\ ProducerSteps(producer) = 1 /\ ProducerSteps(producer') = 2
        /\ i \in unsent /\ unsent' = unsent \ {i}
        /\ channel' = Append(channel, i)
    BY <1>3 DEF Send, NextIndex, ProducerSteps
  <2>2. WorkerSteps' = WorkerSteps
    BY <2>1 DEF WorkerSteps, Working, HoldingToken, Running
  <2>3. Cardinality(unsent') = Cardinality(unsent) - 1
    BY <1>0, <2>1, StepParts, FS_RemoveElement
  <2>4. Len(channel') = Len(channel) + 1
    BY <1>0, <2>1 DEF TypeOK
  <2>5. StepsLeft' = 7 * (u - 1) + 2 + 5 * (l + 1) + c + w + d
    BY <1>parts, <2>1, <2>2, <2>3, <2>4, Zenon DEF StepsLeft
  <2>6. p = 1
    BY <1>parts, <2>1, Zenon
  <2>7. QED
    BY <1>sum, <2>5, <2>6
<1>9. ASSUME NEW i \in Items, HandOver(i) PROVE StepsLeft' < StepsLeft
  <2>1. /\ UNCHANGED <<ctxDone, channel, workers>>
        /\ ProducerSteps(producer) = 1 /\ ProducerSteps(producer') = 2
        /\ CallerSteps(caller.pc) = 2 /\ CallerSteps(caller'.pc) = 6
        /\ i \in unsent /\ unsent' = unsent \ {i}
    BY <1>9 DEF HandOver, Meets, NextIndex, ProducerSteps, CallerSteps
  <2>2. WorkerSteps' = WorkerSteps
    BY <2>1 DEF WorkerSteps, Working, HoldingToken, Running
  <2>3. Cardinality(unsent') = Cardinality(unsent) - 1
    BY <1>0, <2>1, StepParts, FS_RemoveElement
  <2>4. StepsLeft' = 7 * (u - 1) + 2 + 5 * l + 6 + w + d
    BY <1>parts, <2>1, <2>2, <2>3, Zenon DEF StepsLeft
  <2>5. p = 1 /\ c = 2
    BY <1>parts, <2>1, Zenon
  <2>6. QED
    BY <1>sum, <2>4, <2>5
<1>4. CASE Receive
  <2>1. /\ UNCHANGED <<ctxDone, producer, unsent, workers>>
        /\ CallerSteps(caller.pc) = 2 /\ CallerSteps(caller'.pc) = 6
        /\ Len(channel') = Len(channel) - 1
    BY <1>0, <1>4 DEF Receive, CallerSteps, TypeOK
  <2>2. WorkerSteps' = WorkerSteps
    BY <2>1 DEF WorkerSteps, Working, HoldingToken, Running
  <2>3. StepsLeft' = 7 * u + p + 5 * (l - 1) + 6 + w + d
    BY <1>parts, <2>1, <2>2, Zenon DEF StepsLeft
  <2>4. c = 2
    BY <1>parts, <2>1, Zenon
  <2>5. QED
    BY <1>sum, <2>3, <2>4
<1>5. CASE RangeEnds \/ SelectCancelled \/ SelectError \/ WaitForAll
  <2>1. /\ UNCHANGED <<ctxDone, producer, unsent, channel, workers>>
        /\ CallerSteps(caller'.pc) < CallerSteps(caller.pc)
    BY <1>5 DEF RangeEnds, SelectCancelled, SelectError, GiveUp, WaitForAll, CallerSteps
  <2>2. WorkerSteps' = WorkerSteps
    BY <2>1 DEF WorkerSteps, Working, HoldingToken, Running
  <2>3. PICK k \in Nat : k = CallerSteps(caller'.pc) /\ k < c
    <3>1. CallerSteps(caller'.pc) \in Nat
      BY DEF CallerSteps, ProducerSteps
    <3>2. QED
      BY <1>parts, <2>1, <3>1
  <2>4. StepsLeft' = 7 * u + p + 5 * l + k + w + d
    BY <1>parts, <2>1, <2>2, <2>3, Zenon DEF StepsLeft
  <2>5. k < c
    BY <2>3
  <2>6. QED
    BY <1>sum, <2>4, <2>5
<1>6. CASE PauseEnds \/ AllSent \/ ScheduleCancelled
  <2>1. /\ UNCHANGED <<ctxDone, unsent, channel, caller, workers>>
        /\ ProducerSteps(producer') < ProducerSteps(producer)
    BY <1>0, <1>6 DEF PauseEnds, AllSent, ScheduleCancelled, ProducerSteps, TypeOK, ProducerPcs
  <2>2. WorkerSteps' = WorkerSteps
    BY <2>1 DEF WorkerSteps, Working, HoldingToken, Running
  <2>3. PICK k \in Nat : k = ProducerSteps(producer') /\ k < p
    <3>1. ProducerSteps(producer') \in Nat
      BY DEF CallerSteps, ProducerSteps
    <3>2. QED
      BY <1>parts, <2>1, <3>1
  <2>4. StepsLeft' = 7 * u + k + 5 * l + c + w + d
    BY <1>parts, <2>1, <2>2, <2>3, Zenon DEF StepsLeft
  <2>5. k < p
    BY <2>3
  <2>6. QED
    BY <1>sum, <2>4, <2>5
<1>7. CASE Cancel
  <2>1. UNCHANGED <<producer, unsent, channel, caller, workers>>
    BY <1>7 DEF Cancel
  <2>2. WorkerSteps' = WorkerSteps
    BY <2>1 DEF WorkerSteps, Working, HoldingToken, Running
  <2>3. CancelSteps(ctxDone) = 1 /\ CancelSteps(ctxDone') = 0
    BY <1>7 DEF Cancel, CancelSteps
  <2>4. StepsLeft' = 7 * u + p + 5 * l + c + w + 0
    BY <1>parts, <2>1, <2>2, <2>3, Zenon DEF StepsLeft
  <2>5. d = 1
    BY <1>parts, <2>3, Zenon
  <2>6. QED
    BY <1>sum, <2>4, <2>5
<1>8. QED
  BY <1>1, <1>2, <1>3, <1>4, <1>5, <1>6, <1>7, <1>9 DEF Next, ProducerNext, CallerNext

(* Every step of Execute, Schedule and the goroutines uses something up that    *)
(* no later step gives back (scheduler.go:12-21, 250-284).                      *)
THEOREM EveryStepUsesUp == Spec => StepsBounded
<1>1. IInv /\ [Next]_vars => [StepsLeft' < StepsLeft]_vars
  BY StepUsesUp
<1>2. QED
  BY ExecutorInvariant, <1>1, PTL DEF Spec, StepsBounded

(* A call takes no more than 7 * TotalItems + 5 steps: that is what it may use  *)
(* up, and what is left is never below zero (scheduler.go:250-284).             *)
THEOREM FiniteCall == Spec => [](StepsLeft \in 0..(7 * TotalItems + 5))
<1> DEFINE Bounded == StepsLeft \in 0..(7 * TotalItems + 5)
<1>1. TypeOK => StepsLeft \in Nat
  <2> SUFFICES ASSUME TypeOK PROVE StepsLeft \in Nat
    OBVIOUS
  <2>1. /\ Cardinality(unsent) \in Nat /\ ProducerSteps(producer) \in Nat /\ Len(channel) \in Nat
        /\ CallerSteps(caller.pc) \in Nat /\ WorkerSteps \in Nat /\ CancelSteps(ctxDone) \in Nat
    BY StepParts
  <2>2. QED
    BY <2>1 DEF StepsLeft
<1>2. Init => Bounded
  <2> SUFFICES ASSUME Init PROVE Bounded
    OBVIOUS
  <2>1. TypeOK
    BY InitIInv DEF IInv
  <2>2. Working = {} /\ HoldingToken = {} /\ Running = {}
    BY DEF Init, Working, HoldingToken, Running
  <2>3. WorkerSteps = 0
    BY <2>2, FS_EmptySet DEF WorkerSteps
  <2>4. CallerSteps(caller.pc) = 2 /\ Len(channel) = 0
    BY DEF Init, CallerSteps
  <2>5. QED
    BY <1>1, <2>1, <2>3, <2>4, StepParts, ExecutorAssumption DEF StepsLeft
<1>3. IInv /\ Bounded /\ [Next]_vars => Bounded'
  <2> SUFFICES ASSUME IInv, Bounded, [Next]_vars PROVE Bounded'
    OBVIOUS
  <2>1. StepsLeft' \in Nat
    <3>1. TypeOK'
      BY NextIInv DEF IInv
    <3>2. (TypeOK => StepsLeft \in Nat)'
      BY <1>1, PTL
    <3>3. QED
      BY <3>1, <3>2
  <2>2. CASE Next
    BY <2>1, <2>2, StepUsesUp, ExecutorAssumption
  <2>3. CASE UNCHANGED vars
    <3>1. StepsLeft' = StepsLeft
      BY <2>3 DEF vars, StepsLeft, WorkerSteps, Working, HoldingToken, Running
    <3>2. QED
      BY <3>1
  <2>4. QED
    BY <2>2, <2>3
<1>4. QED
  BY ExecutorInvariant, <1>2, <1>3, PTL DEF Spec

-----------------------------------------------------------------------------
(* The refinement: the token is what begins an item, the return of its work   *)
(* function what finishes it, wg.Wait what lets the call come back; every      *)
(* other step leaves the pool as it is.                                        *)

LEMMA PoolStep == IInv /\ [Next]_vars => [Pool!PoolNext]_(Pool!poolVars)
<1> SUFFICES ASSUME IInv, [Next]_vars PROVE [Pool!PoolNext]_(Pool!poolVars)
  OBVIOUS
<1> USE DEF Pool!PoolNext, Pool!poolVars
<1>1. CASE SelectToken
  <2>1. /\ caller.pc = "select" /\ caller'.pc = "receive"
        /\ caller.index \in Items \ Begun
        /\ sem < MaxConcurrent
    BY <1>1 DEF SelectToken, IInv, TypeOK, CallerOK, OnePlaceEach
  <2>2. Working' = Working \cup {caller.index} /\ Begun' = Begun \cup {caller.index}
    BY <1>1, <2>1 DEF SelectToken, IInv, TypeOK, Working, Begun
  <2>3. Cardinality(Working) < MaxConcurrent
    <3>1. Cardinality(Working) <= sem
      BY TokenFacts DEF IInv
    <3>2. Cardinality(Working) \in Nat
      BY ItemsFacts, FS_Subset, FS_CardinalityType DEF Working
    <3>3. QED
      BY <2>1, <3>1, <3>2, ExecutorAssumption DEF IInv, TypeOK
  <2>4. Pool!Begin(caller.index)
    <3>1. Items \ Begun' = (Items \ Begun) \ {caller.index}
      BY <2>2
    <3>2. ~(caller.pc = "returned")
      BY <2>1
    <3>3. (caller'.pc = "returned") = (caller.pc = "returned")
      BY <2>1
    <3>4. caller.index \in Items \ Begun
      BY <2>1
    <3>5. Pool!Cardinality(Working) < MaxConcurrent
      BY <2>3 DEF Pool!Cardinality, Cardinality
    <3>6. QED
      BY Zenon, <3>1, <3>2, <3>3, <3>4, <3>5, <2>2 DEF Pool!Begin
  <2>5. QED
    BY <2>1, <2>4
<1>2. ASSUME NEW i \in Items, NEW fails \in BOOLEAN, WorkReturns(i, fails)
      PROVE  Pool!Finish(i)
  <2>1. Working' = Working \ {i} /\ i \in Working
    BY <1>2 DEF WorkReturns, IInv, TypeOK, Working
  <2>2. Begun' = Begun /\ caller' = caller
    BY <1>2 DEF WorkReturns, IInv, TypeOK, Begun
  <2>3. QED
    BY <2>1, <2>2 DEF Pool!Finish
<1>3. CASE WaitForAll
  <2>1. Working = {} /\ Working' = Working /\ Begun' = Begun
    BY <1>3 DEF WaitForAll, Working, Begun
  <2>2. Pool!Return
    BY <1>3, <2>1 DEF WaitForAll, Pool!Return
  <2>3. QED
    BY <2>2
<1>4. ASSUME NEW i \in Items, Release(i) \/ Done(i)
      PROVE  UNCHANGED Pool!poolVars
  <2>1. Working' = Working /\ Begun' = Begun /\ caller' = caller
    BY <1>4 DEF Release, Done, IInv, TypeOK, Working, Begun
  <2>2. QED
    BY <2>1
<1>8. ASSUME NEW i \in Items, HandOver(i) PROVE UNCHANGED Pool!poolVars
  <2>1. Working' = Working /\ Begun' = Begun
    BY <1>8 DEF HandOver, Working, Begun
  <2>2. caller.pc # "returned" /\ caller'.pc # "returned"
    BY <1>8 DEF HandOver, Meets
  <2>3. QED
    BY <2>1, <2>2
<1>5. CASE Receive \/ RangeEnds \/ SelectCancelled \/ SelectError
  <2>1. Working' = Working /\ Begun' = Begun
    BY <1>5 DEF Receive, RangeEnds, SelectCancelled, SelectError, GiveUp, Working, Begun
  <2>2. caller.pc # "returned" /\ caller'.pc # "returned"
    BY <1>5 DEF Receive, RangeEnds, SelectCancelled, SelectError, GiveUp
  <2>3. QED
    BY <2>1, <2>2
<1>6. CASE UNCHANGED <<caller, workers>>
  BY <1>6 DEF Working, Begun
<1>7. QED
  BY <1>1, <1>2, <1>3, <1>4, <1>5, <1>6, <1>8
     DEF Next, ProducerNext, CallerNext, WorkerNext, vars, Cancel, Send, PauseEnds, AllSent,
         ScheduleCancelled

(* Execute implements a bounded pool (BoundedPool.tla): at most MaxConcurrent  *)
(* work functions run at a time, each item once, none after the return         *)
(* (scheduler.go:251-285).                                                     *)
THEOREM ExecutorImplementsPool == Spec => ImplementsPool
<1>1. Init => Pool!PoolInit
  BY DEF Init, Pool!PoolInit, Begun, Working
<1>2. QED
  BY ExecutorInvariant, <1>1, PoolStep, PTL DEF Spec, ImplementsPool, Pool!PoolSpec
=============================================================================
