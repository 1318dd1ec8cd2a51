-------------------------- MODULE SpikeSchedulerProofs --------------------------
(***************************************************************************)
(* Proofs about Distribution and SpikeScheduler, for any events, durations,  *)
(* spacing and bounds: what a strategy returns, and when and how often a      *)
(* spike is injected.                                                       *)
(***************************************************************************)
EXTENDS SpikeScheduler, FiniteSetTheorems, WellFoundedInduction, TLAPS

-----------------------------------------------------------------------------
(* What the strategies return. *)

LEMMA SmallestOf ==
  ASSUME NEW T, T \subseteq Nat, T # {}
  PROVE  \E x \in T : \A y \in T : x <= y
<1> DEFINE R == OpToRel(<, Nat)
<1>1. IsWellFoundedOn(R, Nat)
  BY NatLessThanWellFounded
<1> HIDE DEF R
<1>2. PICK x \in T : \A y \in T : ~ (<<y, x>> \in R)
  BY <1>1, WFMin
<1>3. \A y \in T : ~ (y < x)
  BY <1>2 DEF R, OpToRel
<1>4. QED
  BY <1>3

LEMMA LargerType ==
  ASSUME NEW a \in Nat, NEW b \in Nat
  PROVE  LargerOf(a, b) \in Nat /\ LargerOf(a, b) >= a /\ LargerOf(a, b) >= b
BY DEF LargerOf

(* The recursive definition of sortAndSpace has a value of the right type: the *)
(* first place up to which it would have none cannot be, nor the first at which *)
(* two functions that satisfy it differ.                                       *)
LEMMA SpacedExists ==
  ASSUME NEW n \in Nat, NEW at \in [1..n -> Nat]
  PROVE  \E f \in [1..n -> Nat] :
           f = [i \in 1..n |-> IF i = 1 THEN at[1] ELSE LargerOf(at[i], f[i - 1] + MinSpacing)]
<1> DEFINE Spaced(m, f) ==
             \A i \in 1..m : f[i] = IF i = 1 THEN at[1] ELSE LargerOf(at[i], f[i - 1] + MinSpacing)
           T == {m \in 0..n : ~ \E f \in [1..m -> Nat] : Spaced(m, f)}
<1>1. ASSUME NEW m \in 1..n, NEW f \in [1..(m - 1) -> Nat], Spaced(m - 1, f)
      PROVE  \E g \in [1..m -> Nat] : Spaced(m, g)
  <2> DEFINE last == IF m = 1 THEN at[1] ELSE LargerOf(at[m], f[m - 1] + MinSpacing)
             g == [i \in 1..m |-> IF i = m THEN last ELSE f[i]]
  <2>1. last \in Nat
    <3>1. CASE m = 1
      BY <3>1
    <3>2. CASE m # 1
      <4>1. f[m - 1] + MinSpacing \in Nat
        BY <3>2, DistributionAssumption
      <4>2. QED
        BY <3>2, <4>1, LargerType
    <3>3. QED
      BY <3>1, <3>2
  <2> HIDE DEF last
  <2>2. g \in [1..m -> Nat]
    BY <2>1
  <2>3. ASSUME NEW i \in 1..m
        PROVE  g[i] = IF i = 1 THEN at[1] ELSE LargerOf(at[i], g[i - 1] + MinSpacing)
    <3>1. CASE i = m
      BY <3>1 DEF last
    <3>2. CASE i # m
      <4>1. i \in 1..(m - 1) /\ g[i] = f[i] /\ (i # 1 => g[i - 1] = f[i - 1])
        BY <3>2
      <4>2. QED
        BY <4>1, <1>1
    <3>3. QED
      BY <3>1, <3>2
  <2>4. QED
    BY <2>2, <2>3
<1>2. \E f \in [1..0 -> Nat] : Spaced(0, f)
  <2>1. [i \in 1..0 |-> 0] \in [1..0 -> Nat] /\ Spaced(0, [i \in 1..0 |-> 0])
    OBVIOUS
  <2>2. QED
    BY <2>1
<1> HIDE DEF Spaced
<1>3. T = {}
  <2>1. T \subseteq 0..n /\ T \subseteq Nat
    OBVIOUS
  <2>2. \A m \in 0..n : m \in T \/ \E f \in [1..m -> Nat] : Spaced(m, f)
    OBVIOUS
  <2>3. \A m \in T : ~ \E f \in [1..m -> Nat] : Spaced(m, f)
    OBVIOUS
  <2> HIDE DEF T
  <2> SUFFICES ASSUME T # {} PROVE FALSE
    OBVIOUS
  <2>4. PICK m \in T : \A y \in T : m <= y
    BY <2>1, SmallestOf
  <2>5. m \in 0..n /\ m # 0
    BY <1>2, <2>1, <2>3, <2>4
  <2>6. m \in 1..n /\ m - 1 \in 0..n /\ ~ (m <= m - 1)
    BY <2>5
  <2>7. m - 1 \notin T
    BY <2>4, <2>6
  <2>8. PICK f \in [1..(m - 1) -> Nat] : Spaced(m - 1, f)
    BY <2>2, <2>6, <2>7
  <2>9. QED
    BY <1>1, <2>3, <2>4, <2>6, <2>8
<1>4. PICK f \in [1..n -> Nat] : Spaced(n, f)
  <2>1. n \in 0..n
    OBVIOUS
  <2>2. QED
    BY <1>3, <2>1
<1>5. f = [i \in 1..n |-> IF i = 1 THEN at[1] ELSE LargerOf(at[i], f[i - 1] + MinSpacing)]
  BY <1>4 DEF Spaced
<1>6. QED
  BY <1>5

IsSpaced(n, at, f) ==
  \A i \in 1..n : f[i] = IF i = 1 THEN at[1] ELSE LargerOf(at[i], f[i - 1] + MinSpacing)

LEMMA SpacedUnique ==
  ASSUME NEW n \in Nat, NEW at \in [1..n -> Nat], NEW f, NEW g, IsSpaced(n, at, f), IsSpaced(n, at, g)
  PROVE  \A i \in 1..n : f[i] = g[i]
<1> DEFINE T == {i \in 1..n : f[i] # g[i]}
<1>1. \A i \in 1..n : f[i] = IF i = 1 THEN at[1] ELSE LargerOf(at[i], f[i - 1] + MinSpacing)
  BY DEF IsSpaced
<1>2. \A i \in 1..n : g[i] = IF i = 1 THEN at[1] ELSE LargerOf(at[i], g[i - 1] + MinSpacing)
  BY DEF IsSpaced
<1>3. T = {}
  <2>1. T \subseteq Nat /\ \A i \in 1..n : i \in T <=> f[i] # g[i]
    OBVIOUS
  <2>2. T \subseteq 1..n
    OBVIOUS
  <2> HIDE DEF T
  <2> SUFFICES ASSUME T # {} PROVE FALSE
    OBVIOUS
  <2>3. PICK i \in T : \A y \in T : i <= y
    BY <2>1, SmallestOf
  <2>4. i \in 1..n /\ f[i] # g[i]
    BY <2>1, <2>2, <2>3
  <2>5. i # 1 => i - 1 \in 1..n /\ ~ (i <= i - 1)
    BY <2>4
  <2>6. i # 1 => f[i - 1] = g[i - 1]
    BY <2>1, <2>3, <2>5
  <2>7. QED
    BY <1>1, <1>2, <2>4, <2>6
<1>4. QED
  BY <1>3

LEMMA SortAndSpace ==
  ASSUME NEW n \in Nat, NEW at \in [1..n -> Nat]
  PROVE  /\ sortAndSpace(at) \in [1..n -> Nat]
         /\ \A i \in 1..n : sortAndSpace(at)[i] >= at[i]
         /\ \A i \in 2..n : sortAndSpace(at)[i] >= sortAndSpace(at)[i - 1] + MinSpacing
<1> DEFINE Eq(f) == f = [i \in 1..n |-> IF i = 1 THEN at[1] ELSE LargerOf(at[i], f[i - 1] + MinSpacing)]
<1>1. PICK f \in [1..n -> Nat] : Eq(f)
  BY SpacedExists
<1>2. sortAndSpace(at) = CHOOSE g : g = [i \in DOMAIN at |-> IF i = 1 THEN at[1]
                                          ELSE LargerOf(at[i], g[i - 1] + MinSpacing)]
  BY DEF sortAndSpace
<1>3. DOMAIN at = 1..n
  OBVIOUS
<1>4. sortAndSpace(at) = CHOOSE g : Eq(g)
  BY <1>2, <1>3
<1>5. Eq(sortAndSpace(at))
  BY <1>1, <1>4
<1>6. sortAndSpace(at) = f
  <2>1. IsSpaced(n, at, f) /\ f = [i \in 1..n |-> f[i]]
    BY <1>1 DEF IsSpaced
  <2>2. IsSpaced(n, at, sortAndSpace(at))
    BY <1>5 DEF IsSpaced
  <2>3. sortAndSpace(at) = [i \in 1..n |-> sortAndSpace(at)[i]]
    BY <1>5
  <2>4. \A i \in 1..n : sortAndSpace(at)[i] = f[i]
    BY <2>1, <2>2, SpacedUnique
  <2>5. QED
    BY <2>1, <2>3, <2>4
<1>7. \A i \in 2..n : f[i] = LargerOf(at[i], f[i - 1] + MinSpacing)
  BY <1>1
<1>8. \A i \in 1..n : i = 1 => f[i] = at[i]
  BY <1>1
<1>9. ASSUME NEW i \in 2..n
      PROVE  f[i] >= at[i] /\ f[i] >= f[i - 1] + MinSpacing
  <2>1. at[i] \in Nat /\ f[i - 1] + MinSpacing \in Nat
    BY DistributionAssumption
  <2>2. QED
    BY <2>1, <1>7, LargerType
<1>10. QED
  BY <1>6, <1>8, <1>9

LEMMA JitterType ==
  ASSUME NEW d \in Nat
  PROVE  applyJitter(d) \subseteq Nat
<1> DEFINE percent == IF JitterPercent > 100 THEN 100 ELSE JitterPercent
           range == (d * percent) \div 100
<1>1. percent \in Nat /\ percent <= 100
  BY DistributionAssumption
<1> HIDE DEF percent
<1>2. d * percent \in Nat
  BY <1>1
<1>3. d * percent <= d * 100
  BY <1>1
<1>4. range \in Nat /\ range <= d
  <2> DEFINE product == d * percent
  <2>1. product \in Nat /\ product <= d * 100
    BY <1>2, <1>3
  <2> HIDE DEF product
  <2>2. product \div 100 \in Nat /\ product \div 100 <= d
    BY <2>1
  <2>3. QED
    BY <2>2 DEF product
<1> HIDE DEF range
<1>5. applyJitter(d) = (d - range)..(d + range)
  BY DEF applyJitter, range, percent
<1>6. QED
  BY <1>4, <1>5

LEMMA QuotientType ==
  ASSUME NEW a \in Nat, NEW b \in Nat, b > 0
  PROVE  a \div b \in Nat
OBVIOUS

LEMMA LandingsType ==
  ASSUME NEW start \in Nat, NEW interval \in Nat, NEW i \in Nat, NEW e \in Events
  PROVE  Landings(start, interval, i, e) \subseteq Nat
<1>1. StartOffset[e] \in Nat
  BY DistributionAssumption
<1>2. interval * i \in Nat
  OBVIOUS
<1>3. LargerOf(start + interval * i, StartOffset[e]) \in Nat
  <2>1. start + interval * i \in Nat
    BY <1>2
  <2>2. QED
    BY <1>1, <2>1, LargerType
<1>4. interval \div 4 \in Nat
  OBVIOUS
<1>5. applyJitter(interval \div 4) \subseteq Nat
  BY <1>4, JitterType
<1>6. QED
  BY <1>3, <1>5 DEF Landings

Slots == [event : Events, at : Nat]

LEMMA SpreadType ==
  ASSUME NEW start \in Nat, NEW window \in Nat, NEW n \in Nat, NEW events \in [1..n -> Events],
         NEW slots \in Spread(start, window, events)
  PROVE  slots \in [1..n -> Slots]
<1>1. Len(events) = n
  OBVIOUS
<1> DEFINE interval == IntervalOf(window, n)
<1>2. interval \in Nat
  <2>1. window \div (n + 1) \in Nat
    BY QuotientType
  <2>2. QED
    BY <2>1, LargerType, DistributionAssumption DEF IntervalOf
<1> HIDE DEF interval
<1>3. PICK at : /\ \A i \in 1..n : at[i] \in Landings(start, interval, i, events[i])
                /\ slots = [i \in 1..n |-> Slot(events[i], at[i])]
  BY <1>1 DEF Spread, interval
<1>4. ASSUME NEW i \in 1..n
      PROVE  Slot(events[i], at[i]) \in Slots
  <2>1. events[i] \in Events /\ i \in Nat
    OBVIOUS
  <2>2. at[i] \in Nat
    BY <1>2, <1>3, <2>1, LandingsType
  <2>3. QED
    BY <2>1, <2>2 DEF Slot, Slots
<1>5. QED
  BY <1>3, <1>4

LEMMA RandomSlots ==
  ASSUME NEW n \in Nat, NEW events \in [1..n -> Events], NEW slots \in distributeRandom(events)
  PROVE  /\ slots = [i \in 1..n |-> slots[i]]
         /\ \E at \in [1..n -> Nat], p \in [1..n -> 1..n] :
              \A i \in 1..n : /\ at[i] >= StartOffset[events[p[i]]]
                             /\ slots[i] = Slot(events[p[i]], sortAndSpace(at)[i])
<1>1. Len(events) = n
  OBVIOUS
<1> DEFINE drawn(m) == {[i \in 1..m |-> LargerOf(r[i], StartOffset[events[i]])] :
                          r \in [1..m -> 0..(TestDuration - 1)]}
           sorted(m) == {dp \in drawn(m) \X Rearrangements(m) :
                           \A i \in 1..(m - 1) : dp[1][dp[2][i]] <= dp[1][dp[2][i + 1]]}
           made(m, dp) == [i \in 1..m |-> Slot(events[dp[2][i]],
                             sortAndSpace([k \in 1..m |-> dp[1][dp[2][k]]])[i])]
<1>2. PICK dp \in drawn(n) \X Rearrangements(n) : slots = made(n, dp)
  <2>1. distributeRandom(events) = {made(Len(events), dp) : dp \in sorted(Len(events))}
    BY DEF distributeRandom
  <2>2. slots \in {made(n, dp) : dp \in sorted(n)}
    BY <1>1, <2>1
  <2>3. sorted(n) \subseteq drawn(n) \X Rearrangements(n)
    OBVIOUS
  <2> HIDE DEF sorted, made, drawn
  <2>4. QED
    BY <2>2, <2>3
<1>3. dp[1] \in drawn(n) /\ dp[2] \in [1..n -> 1..n]
  BY DEF Rearrangements
<1>4. PICK r \in [1..n -> 0..(TestDuration - 1)] :
        dp[1] = [i \in 1..n |-> LargerOf(r[i], StartOffset[events[i]])]
  BY <1>3
<1> HIDE DEF drawn, sorted
<1> DEFINE p == dp[2]
           at == [k \in 1..n |-> dp[1][p[k]]]
<1>5. p \in [1..n -> 1..n]
  BY <1>3
<1>6. ASSUME NEW k \in 1..n
      PROVE  at[k] \in Nat /\ at[k] >= StartOffset[events[p[k]]]
  <2>1. p[k] \in 1..n
    BY <1>5
  <2>2. at[k] = LargerOf(r[p[k]], StartOffset[events[p[k]]])
    BY <1>4, <2>1
  <2>3. r[p[k]] \in Nat /\ StartOffset[events[p[k]]] \in Nat
    BY <2>1, DistributionAssumption
  <2>4. QED
    BY <2>2, <2>3, LargerType
<1>7. at \in [1..n -> Nat]
  BY <1>6
<1>8. slots = [i \in 1..n |-> Slot(events[p[i]], sortAndSpace(at)[i])]
  BY <1>2
<1> HIDE DEF at, p
<1>9. \A i \in 1..n : slots[i] = Slot(events[p[i]], sortAndSpace(at)[i])
  BY <1>8
<1>10. slots = [i \in 1..n |-> slots[i]]
  BY <1>8
<1>11. QED
  BY <1>5, <1>6, <1>7, <1>9, <1>10

(* Every strategy returns one slot for each place of the test's spikes.        *)
LEMMA DistributedType ==
  ASSUME NEW n \in Nat, NEW events \in [1..n -> Events], NEW strategy,
         NEW slots \in distributeSpikes(strategy, events)
  PROVE  slots \in [1..n -> Slots]
<1>1. ASSUME slots \in distributeRandom(events)
      PROVE  slots \in [1..n -> Slots]
  <2>1. PICK at \in [1..n -> Nat], p \in [1..n -> 1..n] :
          \A i \in 1..n : slots[i] = Slot(events[p[i]], sortAndSpace(at)[i])
    BY <1>1, RandomSlots
  <2>2. sortAndSpace(at) \in [1..n -> Nat]
    BY SortAndSpace
  <2>3. \A i \in 1..n : Slot(events[p[i]], sortAndSpace(at)[i]) \in Slots
    BY <2>2 DEF Slot, Slots
  <2>4. slots = [i \in 1..n |-> slots[i]]
    BY <1>1, RandomSlots
  <2>5. QED
    BY <2>1, <2>3, <2>4
<1>2. TestDuration * 40 \in Nat /\ TestDuration * 60 \in Nat
  BY DistributionAssumption
<1>3. (TestDuration * 40) \div 100 \in Nat /\ (TestDuration * 60) \div 100 \in Nat
  BY <1>2, QuotientType
<1>4. ASSUME slots \in distributeEven(events)
      PROVE  slots \in [1..n -> Slots]
  BY <1>4, SpreadType, DistributionAssumption DEF distributeEven
<1>5. ASSUME slots \in distributeFrontLoaded(events)
      PROVE  slots \in [1..n -> Slots]
  BY <1>3, <1>5, SpreadType DEF distributeFrontLoaded
<1>6. ASSUME slots \in distributeBackLoaded(events)
      PROVE  slots \in [1..n -> Slots]
  BY <1>3, <1>6, SpreadType DEF distributeBackLoaded
<1>7. \/ slots \in distributeRandom(events) \/ slots \in distributeFrontLoaded(events)
      \/ slots \in distributeBackLoaded(events) \/ slots \in distributeEven(events)
  BY DEF distributeSpikes
<1>8. QED
  BY <1>1, <1>4, <1>5, <1>6, <1>7

(* The random strategy keeps the minimum spacing between neighbours of the     *)
(* list, and puts no spike before its own offset, for any random draws         *)
(* (spike_scheduler.go:129-151, 203-217).                                      *)
THEOREM RandomKeepsSpacing ==
  ASSUME NEW n \in Nat, NEW events \in [1..n -> Events], NEW slots \in distributeSpikes("random", events)
  PROVE  /\ \A i \in 2..n : slots[i].at >= slots[i - 1].at + MinSpacing
         /\ \A i \in 1..n : slots[i].at >= StartOffset[slots[i].event]
<1>1. slots \in distributeRandom(events)
  BY DEF distributeSpikes
<1>2. PICK at \in [1..n -> Nat], p \in [1..n -> 1..n] :
        \A i \in 1..n : /\ at[i] >= StartOffset[events[p[i]]]
                       /\ slots[i] = Slot(events[p[i]], sortAndSpace(at)[i])
  BY <1>1, RandomSlots
<1>3. ASSUME NEW i \in 1..n
      PROVE  slots[i].at = sortAndSpace(at)[i] /\ slots[i].event = events[p[i]]
  <2> DEFINE e == events[p[i]]
             t == sortAndSpace(at)[i]
  <2>1. slots[i] = Slot(e, t)
    BY <1>2
  <2> HIDE DEF e, t
  <2>2. slots[i].at = t /\ slots[i].event = e
    BY <2>1 DEF Slot
  <2>3. QED
    BY <2>2 DEF e, t
<1>4. /\ sortAndSpace(at) \in [1..n -> Nat]
      /\ \A i \in 1..n : sortAndSpace(at)[i] >= at[i]
      /\ \A i \in 2..n : sortAndSpace(at)[i] >= sortAndSpace(at)[i - 1] + MinSpacing
  BY SortAndSpace
<1>5. ASSUME NEW i \in 2..n
      PROVE  slots[i].at >= slots[i - 1].at + MinSpacing
  <2>1. i \in 1..n /\ i - 1 \in 1..n
    OBVIOUS
  <2>2. QED
    BY <1>3, <1>4, <2>1
<1>6. ASSUME NEW i \in 1..n
      PROVE  slots[i].at >= StartOffset[slots[i].event]
  <2> DEFINE e == events[p[i]]
             t == sortAndSpace(at)[i]
  <2>1. StartOffset[e] \in Nat /\ at[i] \in Nat /\ t \in Nat
    BY <1>4, DistributionAssumption
  <2>2. at[i] >= StartOffset[e] /\ t >= at[i]
    BY <1>2, <1>4
  <2>3. slots[i].at = t /\ slots[i].event = e
    BY <1>3
  <2> HIDE DEF e, t
  <2>4. t >= StartOffset[e]
    BY <2>1, <2>2
  <2>5. QED
    BY <2>3, <2>4, Zenon
<1>7. QED
  BY <1>5, <1>6

-----------------------------------------------------------------------------
(* The scheduler. *)

(* A runner's list names spikes that exist, each once; what it is about to     *)
(* inject is due.                                                              *)
RunnerFits(g) ==
  LET todo == runners[g].todo
  IN /\ \A k \in DOMAIN todo : todo[k] \in Indices
     /\ \A j, k \in DOMAIN todo : todo[j] = todo[k] => j = k
     /\ runners[g].pc \in {"inject", "waiting"} => todo # <<>>
     /\ runners[g].pc = "inject" => Due(g)

(* What has not been added has not been injected; running is the effect of a   *)
(* start.                                                                      *)
NotBeforeAdded == \A i \in 1..MaxSpikes : i \notin Indices => injections[i] = 0
StartedOnce == running => starts > 0

IInv ==
  /\ TypeOK
  /\ \A g \in Runners : RunnerFits(g)
  /\ NotBeforeAdded
  /\ StartedOnce
  /\ NeverEarly
  /\ OncePerStart

PendingFor(i) == {g \in Runners : Pending(g, i)}

RunnerType == [pc : RunnerPcs, todo : Seq(1..MaxSpikes)]

LEMMA RunnersAre ==
  ASSUME TypeOK
  PROVE  /\ runners \in Seq(RunnerType)
         /\ Len(runners) \in Nat
         /\ Runners = 1..Len(runners)
         /\ DOMAIN runners = Runners
         /\ runners \in [Runners -> RunnerType]
<1>1. runners \in Seq(RunnerType)
  BY DEF TypeOK, RunnerType
<1> HIDE DEF RunnerType
<1>2. QED
  BY <1>1 DEF Runners

LEMMA PendingFinite ==
  ASSUME TypeOK, NEW i
  PROVE  IsFiniteSet(PendingFor(i)) /\ Cardinality(PendingFor(i)) \in Nat
<1>1. Len(runners) \in Nat
  BY DEF TypeOK
<1>2. IsFiniteSet(Runners)
  BY <1>1, FS_Interval DEF Runners
<1>3. PendingFor(i) \subseteq Runners
  BY DEF PendingFor
<1>4. IsFiniteSet(PendingFor(i))
  BY <1>2, <1>3, FS_Subset
<1>5. QED
  BY <1>4, FS_CardinalityType

(* The step of a runner: its own entry changes and no other.                   *)
LEMMA EntryChanges ==
  ASSUME TypeOK, NEW g \in Runners, NEW r \in RunnerType,
         runners' = [runners EXCEPT ![g] = r]
  PROVE  /\ runners' \in Seq(RunnerType)
         /\ Runners' = Runners
         /\ runners'[g] = r
         /\ \A h \in Runners \ {g} : runners'[h] = runners[h]
<1> HIDE DEF RunnerType
<1>1. /\ runners \in [1..Len(runners) -> RunnerType]
      /\ Len(runners) \in Nat /\ Runners = 1..Len(runners)
  BY RunnersAre
<1>2. runners' \in [1..Len(runners) -> RunnerType]
  BY <1>1
<1>3. runners' \in Seq(RunnerType) /\ Len(runners') = Len(runners)
  BY <1>1, <1>2
<1>4. QED
  BY <1>1, <1>3 DEF Runners

LEMMA GotoEntry ==
  ASSUME TypeOK, NEW g \in Runners, NEW from, NEW to, Goto(g, from, to)
  PROVE  runners' = [runners EXCEPT ![g] = [pc |-> to, todo |-> runners[g].todo]]
<1>1. runners[g] \in RunnerType
  BY RunnersAre
<1>2. [runners[g] EXCEPT !.pc = to] = [pc |-> to, todo |-> runners[g].todo]
  BY <1>1 DEF RunnerType
<1>3. QED
  BY <1>2 DEF Goto

LEMMA RunnerAdded ==
  ASSUME TypeOK, NEW r \in RunnerType, runners' = Append(runners, r)
  PROVE  /\ runners' \in Seq(RunnerType)
         /\ Runners' = Runners \cup {Len(runners) + 1}
         /\ Len(runners) + 1 \notin Runners
         /\ runners'[Len(runners) + 1] = r
         /\ \A h \in Runners : runners'[h] = runners[h]
<1> HIDE DEF RunnerType
<1>1. /\ runners \in Seq(RunnerType) /\ Len(runners) \in Nat /\ Runners = 1..Len(runners)
  BY RunnersAre
<1>2. runners' \in Seq(RunnerType) /\ Len(runners') = Len(runners) + 1
  BY <1>1
<1>3. Runners' = 1..(Len(runners) + 1)
  BY <1>2 DEF Runners
<1>4. QED
  BY <1>1, <1>2, <1>3

LEMMA SpikesAre ==
  ASSUME TypeOK
  PROVE  /\ spikes \in Seq(Slots) /\ Len(spikes) \in Nat /\ Len(spikes) <= MaxSpikes
         /\ Indices = 1..Len(spikes) /\ Indices \subseteq 1..MaxSpikes
         /\ \A i \in Indices : spikes[i] \in Slots /\ spikes[i].at \in Nat
<1>1. spikes \in Seq(Slots) /\ Len(spikes) <= MaxSpikes
  BY DEF TypeOK, Slots
<1>2. Len(spikes) \in Nat
  BY <1>1
<1>3. Indices = 1..Len(spikes) /\ Indices \subseteq 1..MaxSpikes
  BY <1>1, <1>2, SchedulerAssumption DEF Indices
<1>4. \A i \in Indices : spikes[i] \in Slots
  BY <1>1, <1>3
<1>5. \A s \in Slots : s.at \in Nat
  BY DEF Slots
<1>6. QED
  BY <1>1, <1>2, <1>3, <1>4, <1>5

(* The list of spikes only grows. *)
LEMMA ListGrows ==
  ASSUME TypeOK, NEW new \in Seq(Slots), spikes' = spikes \o new
  PROVE  /\ spikes' \in Seq(Slots)
         /\ Len(spikes') = Len(spikes) + Len(new)
         /\ Indices' = 1..(Len(spikes) + Len(new))
         /\ Indices \subseteq Indices'
         /\ \A i \in Indices : spikes'[i] = spikes[i]
<1> HIDE DEF Slots
<1>1. spikes \in Seq(Slots) /\ Len(spikes) \in Nat /\ Indices = 1..Len(spikes)
  BY SpikesAre
<1>2. Len(new) \in Nat
  OBVIOUS
<1>3. spikes' \in Seq(Slots) /\ Len(spikes') = Len(spikes) + Len(new)
  BY <1>1
<1>4. Indices' = 1..(Len(spikes) + Len(new))
  BY <1>3 DEF Indices
<1>5. \A i \in 1..Len(spikes) : spikes'[i] = spikes[i]
  BY <1>1
<1>6. QED
  BY <1>1, <1>2, <1>3, <1>4, <1>5

(* A runner that is not touched keeps to its list while the list of spikes     *)
(* grows and time passes.                                                      *)
LEMMA FitsStill ==
  ASSUME TypeOK, NEW g \in Runners, RunnerFits(g), runners'[g] = runners[g],
         Indices \subseteq Indices', \A i \in Indices : spikes'[i] = spikes[i],
         now' \in Nat, now' >= now
  PROVE  RunnerFits(g)'
<1> DEFINE todo == runners[g].todo
<1>1. runners[g] \in RunnerType
  BY RunnersAre
<1>2. todo \in Seq(1..MaxSpikes) /\ runners'[g].todo = todo /\ runners'[g].pc = runners[g].pc
  BY <1>1 DEF RunnerType
<1>3. \A k \in DOMAIN todo : todo[k] \in Indices
  BY DEF RunnerFits
<1>4. ASSUME runners[g].pc = "inject"
      PROVE  spikes'[Head(todo)].at <= now'
  <2>1. todo # <<>> /\ spikes[Head(todo)].at <= now
    BY <1>4 DEF RunnerFits, Due
  <2>2. 1 \in DOMAIN todo /\ Head(todo) = todo[1]
    BY <1>2, <2>1
  <2>3. Head(todo) \in Indices
    BY <1>3, <2>2
  <2>4. spikes'[Head(todo)] = spikes[Head(todo)] /\ spikes[Head(todo)].at \in Nat
    BY <2>3, SpikesAre
  <2>5. now \in Nat
    BY SchedulerAssumption DEF TypeOK
  <2>6. QED
    BY <2>1, <2>4, <2>5
<1> DEFINE todo2 == runners'[g].todo
<1>5. /\ \A k \in DOMAIN todo2 : todo2[k] \in Indices'
      /\ \A j, k \in DOMAIN todo2 : todo2[j] = todo2[k] => j = k
      /\ runners'[g].pc \in {"inject", "waiting"} => todo2 # <<>>
  BY <1>2, <1>3 DEF RunnerFits
<1>6. runners'[g].pc = "inject" => spikes'[Head(todo2)].at <= now'
  BY <1>2, <1>4
<1>7. QED
  BY <1>5, <1>6 DEF RunnerFits, Due

LEMMA PendingStill ==
  ASSUME NEW g, NEW i, runners'[g] = runners[g]
  PROVE  Pending(g, i)' <=> Pending(g, i)
BY DEF Pending

LEMMA FewerPending ==
  ASSUME TypeOK, NEW i, PendingFor(i)' \subseteq PendingFor(i)
  PROVE  Cardinality(PendingFor(i)') \in Nat /\ Cardinality(PendingFor(i)') <= Cardinality(PendingFor(i))
<1>1. IsFiniteSet(PendingFor(i))
  BY PendingFinite
<1>2. QED
  BY <1>1, FS_Subset, FS_CardinalityType

(* Nothing is pending for a spike that is not there yet.                       *)
LEMMA NonePending ==
  ASSUME TypeOK, \A g \in Runners : RunnerFits(g), NEW i, i \notin Indices
  PROVE  PendingFor(i) = {}
BY DEF PendingFor, Pending, RunnerFits

LEMMA CountsAre ==
  ASSUME TypeOK, OncePerStart, NEW i \in Indices
  PROVE  /\ injections[i] \in Nat /\ starts \in Nat
         /\ injections[i] + Cardinality(PendingFor(i)) <= starts
<1>1. injections[i] \in Nat /\ starts \in Nat
  BY SpikesAre DEF TypeOK
<1>2. injections[i] + Cardinality(PendingFor(i)) <= starts
  BY DEF OncePerStart, PendingFor
<1>3. QED
  BY <1>1, <1>2

-----------------------------------------------------------------------------
(* The invariant, one lemma for each kind of step. *)

LEMMA InitHolds == Init => IInv
<1> SUFFICES ASSUME Init PROVE IInv
  OBVIOUS
<1>1. TypeOK
  <2>1. \A S : <<>> \in Seq(S)
    OBVIOUS
  <2>2. /\ spikes \in Seq([event : Events, at : Nat])
        /\ runners \in Seq([pc : RunnerPcs, todo : Seq(1..MaxSpikes)])
    BY <2>1 DEF Init
  <2>3. Len(spikes) <= MaxSpikes /\ now \in 0..MaxTime
    BY SchedulerAssumption DEF Init
  <2>4. injections \in [1..MaxSpikes -> Nat]
    BY DEF Init
  <2>5. QED
    BY <2>2, <2>3, <2>4 DEF Init, TypeOK
<1>2. Indices = {} /\ Runners = {}
  BY DEF Init, Indices, Runners
<1>3. NotBeforeAdded /\ StartedOnce
  BY DEF Init, NotBeforeAdded, StartedOnce
<1>4. QED
  BY <1>1, <1>2, <1>3 DEF IInv, NeverEarly, OncePerStart

(* The list grows and no runner with it: ScheduleSpikes, and AddSpike on a     *)
(* scheduler that is not running.                                              *)
LEMMA Listed ==
  ASSUME IInv, NEW new \in Seq(Slots), spikes' = spikes \o new, Len(spikes) + Len(new) <= MaxSpikes,
         UNCHANGED <<now, executed, running, cancelled, runners, starts, stops, injections>>
  PROVE  IInv'
<1>1. TypeOK
  BY DEF IInv
<1>2. now \in Nat
  BY <1>1, SchedulerAssumption DEF TypeOK
<1>3. /\ spikes' \in Seq(Slots) /\ Len(spikes') <= MaxSpikes
      /\ Indices \subseteq Indices' /\ \A i \in Indices : spikes'[i] = spikes[i]
  BY <1>1, ListGrows
<1>4. TypeOK'
  <2>1. spikes' \in Seq([event : Events, at : Nat])
    BY <1>3 DEF Slots
  <2>2. QED
    BY <1>1, <1>3, <2>1 DEF TypeOK
<1>5. Indices' \subseteq 1..MaxSpikes
  BY <1>3, <1>4, SchedulerAssumption DEF Indices, TypeOK
<1>6. Runners' = Runners
  BY DEF Runners
<1>7. ASSUME NEW g \in Runners' PROVE RunnerFits(g)'
  <2>1. g \in Runners /\ RunnerFits(g) /\ runners'[g] = runners[g] /\ now' \in Nat /\ now' >= now
    BY <1>2, <1>6 DEF IInv
  <2>2. QED
    BY <1>1, <1>3, <2>1, FitsStill
<1>8. NotBeforeAdded' /\ StartedOnce'
  BY <1>3 DEF IInv, NotBeforeAdded, StartedOnce
<1>9. NeverEarly'
  <2> SUFFICES ASSUME NEW i \in Indices', injections[i] > 0
               PROVE  spikes'[i].at <= now
    BY DEF NeverEarly
  <2>1. i \in Indices
    BY <1>5 DEF IInv, NotBeforeAdded
  <2>2. QED
    BY <1>3, <2>1 DEF IInv, NeverEarly
<1>10. OncePerStart'
  <2> SUFFICES ASSUME NEW i \in Indices'
               PROVE  injections[i] + Cardinality(PendingFor(i)') <= starts
    BY DEF OncePerStart, PendingFor
  <2>1. PendingFor(i)' = PendingFor(i)
    BY <1>6 DEF PendingFor, Pending
  <2>2. CASE i \in Indices
    BY <1>1, <2>1, <2>2, CountsAre DEF IInv
  <2>3. CASE i \notin Indices
    <3>1. injections[i] = 0
      BY <1>5, <2>3 DEF IInv, NotBeforeAdded
    <3>2. Cardinality(PendingFor(i)) = 0
      BY <1>1, <2>3, NonePending, FS_EmptySet DEF IInv
    <3>3. starts \in Nat
      BY <1>1 DEF TypeOK
    <3>4. QED
      BY <2>1, <3>1, <3>2, <3>3
  <2>4. QED
    BY <2>2, <2>3
<1>11. QED
  BY <1>4, <1>7, <1>8, <1>9, <1>10 DEF IInv

LEMMA ScheduleSpikesKeeps ==
  ASSUME IInv, NEW strategy \in Strategies, NEW events \in Batches, ScheduleSpikes(strategy, events)
  PROVE  IInv'
<1>1. PICK n \in 1..MaxSpikes : events \in [1..n -> Events]
  BY DEF Batches
<1>2. n \in Nat /\ Len(events) = n
  BY <1>1, SchedulerAssumption
<1>3. PICK slots \in distributeSpikes(strategy, events) :
        spikes' = spikes \o [i \in DOMAIN slots |-> [slots[i] EXCEPT !.at = now + @]]
  BY DEF ScheduleSpikes
<1>4. slots \in [1..n -> Slots]
  BY <1>1, <1>2, DistributedType
<1> DEFINE new == [i \in DOMAIN slots |-> [slots[i] EXCEPT !.at = now + @]]
<1>5. \A s \in Slots : [s EXCEPT !.at = now + @] \in Slots
  <2>1. now \in Nat
    BY SchedulerAssumption DEF IInv, TypeOK
  <2> SUFFICES ASSUME NEW s \in Slots PROVE [s EXCEPT !.at = now + @] \in Slots
    OBVIOUS
  <2>2. s.event \in Events /\ now + s.at \in Nat
    BY <2>1 DEF Slots
  <2>3. [s EXCEPT !.at = now + @] = [event |-> s.event, at |-> now + s.at]
    BY DEF Slots
  <2>4. QED
    BY <2>2, <2>3 DEF Slots
<1>6. new \in [1..n -> Slots]
  BY <1>4, <1>5
<1>7. new \in Seq(Slots) /\ Len(new) = n
  BY <1>2, <1>6
<1>8. spikes' = spikes \o new
  BY <1>3
<1> HIDE DEF new
<1>9. QED
  BY <1>2, <1>7, <1>8, Listed DEF ScheduleSpikes

(* A runner is started over the spikes there are. *)
LEMMA StartKeeps ==
  ASSUME IInv, Start
  PROVE  IInv'
<1> DEFINE r == Runner([i \in Indices |-> i])
           h == Len(runners) + 1
<1>1. TypeOK /\ now \in Nat
  BY SchedulerAssumption DEF IInv, TypeOK
<1>2. Indices = 1..Len(spikes) /\ Len(spikes) \in Nat /\ Indices \subseteq 1..MaxSpikes
  BY <1>1, SpikesAre
<1>3. r.pc = "next" /\ r.todo = [i \in Indices |-> i] /\ r \in RunnerType
  <2>1. [i \in Indices |-> i] \in Seq(1..MaxSpikes)
    BY <1>2
  <2>2. QED
    BY <2>1 DEF Runner, RunnerType, RunnerPcs
<1> HIDE DEF r
<1>4. /\ runners' \in Seq(RunnerType) /\ Runners' = Runners \cup {h} /\ h \notin Runners
      /\ runners'[h] = r /\ \A g \in Runners : runners'[g] = runners[g]
  BY <1>1, <1>3, RunnerAdded DEF Start, r
<1> HIDE DEF h
<1>5. Indices' = Indices
  BY DEF Start, Indices
<1>6. TypeOK'
  BY <1>1, <1>4 DEF Start, TypeOK, RunnerType
<1>7. ASSUME NEW g \in Runners' PROVE RunnerFits(g)'
  <2>1. CASE g \in Runners
    <3>1. RunnerFits(g)
      BY <2>1 DEF IInv
    <3>2. now' \in Nat /\ now' >= now /\ \A i \in Indices : spikes'[i] = spikes[i]
      BY <1>1 DEF Start
    <3>3. QED
      BY <1>1, <1>4, <1>5, <2>1, <3>1, <3>2, FitsStill
  <2>2. CASE g = h
    BY <1>3, <1>4, <1>5, <2>2 DEF RunnerFits
  <2>3. QED
    BY <1>4, <2>1, <2>2
<1>8. NotBeforeAdded' /\ StartedOnce' /\ NeverEarly'
  <2>1. StartedOnce'
    BY <1>1 DEF Start, StartedOnce, TypeOK
  <2>2. QED
    BY <1>5, <2>1 DEF IInv, Start, NotBeforeAdded, NeverEarly
<1>9. OncePerStart'
  <2> SUFFICES ASSUME NEW i \in Indices
               PROVE  injections[i] + Cardinality(PendingFor(i)') <= starts + 1
    BY <1>5 DEF Start, OncePerStart, PendingFor
  <2>1. PendingFor(i)' \subseteq PendingFor(i) \cup {h}
    BY <1>4, PendingStill DEF PendingFor
  <2>2. IsFiniteSet(PendingFor(i)) /\ Cardinality(PendingFor(i)) \in Nat
    BY <1>1, PendingFinite
  <2>3. /\ IsFiniteSet(PendingFor(i) \cup {h})
        /\ Cardinality(PendingFor(i) \cup {h}) \in Nat
        /\ Cardinality(PendingFor(i) \cup {h}) <= Cardinality(PendingFor(i)) + 1
    <3>1. IsFiniteSet(PendingFor(i) \cup {h})
      BY <2>2, FS_AddElement
    <3>2. \/ Cardinality(PendingFor(i) \cup {h}) = Cardinality(PendingFor(i))
          \/ Cardinality(PendingFor(i) \cup {h}) = Cardinality(PendingFor(i)) + 1
      BY <2>2, FS_AddElement
    <3>3. QED
      BY <2>2, <3>1, <3>2
  <2>4. /\ Cardinality(PendingFor(i)') <= Cardinality(PendingFor(i) \cup {h})
        /\ Cardinality(PendingFor(i)') \in Nat
    BY <2>1, <2>3, FS_Subset, FS_CardinalityType
  <2>5. injections[i] \in Nat /\ starts \in Nat /\ injections[i] + Cardinality(PendingFor(i)) <= starts
    BY <1>1, CountsAre DEF IInv
  <2>6. QED
    BY <2>2, <2>3, <2>4, <2>5
<1>10. QED
  BY <1>6, <1>7, <1>8, <1>9 DEF IInv

(* AddSpike on a running scheduler: the new spike has a runner of its own. *)
LEMMA AddSpikeKeeps ==
  ASSUME IInv, NEW e \in Events, AddSpike(e)
  PROVE  IInv'
<1> DEFINE s == Slot(e, now + StartOffset[e])
           n == Len(spikes) + 1
<1>1. TypeOK /\ now \in Nat
  BY SchedulerAssumption DEF IInv, TypeOK
<1>2. s \in Slots
  <2>1. now + StartOffset[e] \in Nat
    BY <1>1, DistributionAssumption
  <2>2. QED
    BY <2>1 DEF Slot, Slots
<1>3. spikes' = Append(spikes, s) /\ Len(spikes) < MaxSpikes
  BY DEF AddSpike
<1> HIDE DEF s
<1>4. /\ <<s>> \in Seq(Slots) /\ Len(<<s>>) = 1 /\ spikes' = spikes \o <<s>>
      /\ Len(spikes) \in Nat /\ Len(spikes) + 1 <= MaxSpikes
  <2>1. spikes \in Seq(Slots) /\ Len(spikes) \in Nat
    BY <1>1, SpikesAre
  <2>2. <<s>> \in Seq(Slots) /\ Len(<<s>>) = 1
    BY <1>2
  <2>3. spikes' = spikes \o <<s>>
    BY <1>2, <1>3, <2>1
  <2>4. QED
    BY <1>3, <2>1, <2>2, <2>3, SchedulerAssumption
<1>5. CASE ~running
  BY <1>4, <1>5, Listed DEF AddSpike
<1>6. CASE running
  <2> DEFINE r == Runner(<<n>>)
  <2>0. PICK h : h = Len(runners) + 1
    OBVIOUS
  <2>1. /\ spikes' \in Seq(Slots) /\ Len(spikes') = n /\ Indices' = 1..n
        /\ Indices \subseteq Indices' /\ \A i \in Indices : spikes'[i] = spikes[i]
    BY <1>1, <1>4, ListGrows
  <2>2. n \in Indices' /\ n \notin Indices /\ Indices' = Indices \cup {n} /\ n \in 1..MaxSpikes
    <3>1. Indices = 1..Len(spikes) /\ Len(spikes) \in Nat
      BY <1>1, SpikesAre
    <3>2. QED
      BY <1>4, <2>1, <3>1, SchedulerAssumption
  <2> HIDE DEF n
  <2>3. r.pc = "next" /\ r.todo = <<n>> /\ r \in RunnerType
    BY <2>2 DEF Runner, RunnerType, RunnerPcs
  <2> HIDE DEF r
  <2>4. /\ runners' \in Seq(RunnerType) /\ Runners' = Runners \cup {h} /\ h \notin Runners
        /\ runners'[h] = r /\ \A g \in Runners : runners'[g] = runners[g]
    <3>1. runners' = Append(runners, r)
      BY <1>6 DEF AddSpike, r, n
    <3>2. QED
      BY <1>1, <2>0, <2>3, <3>1, RunnerAdded
  <2>5. TypeOK'
    <3>1. spikes' \in Seq([event : Events, at : Nat]) /\ Len(spikes') <= MaxSpikes
      BY <1>4, <2>1, <2>2, SchedulerAssumption DEF Slots
    <3>2. runners' \in Seq([pc : RunnerPcs, todo : Seq(1..MaxSpikes)])
      BY <2>4 DEF RunnerType
    <3>3. QED
      BY <1>1, <3>1, <3>2 DEF AddSpike, TypeOK
  <2>6. ASSUME NEW g \in Runners' PROVE RunnerFits(g)'
    <3>1. CASE g \in Runners
      <4>1. RunnerFits(g)
        BY <3>1 DEF IInv
      <4>2. now' \in Nat /\ now' >= now
        BY <1>1 DEF AddSpike
      <4>3. QED
        BY <1>1, <2>1, <2>4, <3>1, <4>1, <4>2, FitsStill
    <3>2. CASE g = h
      <4>1. runners'[g].pc = "next" /\ runners'[g].todo = <<n>>
        BY <2>3, <2>4, <3>2
      <4>2. DOMAIN <<n>> = {1} /\ <<n>>[1] = n
        OBVIOUS
      <4>3. QED
        BY <2>2, <4>1, <4>2 DEF RunnerFits
    <3>3. QED
      BY <2>4, <3>1, <3>2
  <2>7. NotBeforeAdded' /\ StartedOnce'
    BY <2>2 DEF IInv, AddSpike, NotBeforeAdded, StartedOnce
  <2>8. NeverEarly'
    <3> SUFFICES ASSUME NEW i \in Indices', injections[i] > 0
                 PROVE  spikes'[i].at <= now
      BY DEF NeverEarly, AddSpike
    <3>1. i \in Indices
      BY <2>2 DEF IInv, NotBeforeAdded
    <3>2. QED
      BY <2>1, <3>1 DEF IInv, NeverEarly
  <2>9. OncePerStart'
    <3> SUFFICES ASSUME NEW i \in Indices'
                 PROVE  injections[i] + Cardinality(PendingFor(i)') <= starts
      BY DEF AddSpike, OncePerStart, PendingFor
    <3>1. \A k \in DOMAIN r.todo : r.todo[k] = n
      BY <2>3
    <3>2. CASE i \in Indices
      <4>1. ~ Pending(h, i)'
        <5>1. i # n
          BY <2>2, <3>2
        <5>2. runners'[h].todo = r.todo
          BY <2>4
        <5>3. \A k \in DOMAIN runners'[h].todo : runners'[h].todo[k] # i
          BY <3>1, <5>1, <5>2
        <5>4. QED
          BY <5>3 DEF Pending
      <4>2. PendingFor(i)' \subseteq PendingFor(i)
        <5>1. \A g \in Runners : Pending(g, i)' <=> Pending(g, i)
          BY <2>4, PendingStill
        <5>2. \A g \in Runners' : Pending(g, i)' => g \in Runners /\ Pending(g, i)
          BY <2>4, <4>1, <5>1
        <5>3. QED
          BY <5>2 DEF PendingFor
      <4>3. /\ Cardinality(PendingFor(i)') \in Nat /\ Cardinality(PendingFor(i)) \in Nat
            /\ Cardinality(PendingFor(i)') <= Cardinality(PendingFor(i))
        BY <1>1, <4>2, FewerPending, PendingFinite
      <4>4. /\ injections[i] \in Nat /\ starts \in Nat
            /\ injections[i] + Cardinality(PendingFor(i)) <= starts
        BY <1>1, <3>2, CountsAre DEF IInv
      <4>5. QED
        BY <4>3, <4>4
    <3>3. CASE i = n
      <4>1. PendingFor(i)' \subseteq {h}
        <5>1. \A g \in Runners : ~ Pending(g, i)
          BY <2>2, <3>3 DEF IInv, RunnerFits, Pending
        <5>2. QED
          BY <2>4, <5>1, PendingStill DEF PendingFor
      <4>2. Cardinality(PendingFor(i)') \in Nat /\ Cardinality(PendingFor(i)') <= 1
        <5>1. IsFiniteSet({h}) /\ Cardinality({h}) = 1
          BY FS_Singleton
        <5>2. QED
          BY <4>1, <5>1, FS_Subset, FS_CardinalityType
      <4>3. injections[i] = 0
        BY <2>2, <3>3 DEF IInv, NotBeforeAdded
      <4>4. starts \in Nat /\ starts > 0
        BY <1>1, <1>6 DEF IInv, StartedOnce, TypeOK
      <4>5. QED
        BY <4>2, <4>3, <4>4
    <3>4. QED
      BY <2>2, <3>2, <3>3
  <2>10. QED
    BY <2>5, <2>6, <2>7, <2>8, <2>9 DEF IInv
<1>7. QED
  BY <1>1, <1>5, <1>6 DEF TypeOK

(* Neither the list nor a runner changes: Stop, Tick and a stuttering step. *)
LEMMA NothingMoves ==
  ASSUME IInv, UNCHANGED <<spikes, executed, runners, starts, injections>>,
         now' \in 0..MaxTime, now' >= now, running' \in BOOLEAN, running' => running,
         cancelled' \in BOOLEAN, stops' \in Nat
  PROVE  IInv'
<1>1. TypeOK /\ now \in Nat /\ now' \in Nat
  BY SchedulerAssumption DEF IInv, TypeOK
<1>2. TypeOK'
  BY <1>1 DEF TypeOK
<1>3. Indices' = Indices /\ Runners' = Runners
  BY DEF Indices, Runners
<1>4. ASSUME NEW g \in Runners' PROVE RunnerFits(g)'
  <2>1. g \in Runners /\ RunnerFits(g)
    BY <1>3 DEF IInv
  <2>2. QED
    BY <1>1, <1>3, <2>1, FitsStill
<1>5. NotBeforeAdded' /\ StartedOnce'
  BY <1>3 DEF IInv, NotBeforeAdded, StartedOnce
<1>6. NeverEarly'
  <2> SUFFICES ASSUME NEW i \in Indices, injections[i] > 0
               PROVE  spikes[i].at <= now'
    BY <1>3 DEF NeverEarly
  <2>1. spikes[i].at <= now /\ spikes[i].at \in Nat
    BY <1>1, SpikesAre DEF IInv, NeverEarly
  <2>2. QED
    BY <1>1, <2>1
<1>7. OncePerStart'
  <2> SUFFICES ASSUME NEW i \in Indices
               PROVE  injections[i] + Cardinality(PendingFor(i)') <= starts
    BY <1>3 DEF OncePerStart, PendingFor
  <2>1. PendingFor(i)' = PendingFor(i)
    BY <1>3 DEF PendingFor, Pending
  <2>2. QED
    BY <1>1, <2>1, CountsAre DEF IInv
<1>8. QED
  BY <1>2, <1>4, <1>5, <1>6, <1>7 DEF IInv

(* One runner moves and the others stay. *)
LEMMA OthersStay ==
  ASSUME IInv, NEW g \in Runners, NEW r \in RunnerType, runners' = [runners EXCEPT ![g] = r],
         UNCHANGED <<now, spikes>>
  PROVE  /\ runners' \in Seq(RunnerType) /\ Indices' = Indices /\ Runners' = Runners
         /\ runners'[g] = r
         /\ \A h \in Runners \ {g} : RunnerFits(h)'
         /\ \A h \in Runners \ {g}, i \in Indices : Pending(h, i)' => Pending(h, i)
<1>1. TypeOK /\ now \in Nat
  BY SchedulerAssumption DEF IInv, TypeOK
<1>2. /\ runners' \in Seq(RunnerType) /\ Runners' = Runners /\ runners'[g] = r
      /\ \A h \in Runners \ {g} : runners'[h] = runners[h]
  BY <1>1, EntryChanges
<1>3. Indices' = Indices
  BY DEF Indices
<1>4. ASSUME NEW h \in Runners \ {g}
      PROVE  RunnerFits(h)'
  <2>1. RunnerFits(h)
    BY <1>4 DEF IInv
  <2>2. now' \in Nat /\ now' >= now /\ \A i \in Indices : spikes'[i] = spikes[i]
    BY <1>1
  <2>3. QED
    BY <1>1, <1>2, <1>3, <2>1, <2>2, FitsStill
<1>5. ASSUME NEW h \in Runners \ {g}, NEW i \in Indices
      PROVE  Pending(h, i)' => Pending(h, i)
  <2>1. runners'[h] = runners[h]
    BY <1>2
  <2>2. QED
    BY <2>1, PendingStill
<1>6. QED
  BY <1>2, <1>3, <1>4, <1>5

(* A runner goes from one place to another with the same list. *)
LEMMA GotoKeeps ==
  ASSUME IInv, NEW g \in Runners, NEW from \in RunnerPcs \ {"done"}, NEW to \in RunnerPcs,
         Goto(g, from, to),
         to \in {"inject", "waiting"} => runners[g].todo # <<>>,
         to = "inject" => Due(g),
         UNCHANGED <<now, spikes, executed, running, cancelled, starts, stops, injections>>
  PROVE  IInv'
<1>1. TypeOK /\ now \in Nat
  BY SchedulerAssumption DEF IInv, TypeOK
<1> DEFINE todo == runners[g].todo
<1>2. todo \in Seq(1..MaxSpikes)
  <2>1. runners[g] \in RunnerType
    BY <1>1, RunnersAre
  <2>2. QED
    BY <2>1 DEF RunnerType
<1>3. PICK r : r = [pc |-> to, todo |-> todo]
  OBVIOUS
<1>4. r \in RunnerType /\ r.pc = to /\ r.todo = todo
  BY <1>2, <1>3 DEF RunnerType
<1>5. runners' = [runners EXCEPT ![g] = r]
  BY <1>1, <1>3, GotoEntry
<1>6. /\ runners' \in Seq(RunnerType) /\ Indices' = Indices /\ Runners' = Runners
      /\ runners'[g] = r
      /\ \A h \in Runners \ {g} : RunnerFits(h)'
      /\ \A h \in Runners \ {g}, i \in Indices : Pending(h, i)' => Pending(h, i)
  BY <1>4, <1>5, OthersStay
<1>7. TypeOK'
  BY <1>1, <1>6 DEF TypeOK, RunnerType
<1>8. RunnerFits(g)'
  <2>1. /\ \A k \in DOMAIN todo : todo[k] \in Indices
        /\ \A j, k \in DOMAIN todo : todo[j] = todo[k] => j = k
    BY DEF IInv, RunnerFits
  <2>2. to = "inject" => spikes[Head(todo)].at <= now
    BY DEF Due
  <2>3. runners'[g].pc = to /\ runners'[g].todo = todo
    BY <1>4, <1>6
  <2>4. QED
    BY <1>6, <2>1, <2>2, <2>3 DEF RunnerFits, Due
<1>9. \A h \in Runners' : RunnerFits(h)'
  BY <1>6, <1>8
<1>10. NotBeforeAdded' /\ StartedOnce' /\ NeverEarly'
  BY <1>6 DEF IInv, NotBeforeAdded, StartedOnce, NeverEarly
<1>11. OncePerStart'
  <2> SUFFICES ASSUME NEW i \in Indices
               PROVE  injections[i] + Cardinality(PendingFor(i)') <= starts
    BY <1>6 DEF OncePerStart, PendingFor
  <2>1. Pending(g, i)' => Pending(g, i)
    BY <1>4, <1>6 DEF Pending, Goto
  <2>2. PendingFor(i)' \subseteq PendingFor(i)
    BY <1>6, <2>1 DEF PendingFor
  <2>3. /\ Cardinality(PendingFor(i)') \in Nat /\ Cardinality(PendingFor(i)) \in Nat
        /\ Cardinality(PendingFor(i)') <= Cardinality(PendingFor(i))
    BY <1>1, <2>2, FewerPending, PendingFinite
  <2>4. /\ injections[i] \in Nat /\ starts \in Nat
        /\ injections[i] + Cardinality(PendingFor(i)) <= starts
    BY <1>1, CountsAre DEF IInv
  <2>5. QED
    BY <2>3, <2>4
<1>12. QED
  BY <1>7, <1>9, <1>10, <1>11 DEF IInv

(* An injection takes the spike off the list it was on. *)
LEMMA InjectKeeps ==
  ASSUME IInv, NEW g \in Runners, NEW ok \in BOOLEAN, Inject(g, ok)
  PROVE  IInv'
<1>1. TypeOK /\ now \in Nat
  BY SchedulerAssumption DEF IInv, TypeOK
<1>2. PICK todo : todo = runners[g].todo
  OBVIOUS
<1>3. todo \in Seq(1..MaxSpikes) /\ todo # <<>> /\ runners[g].pc = "inject"
  <2>1. runners[g] \in RunnerType
    BY <1>1, RunnersAre
  <2>2. runners[g].pc = "inject" /\ RunnerFits(g)
    BY DEF Inject, IInv
  <2>3. QED
    BY <1>2, <2>1, <2>2 DEF RunnerType, RunnerFits
<1>4. /\ \A k \in DOMAIN todo : todo[k] \in Indices
      /\ \A j, k \in DOMAIN todo : todo[j] = todo[k] => j = k
      /\ spikes[Head(todo)].at <= now
  BY <1>2, <1>3 DEF IInv, RunnerFits, Due
<1>5. PICK i : i = Head(todo)
  OBVIOUS
<1>6. PICK rest : rest = Tail(todo)
  OBVIOUS
<1>7. /\ 1 \in DOMAIN todo /\ i = todo[1]
      /\ rest \in Seq(1..MaxSpikes) /\ DOMAIN rest = 1..(Len(todo) - 1)
      /\ Len(todo) \in Nat /\ DOMAIN todo = 1..Len(todo)
      /\ \A k \in DOMAIN rest : rest[k] = todo[k + 1]
  BY <1>3, <1>5, <1>6
<1>8. i \in Indices /\ i \in 1..MaxSpikes
  BY <1>1, <1>4, <1>7, SpikesAre
<1>9. \A k \in DOMAIN rest : rest[k] \in Indices /\ rest[k] # i
  <2> SUFFICES ASSUME NEW k \in DOMAIN rest PROVE rest[k] \in Indices /\ rest[k] # i
    OBVIOUS
  <2>1. k + 1 \in DOMAIN todo /\ k + 1 # 1
    BY <1>7
  <2>2. QED
    BY <1>4, <1>7, <2>1
<1>10. \A j, k \in DOMAIN rest : rest[j] = rest[k] => j = k
  <2> SUFFICES ASSUME NEW j \in DOMAIN rest, NEW k \in DOMAIN rest, rest[j] = rest[k] PROVE j = k
    OBVIOUS
  <2>1. j + 1 \in DOMAIN todo /\ k + 1 \in DOMAIN todo /\ j \in Nat /\ k \in Nat
    BY <1>7
  <2>2. QED
    BY <1>4, <1>7, <2>1
<1>11. PICK r : r = Runner(rest)
  OBVIOUS
<1>12. r \in RunnerType /\ r.pc = "next" /\ r.todo = rest
  BY <1>7, <1>11 DEF Runner, RunnerType, RunnerPcs
<1>13. runners' = [runners EXCEPT ![g] = r]
  BY <1>2, <1>6, <1>11 DEF Inject
<1>14. injections' = [injections EXCEPT ![i] = @ + 1]
  BY <1>2, <1>5 DEF Inject
<1>15. UNCHANGED <<now, spikes, running, cancelled, starts, stops>>
  BY DEF Inject
<1>16. /\ runners' \in Seq(RunnerType) /\ Indices' = Indices /\ Runners' = Runners
       /\ runners'[g] = r
       /\ \A h \in Runners \ {g} : RunnerFits(h)'
       /\ \A h \in Runners \ {g}, j \in Indices : Pending(h, j)' => Pending(h, j)
  BY <1>12, <1>13, <1>15, OthersStay
<1>17. /\ injections' \in [1..MaxSpikes -> Nat]
       /\ injections'[i] = injections[i] + 1
       /\ \A j \in 1..MaxSpikes : j # i => injections'[j] = injections[j]
  BY <1>1, <1>8, <1>14 DEF TypeOK
<1>18. TypeOK'
  <2>1. executed' \subseteq 1..MaxSpikes
    BY <1>1, <1>2, <1>5, <1>8 DEF Inject, TypeOK
  <2>2. runners' \in Seq([pc : RunnerPcs, todo : Seq(1..MaxSpikes)])
    BY <1>16 DEF RunnerType
  <2>3. QED
    BY <1>1, <1>15, <1>17, <2>1, <2>2 DEF TypeOK
<1>19. RunnerFits(g)'
  <2>1. runners'[g].pc = "next" /\ runners'[g].todo = rest
    BY <1>12, <1>16
  <2>2. QED
    BY <1>9, <1>10, <1>16, <2>1 DEF RunnerFits
<1>20. \A h \in Runners' : RunnerFits(h)'
  BY <1>16, <1>19
<1>21. NotBeforeAdded' /\ StartedOnce'
  BY <1>8, <1>15, <1>16, <1>17 DEF IInv, NotBeforeAdded, StartedOnce
<1>22. NeverEarly'
  <2> SUFFICES ASSUME NEW j \in Indices, injections'[j] > 0
               PROVE  spikes[j].at <= now
    BY <1>15, <1>16 DEF NeverEarly
  <2>1. j \in 1..MaxSpikes
    BY <1>1, SpikesAre
  <2>2. CASE j = i
    BY <1>4, <1>5, <2>2
  <2>3. CASE j # i
    BY <1>17, <2>1, <2>3 DEF IInv, NeverEarly
  <2>4. QED
    BY <2>2, <2>3
<1>23. OncePerStart'
  <2> SUFFICES ASSUME NEW j \in Indices
               PROVE  injections'[j] + Cardinality(PendingFor(j)') <= starts
    BY <1>15, <1>16 DEF OncePerStart, PendingFor
  <2>1. j \in 1..MaxSpikes
    BY <1>1, SpikesAre
  <2>2. /\ injections[j] \in Nat /\ starts \in Nat
        /\ injections[j] + Cardinality(PendingFor(j)) <= starts
    BY <1>1, CountsAre DEF IInv
  <2>3. IsFiniteSet(PendingFor(j)) /\ Cardinality(PendingFor(j)) \in Nat
    BY <1>1, PendingFinite
  <2>4. runners'[g].todo = rest
    BY <1>12, <1>16
  <2>5. CASE j # i
    <3>1. Pending(g, j)' => Pending(g, j)
      <4> SUFFICES ASSUME NEW k \in DOMAIN rest, rest[k] = j PROVE Pending(g, j)
        BY <2>4 DEF Pending
      <4>1. k + 1 \in DOMAIN todo /\ todo[k + 1] = j
        BY <1>7
      <4>2. QED
        BY <1>2, <1>3, <4>1 DEF Pending
    <3>2. PendingFor(j)' \subseteq PendingFor(j)
      BY <1>16, <3>1 DEF PendingFor
    <3>3. Cardinality(PendingFor(j)') \in Nat /\ Cardinality(PendingFor(j)') <= Cardinality(PendingFor(j))
      BY <1>1, <3>2, FewerPending
    <3>4. QED
      BY <1>17, <2>1, <2>2, <2>3, <2>5, <3>3
  <2>6. CASE j = i
    <3>1. Pending(g, j)
      BY <1>2, <1>3, <1>7, <2>6 DEF Pending
    <3>2. ~ Pending(g, j)'
      BY <1>9, <2>4, <2>6 DEF Pending
    <3>3. g \in PendingFor(j) /\ PendingFor(j)' \subseteq PendingFor(j) \ {g}
      BY <1>16, <3>1, <3>2 DEF PendingFor
    <3>4. /\ IsFiniteSet(PendingFor(j) \ {g})
          /\ Cardinality(PendingFor(j) \ {g}) = Cardinality(PendingFor(j)) - 1
      BY <2>3, <3>3, FS_RemoveElement
    <3>5. /\ Cardinality(PendingFor(j)') \in Nat
          /\ Cardinality(PendingFor(j)') <= Cardinality(PendingFor(j) \ {g})
      BY <3>3, <3>4, FS_Subset, FS_CardinalityType
    <3>6. QED
      BY <1>17, <2>2, <2>3, <2>6, <3>4, <3>5
  <2>7. QED
    BY <2>5, <2>6
<1>24. QED
  BY <1>18, <1>20, <1>21, <1>22, <1>23 DEF IInv

LEMMA RunnerKeeps ==
  ASSUME IInv, NEW g \in Runners, RunnerNext(g)
  PROVE  IInv'
<1>1. ASSUME ComputeWait(g) PROVE IInv'
  <2>1. UNCHANGED <<now, spikes, executed, running, cancelled, starts, stops, injections>>
    BY <1>1 DEF ComputeWait
  <2>2. CASE runners[g].todo = <<>> /\ Goto(g, "next", "done")
    BY <2>1, <2>2, GotoKeeps DEF RunnerPcs
  <2>3. CASE runners[g].todo # <<>> /\ Due(g) /\ Goto(g, "next", "inject")
    BY <2>1, <2>3, GotoKeeps DEF RunnerPcs
  <2>4. CASE runners[g].todo # <<>> /\ ~Due(g) /\ Goto(g, "next", "waiting")
    BY <2>1, <2>4, GotoKeeps DEF RunnerPcs
  <2>5. QED
    BY <1>1, <2>2, <2>3, <2>4 DEF ComputeWait
<1>2. ASSUME WaitIsOver(g) PROVE IInv'
  <2>1. runners[g].todo # <<>>
    BY <1>2 DEF IInv, RunnerFits, WaitIsOver
  <2>2. QED
    BY <1>2, <2>1, GotoKeeps DEF WaitIsOver, RunnerPcs
<1>3. ASSUME WaitCancelled(g) PROVE IInv'
  BY <1>3, GotoKeeps DEF WaitCancelled, RunnerPcs
<1>4. QED
  BY <1>1, <1>2, <1>3, InjectKeeps DEF RunnerNext

LEMMA NextHolds == IInv /\ [Next]_vars => IInv'
<1> SUFFICES ASSUME IInv, [Next]_vars PROVE IInv'
  OBVIOUS
<1>1. now \in 0..MaxTime /\ now \in Nat /\ running \in BOOLEAN /\ cancelled \in BOOLEAN /\ stops \in Nat
  BY SchedulerAssumption DEF IInv, TypeOK
<1>2. ASSUME Stop PROVE IInv'
  <2>1. /\ now' \in 0..MaxTime /\ now' >= now /\ running' = FALSE /\ cancelled' = TRUE
        /\ stops' \in Nat
    BY <1>1, <1>2 DEF Stop
  <2>2. UNCHANGED <<spikes, executed, runners, starts, injections>>
    BY <1>2 DEF Stop
  <2>3. QED
    BY <2>1, <2>2, NothingMoves
<1>3. ASSUME Tick PROVE IInv'
  <2>1. now' \in 0..MaxTime /\ now' >= now
    BY <1>1, <1>3, SchedulerAssumption DEF Tick
  <2>2. QED
    BY <1>1, <1>3, <2>1, NothingMoves DEF Tick
<1>4. ASSUME UNCHANGED vars PROVE IInv'
  BY <1>1, <1>4, NothingMoves DEF vars
<1>5. QED
  BY <1>2, <1>3, <1>4, ScheduleSpikesKeeps, StartKeeps, AddSpikeKeeps, RunnerKeeps DEF Next

LEMMA Invariant == Spec => []IInv
BY InitHolds, NextHolds, PTL DEF Spec

-----------------------------------------------------------------------------
(* The scheduler's state has its types, however the calls and the runners      *)
(* interleave (spike_scheduler.go:17-46).                                      *)
THEOREM Typing == Spec => []TypeOK
<1>1. IInv => TypeOK
  BY DEF IInv
<1>2. QED
  BY Invariant, <1>1, PTL

(* No runner injects a spike before its time (spike_scheduler.go:237-244).     *)
THEOREM SpikesNeverEarly == Spec => []NeverEarly
<1>1. IInv => NeverEarly
  BY DEF IInv
<1>2. QED
  BY Invariant, <1>1, PTL

(* What has been injected of a spike and what is still to be injected of it    *)
(* together never exceed the number of starts, however often the scheduler is  *)
(* stopped, restarted and added to (spike_scheduler.go:220-232, 289).          *)
THEOREM SpikesOncePerStart == Spec => []OncePerStart
<1>1. IInv => OncePerStart
  BY DEF IInv
<1>2. QED
  BY Invariant, <1>1, PTL
=============================================================================
