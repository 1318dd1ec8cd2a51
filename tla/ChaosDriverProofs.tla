---------------------------- MODULE ChaosDriverProofs ----------------------------
(***************************************************************************)
(* Proofs about ChaosDriver, for any number of pods, participants, spikes    *)
(* and troubles: its types, that every participant has one pod, and that a   *)
(* pod without trouble follows the driver whatever the others do.            *)
(***************************************************************************)
EXTENDS ChaosDriver, FiniteSetTheorems, TLAPS

Spikes == [is : {"spike"}, number : 1..Count, targets : SUBSET Participants]

(* Before the first spike nobody is to be hit, and only a pod in trouble is still   *)
(* to be reached by a spike that was given up or is down.                      *)
Quiet ==
  /\ pc \in {"health", "initialize"} => cached = {}
  /\ pc \in {"health", "initialize", "create", "start"} =>
       sent = <<>> /\ stray = {} /\ \A id \in Participants : Taken(id) = {}
  /\ pc = "spike" => spikeCount > 0
  /\ \A s \in stray : s \in Pods \X Spikes /\ s[1] \in troubled
  /\ \A p \in Pods : p \in troubled \/ p \in up

(* No success means trouble with every pod asked so far.                       *)
Counted ==
  /\ successes + Cardinality(todo) <= Cardinality(cached)
  /\ successes = 0 => cached \ todo \subseteq troubled

(* The state of a test on a pod the driver has asked, and on one it has not.   *)
Unasked == [start |-> "created", stop |-> "running"]

SessionFollows(p) ==
  /\ pc \in Phases /\ p \notin todo => session[p] = Reached[pc]
  /\ pc \in {"start", "stop"} /\ p \in todo => session[p] = Unasked[pc]
  /\ pc \in {"loop", "spike"} => session[p] = "running"
  /\ pc = "done" => session[p] = "stopped"

AimedBefore(id) == {k \in 1..(spikeCount - 1) : AimedAt(sent[k], id)}

HitFollows(p) ==
  \A id \in Participants : isMyParticipant(id, p) =>
    /\ pc \in {"loop", "stop", "done"} => Taken(id) = Aimed(id)
    /\ pc = "spike" /\ p \notin todo => Taken(id) = Aimed(id)
    /\ pc = "spike" /\ p \in todo => Taken(id) = AimedBefore(id)
    /\ hit[id] \intersect injecting[id] = {}

Follows == \A p \in cached \ troubled : SessionFollows(p) /\ HitFollows(p)

IInv == TypeOK /\ Quiet /\ Counted /\ Follows

-----------------------------------------------------------------------------
LEMMA PodsFinite == IsFiniteSet(Pods) /\ Cardinality(Pods) = Total
<1>1. Total - 1 \in Int /\ 0 <= Total
  BY ServerAssumption
<1>2. IsFiniteSet(0..(Total - 1)) /\
      Cardinality(0..(Total - 1)) = (IF 0 > Total - 1 THEN 0 ELSE (Total - 1) - 0 + 1)
  BY <1>1, FS_Interval
<1>3. QED
  BY <1>2, ServerAssumption DEF Pods

(* Every participant is created on one pod, whatever the number of pods        *)
(* (http.go:69-74).                                                            *)
THEOREM OnePodEach ==
  \A id \in Participants : \E p \in Pods :
    /\ isMyParticipant(id, p)
    /\ \A q \in Pods : isMyParticipant(id, q) => q = p
<1> SUFFICES ASSUME NEW id \in Participants
             PROVE  \E p \in Pods : /\ isMyParticipant(id, p)
                                    /\ \A q \in Pods : isMyParticipant(id, q) => q = p
  OBVIOUS
<1>1. id \in Nat
  BY ServerAssumption DEF Participants
<1>2. CASE Total <= 1
  <2>1. Total = 1
    BY <1>2, ServerAssumption
  <2>2. Pods = {0}
    BY <2>1 DEF Pods
  <2>3. QED
    BY <1>2, <2>2 DEF isMyParticipant
<1>3. CASE Total > 1
  <2>1. id % Total \in 0..(Total - 1)
    BY <1>1, ServerAssumption
  <2>2. QED
    BY <1>3, <2>1, ServerAssumption DEF isMyParticipant, Pods
<1>4. QED
  BY <1>2, <1>3, ServerAssumption

-----------------------------------------------------------------------------
LEMMA InitIInv == Init => IInv
<1> SUFFICES ASSUME Init PROVE IInv
  OBVIOUS
<1> USE ServerAssumption, DriverAssumption DEF Init, ServerInit
<1>1. over \in BOOLEAN
  BY Zenon
<1>2. TypeOK
  BY <1>1 DEF TypeOK, States, Steps, Phases, spikeCount
<1>3. Quiet
  BY DEF Quiet, spikeCount, Taken
<1>4. Cardinality({}) = 0
  BY FS_EmptySet
<1>5. Counted
  BY <1>4 DEF Counted
<1>6. Follows
  BY DEF Follows
<1>7. QED
  BY <1>2, <1>3, <1>5, <1>6 DEF IInv

-----------------------------------------------------------------------------
(* What a request does to a pod.                                               *)
LEMMA Handled ==
  ASSUME TypeOK, NEW p \in Pods, NEW request, Handle(request, p),
         request.is \in Phases \/ request \in Spikes
  PROVE  /\ up' = up
         /\ session' \in [Pods -> States]
         /\ hit' = hit
         /\ injecting' \in [Participants -> SUBSET (1..Count)]
         /\ session'[p] = SessionAfter(request, p)
         /\ \A q \in Pods : q # p => session'[q] = session[q]
         /\ \A id \in Participants :
              injecting'[id] = IF Hits(request, p, id) THEN injecting[id] \union {request.number}
                                                       ELSE injecting[id]
<1>1. SessionAfter(request, p) \in States
  BY DEF SessionAfter, Reached, TypeOK, States, Phases, Spikes
<1>2. session' \in [Pods -> States] /\ session'[p] = SessionAfter(request, p)
  BY <1>1 DEF Handle, TypeOK
<1>3. \A q \in Pods : q # p => session'[q] = session[q]
  BY DEF Handle, TypeOK
<1>4. ASSUME NEW id \in Participants, Hits(request, p, id) PROVE request.number \in 1..Count
  BY <1>4 DEF Hits, Phases, Spikes
<1>5. injecting' \in [Participants -> SUBSET (1..Count)]
  BY <1>4 DEF Handle, TypeOK
<1>6. QED
  BY <1>2, <1>3, <1>5 DEF Handle

LEMMA HandledOthers ==
  ASSUME TypeOK, NEW p \in Pods, NEW request, Handle(request, p),
         request.is \in Phases \/ request \in Spikes,
         NEW q \in Pods, q # p, NEW id \in Participants, isMyParticipant(id, q)
  PROVE  injecting'[id] = injecting[id]
<1>1. ~isMyParticipant(id, p)
  BY OnePodEach
<1>2. QED
  BY <1>1, Handled DEF Hits

(* A call to pod p ends one way or another: with a request handled or not, and *)
(* with trouble or not.                                                        *)
Outcome(p, request) ==
  /\ up' = up
  /\ \/ UNCHANGED <<troubled, troubles>>
     \/ InTrouble(p)
  /\ hit' = hit
  /\ Handle(request, p) \/ UNCHANGED <<session, injecting>>

LEMMA ExecOutcome ==
  ASSUME NEW p \in Pods, NEW request, Exec(p, request)
  PROVE  /\ Outcome(p, request)
         /\ successes' \in {successes, successes + 1}
         /\ \/ p \in troubled'
            \/ p \notin up
            \/ Handle(request, p) /\ successes' = successes + 1
BY DEF Exec, Answered, Failed, Refuse, Untouched, Fine, Handle, Outcome, InTrouble

LEMMA PostOutcome ==
  ASSUME NEW request, NEW succeeded, Post(request, succeeded)
  PROVE  Outcome(Base, request)
BY DEF Post, Refuse, Untouched, Fine, Handle, Outcome, InTrouble

LEMMA OutcomeTypes ==
  ASSUME TypeOK, NEW p \in Pods, NEW request, Outcome(p, request),
         request.is \in Phases \/ request \in Spikes
  PROVE  /\ up' \subseteq Pods /\ troubled' \subseteq Pods /\ troubles' \in 0..MaxTroubles
         /\ session' \in [Pods -> States]
         /\ hit' = hit /\ injecting' \in [Participants -> SUBSET (1..Count)]
<1>1. troubled' \subseteq Pods /\ troubles' \in 0..MaxTroubles
  BY ServerAssumption DEF Outcome, InTrouble, TypeOK
<1>2. session' \in [Pods -> States] /\ injecting' \in [Participants -> SUBSET (1..Count)]
  BY Handled DEF Outcome, TypeOK
<1>3. QED
  BY <1>1, <1>2 DEF Outcome, TypeOK

LEMMA OutcomeElsewhere ==
  ASSUME TypeOK, NEW p \in Pods, NEW request, Outcome(p, request),
         request.is \in Phases \/ request \in Spikes,
         NEW q \in Pods, q # p
  PROVE  /\ session'[q] = session[q]
         /\ hit' = hit
         /\ \A id \in Participants : isMyParticipant(id, q) => injecting'[id] = injecting[id]
BY Handled, HandledOthers DEF Outcome

LEMMA TodoCounts ==
  ASSUME TypeOK, NEW p
  PROVE  /\ IsFiniteSet(todo) /\ Cardinality(cached) \in 0..Total
         /\ Cardinality(todo) \in Nat /\ Cardinality(todo \ {p}) \in Nat
<1>1. IsFiniteSet(cached) /\ Cardinality(cached) \in 0..Total
  <2>1. IsFiniteSet({}) /\ Cardinality({}) = 0 /\ Total \in Nat
    BY FS_EmptySet, ServerAssumption
  <2>2. cached = {} \/ cached = Pods
    BY DEF TypeOK
  <2>3. QED
    BY <2>1, <2>2, PodsFinite
<1>2. todo \in SUBSET cached /\ todo \ {p} \in SUBSET cached
  BY DEF TypeOK
<1>3. IsFiniteSet(todo) /\ IsFiniteSet(todo \ {p})
  BY <1>1, <1>2, FS_Subset
<1>4. QED
  BY <1>1, <1>3, FS_CardinalityType

LEMMA RoomLeft ==
  ASSUME TypeOK, Counted, NEW p \in todo
  PROVE  /\ successes + 1 + Cardinality(todo \ {p}) <= Cardinality(cached)
         /\ {successes, successes + 1} \subseteq 0..Total
<1>1. Cardinality(todo \ {p}) = Cardinality(todo) - 1
  BY TodoCounts, FS_RemoveElement
<1>2. /\ Cardinality(cached) \in 0..Total
      /\ Cardinality(todo) \in Nat /\ Cardinality(todo \ {p}) \in Nat
  BY TodoCounts
<1>3. successes \in Nat /\ successes + Cardinality(todo) <= Cardinality(cached)
  BY DEF TypeOK, Counted
<1>4. successes + 1 + Cardinality(todo \ {p}) <= Cardinality(cached)
  BY <1>1, <1>2, <1>3
<1>5. QED
  BY <1>2, <1>3, <1>4, ServerAssumption

LEMMA CommandHitsNobody ==
  ASSUME TypeOK, NEW p \in Pods, NEW request, Outcome(p, request), request.is \in Phases
  PROVE  hit' = hit /\ \A id \in Participants : injecting'[id] = injecting[id]
<1>1. CASE UNCHANGED <<hit, injecting>>
  BY <1>1
<1>2. CASE Handle(request, p)
  <2>1. \A id \in Participants : ~Hits(request, p, id)
    BY DEF Hits, Phases
  <2>2. QED
    BY <1>2, <2>1, Handled
<1>3. QED
  BY <1>1, <1>2 DEF Outcome

(* A spike that comes to a participant was on its way to it.                   *)
LEMMA InjectMoves ==
  ASSUME TypeOK, NEW id \in Participants, InjectSpike(id)
  PROVE  \A d \in Participants : /\ Taken(d)' = Taken(d)
                                 /\ hit[d] \intersect injecting[d] = {} =>
                                      hit'[d] \intersect injecting'[d] = {}
<1>1. PICK k \in injecting[id] : /\ injecting' = [injecting EXCEPT ![id] = @ \ {k}]
                                 /\ hit' = [hit EXCEPT ![id] = @ \union {k}]
  BY DEF InjectSpike
<1>2. /\ injecting \in [Participants -> SUBSET (1..Count)]
      /\ hit \in [Participants -> SUBSET (1..Count)]
  BY DEF TypeOK
<1>3. /\ injecting'[id] = injecting[id] \ {k} /\ hit'[id] = hit[id] \union {k}
      /\ \A d \in Participants : d # id => injecting'[d] = injecting[d] /\ hit'[d] = hit[d]
  BY <1>1, <1>2
<1>4. QED
  BY <1>3 DEF Taken

LEMMA CommandIs == Command.is = pc
BY DEF Command

LEMMA SpikeIs ==
  ASSUME TypeOK, spikeCount > 0
  PROVE  /\ Spike \in Spikes /\ Spike.is = "spike"
         /\ Spike.number = spikeCount /\ Spike.targets = sent[spikeCount]
BY DEF Spike, Spikes, TypeOK, spikeCount

-----------------------------------------------------------------------------
LEMMA NextTypeOK == IInv /\ [Next]_vars => TypeOK'
<1> SUFFICES ASSUME IInv, [Next]_vars PROVE TypeOK'
  OBVIOUS
<1> USE ServerAssumption, DriverAssumption
<1>0. TypeOK /\ Quiet /\ Counted
  BY DEF IInv
<1>1. CASE UNCHANGED vars
  BY <1>0, <1>1 DEF TypeOK, vars, serverVars, driverVars, spikeCount
<1>2. CASE HealthCheck
  BY <1>0, <1>2 DEF HealthCheck, Leave, TypeOK, Steps, Phases, serverVars, spikeCount
<1>3. CASE Initialize
  BY <1>0, <1>3 DEF Initialize, TypeOK, Steps, Phases, serverVars, spikeCount
<1>4. CASE SomePodSucceeded
  BY <1>0, <1>4 DEF SomePodSucceeded, Proceed, Enter, Leave, After, TypeOK, Steps, Phases, serverVars, spikeCount
<1>5. CASE PostToBase
  <2>1. Base \in Pods /\ Command.is \in Phases
    BY <1>5, CommandIs DEF PostToBase
  <2>2. Outcome(Base, Command)
    BY <1>5, PostOutcome DEF PostToBase
  <2>3. /\ up' \subseteq Pods /\ troubled' \subseteq Pods /\ troubles' \in 0..MaxTroubles
        /\ session' \in [Pods -> States]
        /\ hit' = hit /\ injecting' \in [Participants -> SUBSET (1..Count)]
    BY <1>0, <2>1, <2>2, OutcomeTypes
  <2>4. pc' \in Steps /\ todo' \subseteq cached /\ successes' \in 0..Total
    BY <1>0, <1>5 DEF PostToBase, Proceed, Enter, Leave, After, TypeOK, Steps, Phases
  <2>5. QED
    BY <1>0, <1>5, <2>3, <2>4 DEF PostToBase, TypeOK, spikeCount
<1>6. ASSUME NEW p \in Pods, ExecOnPod(p) PROVE TypeOK'
  <2>1. Command.is \in Phases /\ Exec(p, Command)
    BY <1>6, CommandIs DEF ExecOnPod
  <2>2. Outcome(p, Command) /\ successes' \in {successes, successes + 1}
    BY <2>1, ExecOutcome
  <2>3. /\ up' \subseteq Pods /\ troubled' \subseteq Pods /\ troubles' \in 0..MaxTroubles
        /\ session' \in [Pods -> States]
        /\ hit' = hit /\ injecting' \in [Participants -> SUBSET (1..Count)]
    BY <1>0, <2>1, <2>2, OutcomeTypes
  <2>4. successes' \in 0..Total
    BY <1>0, <1>6, <2>2, RoomLeft DEF ExecOnPod, Waits
  <2>5. QED
    BY <1>0, <1>6, <2>3, <2>4 DEF ExecOnPod, Waits, TypeOK, spikeCount
<1>7. ASSUME NEW p \in Pods, SpikeAnswered(p) PROVE TypeOK'
  <2>1. Spike \in Spikes /\ Exec(p, Spike)
    BY <1>0, <1>7, SpikeIs DEF SpikeAnswered, Quiet
  <2>2. Outcome(p, Spike) /\ successes' \in {successes, successes + 1}
    BY <2>1, ExecOutcome
  <2>3. /\ up' \subseteq Pods /\ troubled' \subseteq Pods /\ troubles' \in 0..MaxTroubles
        /\ session' \in [Pods -> States]
        /\ hit' = hit /\ injecting' \in [Participants -> SUBSET (1..Count)]
    BY <1>0, <2>1, <2>2, OutcomeTypes
  <2>4. successes' \in 0..Total
    BY <1>0, <1>7, <2>2, RoomLeft DEF SpikeAnswered, Waits
  <2>5. QED
    BY <1>0, <1>7, <2>3, <2>4 DEF SpikeAnswered, Waits, TypeOK, spikeCount
<1>8. ASSUME NEW p \in Pods, SpikeTimesOut(p) PROVE TypeOK'
  BY <1>0, <1>8 DEF SpikeTimesOut, Waits, InTrouble, Untouched, TypeOK, spikeCount
<1>9. CASE SpikeTick
  <2>1. PICK targets \in SUBSET Participants : sent' = Append(sent, targets)
    BY <1>9 DEF SpikeTick, SelectParticipants
  <2>2. sent' \in Seq(SUBSET Participants) /\ Len(sent') = Len(sent) + 1
    BY <1>0, <2>1 DEF TypeOK
  <2>3. spikeCount' \in 0..Count
    BY <1>0, <1>9, <2>2 DEF SpikeTick, TypeOK, spikeCount
  <2>4. pc' \in Steps /\ todo' \subseteq cached /\ successes' \in 0..Total
    BY <1>0, <1>9 DEF SpikeTick, Enter, Leave, TypeOK, Steps, Phases
  <2>5. QED
    BY <1>0, <1>9, <2>2, <2>3, <2>4 DEF SpikeTick, TypeOK, serverVars
<1>10. CASE BroadcastEnds
  BY <1>0, <1>10 DEF BroadcastEnds, Leave, TypeOK, Steps, Phases, serverVars, spikeCount
<1>11. CASE TimeIsOver
  BY <1>0, <1>11 DEF TimeIsOver, TypeOK, serverVars, spikeCount
<1>12. CASE StopTest
  BY <1>0, <1>12 DEF StopTest, Enter, TypeOK, Steps, Phases, serverVars, spikeCount
<1>13. ASSUME NEW p \in Pods, Crash(p), UNCHANGED driverVars PROVE TypeOK'
  BY <1>0, <1>13 DEF Crash, InTrouble, TypeOK, States, driverVars, spikeCount
<1>14. ASSUME NEW p \in Pods, Restart(p), UNCHANGED driverVars PROVE TypeOK'
  BY <1>0, <1>14 DEF Restart, TypeOK, driverVars, spikeCount
<1>15. ASSUME NEW p \in Pods, StrayArrives(p) PROVE TypeOK'
  <2>1. PICK s \in stray : s[1] = p /\ Handle(s[2], p)
    BY <1>15 DEF StrayArrives
  <2>2. s[2] \in Spikes
    BY <1>0 DEF Quiet
  <2>3. /\ up' = up /\ session' \in [Pods -> States]
        /\ hit' = hit /\ injecting' \in [Participants -> SUBSET (1..Count)]
    BY <1>0, <2>1, <2>2, Handled
  <2>4. QED
    BY <1>0, <1>15, <2>3 DEF StrayArrives, Fine, TypeOK, spikeCount
<1>16. ASSUME NEW id \in Participants, InjectSpike(id), UNCHANGED driverVars PROVE TypeOK'
  <2>1. PICK k \in injecting[id] : /\ injecting' = [injecting EXCEPT ![id] = @ \ {k}]
                                   /\ hit' = [hit EXCEPT ![id] = @ \union {k}]
    BY <1>16 DEF InjectSpike
  <2>2. /\ injecting' \in [Participants -> SUBSET (1..Count)]
        /\ hit' \in [Participants -> SUBSET (1..Count)]
    BY <1>0, <2>1 DEF TypeOK
  <2>3. QED
    BY <1>0, <1>16, <2>2 DEF InjectSpike, TypeOK, driverVars, spikeCount
<1>17. QED
  BY <1>1, <1>2, <1>3, <1>4, <1>5, <1>6, <1>7, <1>8, <1>9, <1>10, <1>11, <1>12, <1>13, <1>14, <1>15, <1>16
     DEF Next, Driver, Cluster

-----------------------------------------------------------------------------
LEMMA NextQuiet == IInv /\ [Next]_vars => Quiet'
<1> SUFFICES ASSUME IInv, [Next]_vars PROVE Quiet'
  OBVIOUS
<1>0. TypeOK /\ Quiet /\ Counted
  BY DEF IInv
<1> USE DEF Taken
<1>1. CASE UNCHANGED vars
  BY <1>0, <1>1 DEF Quiet, vars, serverVars, driverVars, spikeCount
<1>2. CASE HealthCheck
  BY <1>0, <1>2 DEF HealthCheck, Leave, Quiet, serverVars, spikeCount
<1>3. CASE Initialize
  BY <1>0, <1>3 DEF Initialize, Quiet, serverVars, spikeCount
<1>4. CASE SomePodSucceeded
  BY <1>0, <1>4 DEF SomePodSucceeded, Proceed, Enter, Leave, After, Quiet, Phases, serverVars, spikeCount
<1>5. CASE PostToBase
  <2>1. Base \in Pods /\ Command.is \in Phases /\ Command.is # "spike"
    BY <1>5, CommandIs, DriverAssumption DEF PostToBase, Phases
  <2>2. Outcome(Base, Command)
    BY <1>5, PostOutcome DEF PostToBase
  <2>3. \A id \in Participants : Taken(id)' = Taken(id)
    BY <1>0, <2>1, <2>2, CommandHitsNobody DEF Taken
  <2>4. up' = up /\ troubled \subseteq troubled'
    BY <2>2 DEF Outcome, InTrouble
  <2>5. pc' \in {"start", "loop", "done", "exit"} /\ (pc' = "start" => pc = "create")
    BY <1>5 DEF PostToBase, Proceed, Enter, Leave, After, Phases
  <2>6. QED
    BY <1>0, <1>5, <2>3, <2>4, <2>5 DEF PostToBase, Quiet, spikeCount
<1>6. ASSUME NEW p \in Pods, ExecOnPod(p) PROVE Quiet'
  <2>1. Command.is \in Phases /\ Command.is # "spike" /\ Exec(p, Command)
    BY <1>6, CommandIs DEF ExecOnPod, Phases
  <2>2. Outcome(p, Command)
    BY <2>1, ExecOutcome
  <2>3. \A id \in Participants : Taken(id)' = Taken(id)
    BY <1>0, <2>1, <2>2, CommandHitsNobody DEF Taken
  <2>4. up' = up /\ troubled \subseteq troubled'
    BY <2>2 DEF Outcome, InTrouble
  <2>5. QED
    BY <1>0, <1>6, <2>3, <2>4 DEF ExecOnPod, Quiet, spikeCount
<1>7. ASSUME NEW p \in Pods, SpikeAnswered(p) PROVE Quiet'
  <2>1. Outcome(p, Spike)
    BY <1>7, ExecOutcome DEF SpikeAnswered
  <2>2. up' = up /\ troubled \subseteq troubled'
    BY <2>1 DEF Outcome, InTrouble
  <2>3. QED
    BY <1>0, <1>7, <2>2 DEF SpikeAnswered, Quiet, spikeCount
<1>8. ASSUME NEW p \in Pods, SpikeTimesOut(p) PROVE Quiet'
  <2>1. Spike \in Spikes
    BY <1>0, <1>8, SpikeIs DEF SpikeTimesOut, Quiet
  <2>2. troubled' = troubled \union {p} /\ stray' = stray \union {<<p, Spike>>}
    BY <1>8 DEF SpikeTimesOut, InTrouble
  <2>3. \A s \in stray' : s \in Pods \X Spikes /\ s[1] \in troubled'
    BY <1>0, <2>1, <2>2 DEF Quiet
  <2>4. QED
    BY <1>0, <1>8, <2>2, <2>3 DEF SpikeTimesOut, Untouched, Quiet, spikeCount
<1>9. CASE SpikeTick
  <2>1. PICK targets \in SUBSET Participants : sent' = Append(sent, targets)
    BY <1>9 DEF SpikeTick, SelectParticipants
  <2>2. spikeCount' > 0
    BY <1>0, <2>1 DEF TypeOK, spikeCount
  <2>3. pc' \in {"loop", "spike"}
    BY <1>9 DEF SpikeTick, Enter, Leave
  <2>4. QED
    BY <1>0, <1>9, <2>2, <2>3 DEF SpikeTick, Quiet, serverVars
<1>10. CASE BroadcastEnds
  BY <1>0, <1>10 DEF BroadcastEnds, Leave, Quiet, serverVars, spikeCount
<1>11. CASE TimeIsOver
  BY <1>0, <1>11 DEF TimeIsOver, Quiet, serverVars, spikeCount
<1>12. CASE StopTest
  BY <1>0, <1>12 DEF StopTest, Enter, Quiet, serverVars, spikeCount
<1>13. ASSUME NEW p \in Pods, Crash(p), UNCHANGED driverVars PROVE Quiet'
  BY <1>0, <1>13 DEF Crash, InTrouble, Quiet, driverVars, spikeCount
<1>14. ASSUME NEW p \in Pods, Restart(p), UNCHANGED driverVars PROVE Quiet'
  BY <1>0, <1>14 DEF Restart, Quiet, driverVars, spikeCount
<1>15. ASSUME NEW p \in Pods, StrayArrives(p) PROVE Quiet'
  <2>1. PICK s \in stray : s[1] = p /\ Handle(s[2], p) /\ stray' = stray \ {s}
    BY <1>15 DEF StrayArrives
  <2>2. s[2] \in Spikes
    BY <1>0 DEF Quiet
  <2>3. pc \notin {"health", "initialize", "create", "start"}
    BY <1>0, <2>1 DEF Quiet
  <2>4. up' = up
    BY <2>1 DEF Handle
  <2>5. QED
    BY <1>0, <1>15, <2>1, <2>3, <2>4 DEF StrayArrives, Fine, Quiet, spikeCount
<1>16. ASSUME NEW id \in Participants, InjectSpike(id), UNCHANGED driverVars PROVE Quiet'
  <2>1. \A d \in Participants : Taken(d)' = Taken(d)
    BY <1>0, <1>16, InjectMoves
  <2>2. QED
    BY <1>0, <1>16, <2>1 DEF InjectSpike, Quiet, driverVars, spikeCount
<1>17. QED
  BY <1>1, <1>2, <1>3, <1>4, <1>5, <1>6, <1>7, <1>8, <1>9, <1>10, <1>11, <1>12, <1>13, <1>14, <1>15, <1>16
     DEF Next, Driver, Cluster

-----------------------------------------------------------------------------
(* A pod asked, with success or not.                                           *)
LEMMA AskedCounts ==
  ASSUME IInv, NEW p \in Pods, NEW request, Exec(p, request), Waits(p), cached' = cached
  PROVE  Counted'
<1>0. TypeOK /\ Quiet /\ Counted
  BY DEF IInv
<1>1. p \in todo /\ todo' = todo \ {p}
  BY DEF Waits
<1>2. /\ Outcome(p, request)
      /\ successes' \in {successes, successes + 1}
      /\ \/ p \in troubled'
         \/ p \notin up
         \/ Handle(request, p) /\ successes' = successes + 1
  BY ExecOutcome
<1>3. troubled \subseteq troubled'
  BY <1>2 DEF Outcome, InTrouble
<1>4. successes + 1 + Cardinality(todo \ {p}) <= Cardinality(cached)
  BY <1>0, <1>1, RoomLeft
<1>5. Cardinality(todo \ {p}) \in Nat /\ Cardinality(cached) \in 0..Total
  BY <1>0, TodoCounts
<1>6. successes \in Nat
  BY <1>0, ServerAssumption DEF TypeOK
<1>7. successes' + Cardinality(todo') <= Cardinality(cached')
  BY <1>1, <1>2, <1>4, <1>5, <1>6, ServerAssumption
<1>8. ASSUME successes' = 0 PROVE cached' \ todo' \subseteq troubled'
  <2>1. successes = 0 /\ successes' # successes + 1
    BY <1>2, <1>6, <1>8
  <2>2. p \in troubled'
    BY <1>0, <1>2, <1>3, <2>1 DEF Quiet
  <2>3. QED
    BY <1>0, <1>1, <1>3, <2>1, <2>2 DEF Counted
<1>9. QED
  BY <1>7, <1>8 DEF Counted

(* At the beginning of a round.                                                *)
LEMMA NobodyAsked ==
  ASSUME TypeOK', todo' = cached', successes' = 0
  PROVE  Counted'
<1>1. IsFiniteSet(cached')
  BY PodsFinite, FS_EmptySet DEF TypeOK
<1>2. Cardinality(cached') \in Nat
  BY <1>1, FS_CardinalityType
<1>3. QED
  BY <1>2 DEF Counted

LEMMA NextCounted == IInv /\ [Next]_vars => Counted'
<1> SUFFICES ASSUME IInv, [Next]_vars PROVE Counted'
  OBVIOUS
<1>0. TypeOK /\ Quiet /\ Counted /\ TypeOK'
  BY NextTypeOK DEF IInv
<1>1. ASSUME UNCHANGED <<cached, todo, successes>>, troubled \subseteq troubled' PROVE Counted'
  BY <1>0, <1>1 DEF Counted
<1>2. CASE UNCHANGED vars
  BY <1>1, <1>2 DEF vars, serverVars, driverVars
<1>3. CASE HealthCheck \/ BroadcastEnds \/ TimeIsOver
  BY <1>1, <1>3 DEF HealthCheck, BroadcastEnds, TimeIsOver, Leave, serverVars
<1>4. CASE Initialize \/ StopTest
  BY <1>0, <1>4, NobodyAsked DEF Initialize, StopTest, Enter
<1>5. CASE SomePodSucceeded
  BY <1>0, <1>1, <1>5, NobodyAsked DEF SomePodSucceeded, Proceed, Enter, Leave, serverVars
<1>6. CASE PostToBase
  <2>1. troubled \subseteq troubled'
    BY <1>6, PostOutcome DEF PostToBase, Outcome, InTrouble
  <2>2. \/ UNCHANGED <<todo, successes>>
        \/ todo' = cached' /\ successes' = 0
    BY <1>6 DEF PostToBase, Proceed, Enter, Leave
  <2>3. QED
    BY <1>0, <1>1, <1>6, <2>1, <2>2, NobodyAsked DEF PostToBase
<1>7. CASE SpikeTick
  BY <1>0, <1>1, <1>7, NobodyAsked DEF SpikeTick, Enter, Leave, serverVars
<1>8. ASSUME NEW p \in Pods, ExecOnPod(p) PROVE Counted'
  BY <1>8, AskedCounts DEF ExecOnPod
<1>9. ASSUME NEW p \in Pods, SpikeAnswered(p) PROVE Counted'
  BY <1>9, AskedCounts DEF SpikeAnswered
<1>10. ASSUME NEW p \in Pods, SpikeTimesOut(p) PROVE Counted'
  <2>1. /\ p \in todo /\ todo' = todo \ {p} /\ UNCHANGED <<cached, successes>>
        /\ troubled' = troubled \union {p}
    BY <1>10 DEF SpikeTimesOut, Waits, InTrouble
  <2>2. successes + 1 + Cardinality(todo \ {p}) <= Cardinality(cached)
    BY <1>0, <2>1, RoomLeft
  <2>3. Cardinality(todo \ {p}) \in Nat /\ Cardinality(cached) \in 0..Total
    BY <1>0, TodoCounts
  <2>4. successes \in Nat
    BY <1>0, ServerAssumption DEF TypeOK
  <2>5. successes' + Cardinality(todo') <= Cardinality(cached')
    BY <2>1, <2>2, <2>3, <2>4, ServerAssumption
  <2>6. QED
    BY <1>0, <2>1, <2>5 DEF Counted
<1>11. ASSUME NEW p \in Pods, (Crash(p) \/ Restart(p)) /\ UNCHANGED driverVars PROVE Counted'
  BY <1>1, <1>11 DEF Crash, Restart, InTrouble, driverVars
<1>12. ASSUME NEW p \in Pods, StrayArrives(p) PROVE Counted'
  BY <1>1, <1>12 DEF StrayArrives, Fine
<1>13. ASSUME NEW id \in Participants, InjectSpike(id), UNCHANGED driverVars PROVE Counted'
  BY <1>1, <1>13 DEF InjectSpike, driverVars
<1>14. QED
  BY <1>2, <1>3, <1>4, <1>5, <1>6, <1>7, <1>8, <1>9, <1>10, <1>11, <1>12, <1>13 DEF Next, Driver, Cluster

-----------------------------------------------------------------------------
(* A call to pod p leaves what another pod is known to do.                     *)
LEMMA CallElsewhere ==
  ASSUME IInv, NEW p \in Pods, NEW request, Outcome(p, request),
         request.is \in Phases \/ request \in Spikes,
         UNCHANGED <<pc, cached, sent>>, todo' = todo \ {p} \/ todo' = todo,
         NEW q \in cached \ troubled', q # p
  PROVE  SessionFollows(q)' /\ HitFollows(q)'
<1>0. TypeOK /\ Follows
  BY DEF IInv
<1>1. q \in Pods /\ q \notin troubled
  BY <1>0 DEF TypeOK, Outcome, InTrouble
<1>2. SessionFollows(q) /\ HitFollows(q)
  BY <1>0, <1>1 DEF Follows
<1>3. /\ session'[q] = session[q]
      /\ hit' = hit
      /\ \A id \in Participants : isMyParticipant(id, q) => injecting'[id] = injecting[id]
  BY <1>0, <1>1, OutcomeElsewhere
<1>4. q \in todo' <=> q \in todo
  OBVIOUS
<1>5. SessionFollows(q)'
  BY <1>2, <1>3, <1>4 DEF SessionFollows
<1>6. HitFollows(q)'
  BY <1>2, <1>3, <1>4 DEF HitFollows, Aimed, AimedBefore, spikeCount, Taken
<1>7. QED
  BY <1>5, <1>6

(* A pod without trouble has handled the request it was asked.                 *)
LEMMA CallHandled ==
  ASSUME IInv, NEW p \in Pods, NEW request, Exec(p, request), p \notin troubled'
  PROVE  Handle(request, p) /\ p \notin troubled
BY ExecOutcome DEF IInv, Quiet, Outcome, InTrouble

LEMMA CommandFollows ==
  ASSUME IInv, NEW p \in Pods, ExecOnPod(p), p \in cached \ troubled'
  PROVE  SessionFollows(p)' /\ HitFollows(p)'
<1>0. TypeOK /\ Follows
  BY DEF IInv
<1>1. /\ pc \in Phases /\ p \in todo /\ p \notin todo' /\ Exec(p, Command)
      /\ UNCHANGED <<pc, cached, sent>>
  BY DEF ExecOnPod, Waits
<1>2. Handle(Command, p) /\ p \notin troubled
  BY <1>1, CallHandled
<1>3. SessionFollows(p) /\ HitFollows(p)
  BY <1>0, <1>2 DEF Follows
<1>4. Command.is = pc
  BY CommandIs
<1>5. session'[p] = SessionAfter(Command, p)
  BY <1>0, <1>1, <1>2, <1>4, Handled
<1>6. SessionAfter(Command, p) = Reached[pc]
  <2>1. CASE pc = "create"
    BY <1>4, <2>1 DEF SessionAfter, Found, Reached
  <2>2. CASE pc = "start"
    <3>1. session[p] = "created"
      BY <1>1, <1>3, <2>2 DEF SessionFollows, Unasked
    <3>2. QED
      BY <1>4, <2>2, <3>1 DEF SessionAfter, Found, Reached
  <2>3. CASE pc = "stop"
    <3>1. session[p] = "running"
      BY <1>1, <1>3, <2>3 DEF SessionFollows, Unasked
    <3>2. QED
      BY <1>4, <2>3, <3>1 DEF SessionAfter, Found, Reached
  <2>4. QED
    BY <1>1, <2>1, <2>2, <2>3 DEF Phases
<1>7. SessionFollows(p)'
  BY <1>1, <1>5, <1>6 DEF SessionFollows, Phases
<1>8. hit' = hit /\ \A id \in Participants : injecting'[id] = injecting[id]
  BY <1>0, <1>1, <1>4, CommandHitsNobody, ExecOutcome
<1>9. HitFollows(p)'
  BY <1>1, <1>3, <1>8 DEF HitFollows, Aimed, spikeCount, Phases, Taken
<1>10. QED
  BY <1>7, <1>9

(* The last spike beside those before it.                                      *)
LEMMA AimedLast ==
  ASSUME TypeOK, spikeCount > 0, NEW id
  PROVE  Aimed(id) = AimedBefore(id) \union
                       (IF AimedAt(sent[spikeCount], id) THEN {spikeCount} ELSE {})
<1>1. spikeCount \in Nat
  BY DriverAssumption DEF TypeOK
<1>2. 1..spikeCount = 1..(spikeCount - 1) \union {spikeCount} /\ spikeCount \notin 1..(spikeCount - 1)
  BY <1>1
<1>3. QED
  BY <1>2 DEF Aimed, AimedBefore

LEMMA SpikeFollows ==
  ASSUME IInv, NEW p \in Pods, SpikeAnswered(p), p \in cached \ troubled'
  PROVE  SessionFollows(p)' /\ HitFollows(p)'
<1>0. TypeOK /\ Follows /\ Quiet
  BY DEF IInv
<1>1. /\ pc = "spike" /\ p \in todo /\ p \notin todo' /\ Exec(p, Spike)
      /\ UNCHANGED <<pc, cached, sent>> /\ spikeCount > 0
  BY <1>0 DEF SpikeAnswered, Waits, Quiet
<1>2. Handle(Spike, p) /\ p \notin troubled
  BY <1>1, CallHandled
<1>3. SessionFollows(p) /\ HitFollows(p)
  BY <1>0, <1>2 DEF Follows
<1>4. /\ Spike \in Spikes /\ Spike.is = "spike"
      /\ Spike.number = spikeCount /\ Spike.targets = sent[spikeCount]
  BY <1>0, <1>1, SpikeIs
<1>5. session[p] = "running"
  BY <1>1, <1>3 DEF SessionFollows
<1>6. SessionAfter(Spike, p) = "running"
  BY <1>4, <1>5 DEF SessionAfter
<1>7. SessionFollows(p)'
  BY <1>0, <1>1, <1>2, <1>4, <1>6, Handled DEF SessionFollows, Phases
<1>8. ASSUME NEW id \in Participants, isMyParticipant(id, p)
      PROVE  Taken(id)' = Aimed(id) /\ hit'[id] \intersect injecting'[id] = {}
  <2>1. Taken(id) = AimedBefore(id) /\ hit[id] \intersect injecting[id] = {}
    BY <1>1, <1>3, <1>8 DEF HitFollows
  <2>2. Hits(Spike, p, id) <=> AimedAt(sent[spikeCount], id)
    BY <1>4, <1>5, <1>8 DEF Hits, Found
  <2>3. /\ hit' = hit
        /\ injecting'[id] = IF Hits(Spike, p, id) THEN injecting[id] \union {spikeCount}
                                                  ELSE injecting[id]
    BY <1>0, <1>2, <1>4, Handled
  <2>4. Taken(id)' = Aimed(id)
    BY <1>0, <1>1, <2>1, <2>2, <2>3, AimedLast DEF Taken
  <2>5. spikeCount \notin hit[id]
    BY <1>0, <2>1, DriverAssumption DEF Taken, AimedBefore, TypeOK
  <2>6. QED
    BY <2>1, <2>3, <2>4, <2>5
<1>9. HitFollows(p)'
  BY <1>1, <1>8 DEF HitFollows, Aimed, spikeCount, Taken
<1>10. QED
  BY <1>7, <1>9

-----------------------------------------------------------------------------
LEMMA NextFollows == IInv /\ [Next]_vars => Follows'
<1> SUFFICES ASSUME IInv, [Next]_vars, NEW q \in cached' \ troubled'
             PROVE  SessionFollows(q)' /\ HitFollows(q)'
  BY DEF Follows
<1>0. TypeOK /\ Quiet /\ Counted /\ Follows
  BY DEF IInv
<1> USE DEF spikeCount, Taken
<1>1. CASE UNCHANGED vars
  BY <1>0, <1>1 DEF Follows, SessionFollows, HitFollows, Aimed, AimedBefore, vars, serverVars, driverVars
<1>2. CASE HealthCheck
  BY <1>0, <1>2 DEF HealthCheck, Quiet
<1>3. CASE Initialize
  BY <1>0, <1>3 DEF Initialize, Quiet, SessionFollows, HitFollows, Phases, serverVars
<1>4. CASE SomePodSucceeded
  <2>1. /\ UNCHANGED <<session, injecting, hit, cached, troubled, sent>> /\ q \notin todo
        /\ q \in cached \ troubled /\ pc \in Phases
    BY <1>4 DEF SomePodSucceeded, serverVars
  <2>2. session[q] = Reached[pc]
    BY <1>0, <2>1 DEF Follows, SessionFollows
  <2>3. CASE pc = "create"
    <3>1. pc' = "start" /\ todo' = cached
      BY <1>4, <2>3 DEF SomePodSucceeded, Proceed, Enter
    <3>2. \A id \in Participants : Taken(id)' = {}
      BY <1>0, <2>1, <2>3 DEF Quiet
    <3>3. QED
      BY <2>1, <2>2, <2>3, <3>1, <3>2 DEF SessionFollows, HitFollows, Reached, Unasked, Phases
  <2>4. CASE pc = "start"
    <3>1. pc' = "loop"
      BY <1>4, <2>4 DEF SomePodSucceeded, Proceed, Leave, After
    <3>2. \A id \in Participants : Taken(id)' = {} /\ Aimed(id)' = {}
      BY <1>0, <2>1, <2>4 DEF Quiet, Aimed
    <3>3. QED
      BY <2>1, <2>2, <2>4, <3>1, <3>2 DEF SessionFollows, HitFollows, Reached, Phases
  <2>5. CASE pc = "stop"
    <3>1. pc' = "done"
      BY <1>4, <2>5 DEF SomePodSucceeded, Proceed, Leave, After
    <3>2. QED
      BY <1>0, <2>1, <2>2, <2>5, <3>1
         DEF Follows, SessionFollows, HitFollows, Aimed, Reached, Phases
  <2>6. QED
    BY <2>1, <2>3, <2>4, <2>5 DEF Phases
<1>5. CASE PostToBase
  <2>1. cached' = cached /\ cached \subseteq troubled
    BY <1>0, <1>5 DEF PostToBase, Counted
  <2>2. troubled \subseteq troubled'
    BY <1>5, PostOutcome DEF PostToBase, Outcome, InTrouble
  <2>3. QED
    BY <2>1, <2>2
<1>6. ASSUME NEW p \in Pods, ExecOnPod(p) PROVE SessionFollows(q)' /\ HitFollows(q)'
  <2>1. /\ Command.is \in Phases /\ Outcome(p, Command)
        /\ UNCHANGED <<pc, cached, sent>> /\ todo' = todo \ {p}
    BY <1>6, CommandIs, ExecOutcome DEF ExecOnPod, Waits
  <2>2. CASE q = p
    BY <1>6, <2>1, <2>2, CommandFollows
  <2>3. CASE q # p
    BY <2>1, <2>3, CallElsewhere
  <2>4. QED
    BY <2>2, <2>3
<1>7. ASSUME NEW p \in Pods, SpikeAnswered(p) PROVE SessionFollows(q)' /\ HitFollows(q)'
  <2>1. /\ Spike \in Spikes /\ Outcome(p, Spike)
        /\ UNCHANGED <<pc, cached, sent>> /\ todo' = todo \ {p}
    BY <1>0, <1>7, SpikeIs, ExecOutcome DEF SpikeAnswered, Waits, Quiet
  <2>2. CASE q = p
    BY <1>7, <2>1, <2>2, SpikeFollows
  <2>3. CASE q # p
    BY <2>1, <2>3, CallElsewhere
  <2>4. QED
    BY <2>2, <2>3
<1>8. ASSUME NEW p \in Pods, SpikeTimesOut(p) PROVE SessionFollows(q)' /\ HitFollows(q)'
  <2>1. /\ UNCHANGED <<pc, cached, sent, session, injecting, hit>> /\ todo' = todo \ {p}
        /\ troubled' = troubled \union {p}
    BY <1>8 DEF SpikeTimesOut, Waits, InTrouble, Untouched
  <2>2. q # p /\ q \in cached \ troubled
    BY <2>1
  <2>3. QED
    BY <1>0, <2>1, <2>2 DEF Follows, SessionFollows, HitFollows, Aimed, AimedBefore
<1>9. CASE SpikeTick
  <2>1. /\ UNCHANGED <<cached, session, injecting, hit, troubled>> /\ cached # {}
        /\ pc = "loop" /\ pc' = "spike" /\ todo' = cached /\ q \in cached \ troubled
    BY <1>9 DEF SpikeTick, Enter, serverVars
  <2>2. SessionFollows(q) /\ HitFollows(q)
    BY <1>0, <2>1 DEF Follows
  <2>3. PICK targets \in SUBSET Participants : sent' = Append(sent, targets)
    BY <1>9 DEF SpikeTick, SelectParticipants
  <2>4. Len(sent') - 1 = Len(sent) /\ \A k \in 1..Len(sent) : sent'[k] = sent[k]
    BY <1>0, <2>3 DEF TypeOK
  <2>5. \A id \in Participants : AimedBefore(id)' = Aimed(id)
    BY <2>4 DEF AimedBefore, Aimed
  <2>6. HitFollows(q)'
    BY <2>1, <2>2, <2>5 DEF HitFollows
  <2>7. QED
    BY <2>1, <2>2, <2>6 DEF SessionFollows, Phases
<1>10. CASE BroadcastEnds
  <2>1. /\ UNCHANGED <<cached, session, injecting, hit, troubled, sent>> /\ q \notin todo
        /\ pc = "spike" /\ pc' = "loop" /\ q \in cached \ troubled
    BY <1>10 DEF BroadcastEnds, Leave, serverVars
  <2>2. QED
    BY <1>0, <2>1 DEF Follows, SessionFollows, HitFollows, Aimed, Phases
<1>11. CASE TimeIsOver
  BY <1>0, <1>11 DEF TimeIsOver, Follows, SessionFollows, HitFollows, Aimed, AimedBefore, serverVars
<1>12. CASE StopTest
  <2>1. /\ UNCHANGED <<cached, session, injecting, hit, troubled, sent>> /\ todo' = cached
        /\ pc = "loop" /\ pc' = "stop" /\ q \in cached \ troubled
    BY <1>12 DEF StopTest, Enter, serverVars
  <2>2. QED
    BY <1>0, <2>1 DEF Follows, SessionFollows, HitFollows, Aimed, Unasked, Phases
<1>13. ASSUME NEW p \in Pods, Crash(p), UNCHANGED driverVars PROVE SessionFollows(q)' /\ HitFollows(q)'
  <2>1. q # p /\ q \in cached \ troubled /\ session'[q] = session[q] /\ UNCHANGED <<hit, driverVars>>
    BY <1>0, <1>13 DEF Crash, InTrouble, driverVars, TypeOK
  <2>2. ASSUME NEW id \in Participants, isMyParticipant(id, q) PROVE injecting'[id] = injecting[id]
    <3>1. ~isMyParticipant(id, p)
      BY <1>0, <2>1, <2>2, OnePodEach DEF TypeOK
    <3>2. QED
      BY <1>13, <3>1 DEF Crash
  <2>3. QED
    BY <1>0, <2>1, <2>2 DEF Follows, SessionFollows, HitFollows, Aimed, AimedBefore, driverVars
<1>14. ASSUME NEW p \in Pods, Restart(p), UNCHANGED driverVars PROVE SessionFollows(q)' /\ HitFollows(q)'
  BY <1>0, <1>14 DEF Restart, Follows, SessionFollows, HitFollows, Aimed, AimedBefore, driverVars
<1>15. ASSUME NEW p \in Pods, StrayArrives(p) PROVE SessionFollows(q)' /\ HitFollows(q)'
  <2>1. PICK s \in stray : s[1] = p /\ Handle(s[2], p)
    BY <1>15 DEF StrayArrives
  <2>2. s[2] \in Spikes /\ p \in troubled
    BY <1>0, <2>1 DEF Quiet
  <2>3. UNCHANGED <<pc, cached, todo, sent, troubled, troubles>>
    BY <1>15 DEF StrayArrives, Fine
  <2>4. Outcome(p, s[2])
    BY <2>1, <2>3 DEF Outcome, Handle
  <2>5. QED
    BY <2>2, <2>3, <2>4, CallElsewhere
<1>16. ASSUME NEW id \in Participants, InjectSpike(id), UNCHANGED driverVars
       PROVE  SessionFollows(q)' /\ HitFollows(q)'
  <2>1. \A d \in Participants : /\ Taken(d)' = Taken(d)
                                /\ hit[d] \intersect injecting[d] = {} =>
                                     hit'[d] \intersect injecting'[d] = {}
    BY <1>0, <1>16, InjectMoves
  <2>2. UNCHANGED <<driverVars, session, troubled>>
    BY <1>16 DEF InjectSpike
  <2> HIDE DEF Taken
  <2>3. SessionFollows(q) /\ HitFollows(q)
    BY <1>0, <2>2 DEF Follows, driverVars
  <2>4. QED
    BY <2>1, <2>2, <2>3 DEF SessionFollows, HitFollows, Aimed, AimedBefore, driverVars
<1>17. QED
  BY <1>1, <1>2, <1>3, <1>4, <1>5, <1>6, <1>7, <1>8, <1>9, <1>10, <1>11, <1>12, <1>13, <1>14, <1>15, <1>16
     DEF Next, Driver, Cluster

-----------------------------------------------------------------------------
LEMMA Invariance == Spec => []IInv
<1>1. IInv /\ [Next]_vars => IInv'
  BY NextTypeOK, NextQuiet, NextCounted, NextFollows DEF IInv
<1>2. QED
  BY <1>1, InitIInv, PTL DEF Spec

(* The driver never counts more successes than pods, and its counter of failed *)
(* broadcasts is set back in time (pods.go:147-160).                           *)
THEOREM Typing == Spec => []TypeOK
BY Invariance, PTL DEF IInv

(* A pod without trouble gets every phase of the test and every spike aimed at *)
(* its participants, whatever happens to the other pods (main.go:54-71,        *)
(* pods.go:97-197).                                                            *)
THEOREM HealthyPodsFollow == Spec => []PodsFollow
<1>1. IInv => PodsFollow
  BY DEF IInv, Follows, SessionFollows, HitFollows, PodsFollow
<1>2. QED
  BY <1>1, Invariance, PTL
=============================================================================
