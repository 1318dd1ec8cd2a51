------------------------------- MODULE TestServer -------------------------------
(***************************************************************************)
(* The orchestrator of each pod as the driver of a test sees it              *)
(* (internal/server): the session of the test, which participants are the    *)
(* pod's, and which spikes reached them.  What a started pool or a spike does *)
(* is the matter of ParticipantPool, ParticipantSpikes and SpikeInjector.  A  *)
(* pod may crash; its tests are in memory only.                              *)
(***************************************************************************)
EXTENDS Integers, FiniteSets

CONSTANTS
  Total,            \* totalPartitions: the number of pods
  NumParticipants,  \* of the test
  MaxTroubles       \* bound: crashes, failed or broken calls, refusals

ASSUME ServerAssumption ==
  /\ Total \in Nat \ {0}
  /\ NumParticipants \in Nat
  /\ MaxTroubles \in Nat

\* A pod is named by its partition, a participant by its id.
Pods == 0..(Total - 1)
Participants == 1001..(1000 + NumParticipants)

VARIABLES
  up,         \* the pods whose server runs
  session,    \* tests[testID] of each pod: the state of its session
  injecting,  \* the spikes the goroutines of its pod are about to give each participant
  hit,        \* the spikes injected into each participant
  troubled,   \* history: pods that crashed, refused, or were not reached
  troubles    \* their number, with repetitions

serverVars == <<up, session, injecting, hit, troubled, troubles>>

States == {"none", "created", "running", "stopped"}

ServerInit ==
  /\ up = Pods
  /\ session = [p \in Pods |-> "none"]
  /\ injecting = [id \in Participants |-> {}]
  /\ hit = [id \in Participants |-> {}]
  /\ troubled = {}
  /\ troubles = 0

InTrouble(p) ==
  /\ troubles < MaxTroubles
  /\ troubled' = troubled \union {p}
  /\ troubles' = troubles + 1

isMyParticipant(id, p) == Total <= 1 \/ id % Total = p

Crash(p) ==
  /\ p \in up
  /\ up' = up \ {p}
  /\ session' = [session EXCEPT ![p] = "none"]
  /\ injecting' = [id \in Participants |-> IF isMyParticipant(id, p) THEN {} ELSE injecting[id]]
  /\ InTrouble(p)
  /\ UNCHANGED hit

Restart(p) ==
  /\ p \notin up
  /\ up' = up \union {p}
  /\ UNCHANGED <<session, injecting, hit, troubled, troubles>>

\* An empty list of participants means all of them.
AimedAt(targets, id) == targets = {} \/ id \in targets

\* The state a request sets.  A test that is not there is answered 404 and nothing
\* changes.
Reached == [create |-> "created", start |-> "running", stop |-> "stopped"]
Found(request, p) == request.is = "create" \/ session[p] # "none"
SessionAfter(request, p) ==
  IF request.is # "spike" /\ Found(request, p) THEN Reached[request.is] ELSE session[p]

Hits(request, p, id) ==
  /\ request.is = "spike" /\ Found(request, p)
  /\ isMyParticipant(id, p) /\ AimedAt(request.targets, id)

\* A spike is answered at once, and injected by a goroutine.
Handle(request, p) ==
  /\ p \in up
  /\ session' = [session EXCEPT ![p] = SessionAfter(request, p)]
  /\ injecting' = [id \in Participants |->
        IF Hits(request, p, id) THEN injecting[id] \union {request.number} ELSE injecting[id]]
  /\ UNCHANGED <<up, hit>>

\* InjectSpike of the pool comes to a participant.
InjectSpike(id) ==
  \E k \in injecting[id] :
    /\ injecting' = [injecting EXCEPT ![id] = @ \ {k}]
    /\ hit' = [hit EXCEPT ![id] = @ \union {k}]
    /\ UNCHANGED <<up, session, troubled, troubles>>

Taken(id) == hit[id] \union injecting[id]

\* handleCreateTest when the UDP target of a participant cannot be resolved: status
\* 500, and no session; handleInjectSpike when a parameter is out of its range, as a
\* configured percentage above 100 makes it: status 400.
Refuse(request, p) ==
  /\ p \in up /\ request.is \in {"create", "spike"}
  /\ InTrouble(p)
  /\ UNCHANGED <<up, session, injecting, hit>>

Untouched == UNCHANGED <<up, session, injecting, hit>>
Fine == UNCHANGED <<troubled, troubles>>
=============================================================================
