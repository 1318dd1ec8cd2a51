------------------------------ MODULE ChaosDriver ------------------------------
(***************************************************************************)
(* tools/chaos-test/main.go with the pod cache of pkg/k8s/pods.go: create and *)
(* start the test on every pod, send a spike at every tick to every pod, stop *)
(* the test when its time is over or on a signal.  A pod is reached by         *)
(* kubectl exec of a curl that does not look at the status, so a refusal        *)
(* counts as a success; without pods the requests go to base_url.             *)
(***************************************************************************)
EXTENDS TestServer, Sequences

CONSTANTS
  Base,        \* the server behind base_url
  Kubernetes,  \* whether there may be pods to find: a set of Booleans
  Count,       \* cfg.Spikes.Count
  FailureLog   \* failures before the warning, 5 in the code

ASSUME DriverAssumption ==
  /\ Base \in Pods
  /\ Kubernetes \subseteq BOOLEAN
  /\ Count \in Nat
  /\ FailureLog \in Nat \ {0}

VARIABLES
  pc,         \* where main stands
  cached,     \* podNames of the pod cache
  todo,       \* pods ExecOnAllPods or BroadcastSpike still waits for
  successes,  \* successCount
  sent,       \* the participants of each spike InjectRandomSpike made
  failures,   \* consecutiveFailures
  over,       \* the end time is past
  stray       \* spikes of calls given up, still on their way to a pod

driverVars == <<pc, cached, todo, successes, sent, failures, over, stray>>
vars == <<serverVars, driverVars>>

spikeCount == Len(sent)
Phases == {"create", "start", "stop"}
Steps == Phases \union {"health", "initialize", "loop", "spike", "done", "exit"}

Init ==
  /\ ServerInit
  /\ pc = "health"
  /\ cached = {}
  /\ todo = {}
  /\ successes = 0
  /\ sent = <<>>
  /\ failures = 0
  /\ over = FALSE
  /\ stray = {}

\* Begin a phase, or the broadcast of a spike.
Enter(step) == pc' = step /\ todo' = cached /\ successes' = 0
Leave(step) == pc' = step /\ UNCHANGED <<todo, successes>>

HealthCheck ==
  /\ pc = "health"
  /\ Leave(IF Base \in up THEN "initialize" ELSE "exit")
  /\ UNCHANGED <<serverVars, cached, sent, failures, over, stray>>

\* Initialize: no kubectl, a failing one, or the list of all pods.
Initialize ==
  /\ pc = "initialize"
  /\ \E found \in Kubernetes : cached' = IF found THEN Pods ELSE {}
  /\ pc' = "create" /\ todo' = cached' /\ successes' = 0
  /\ UNCHANGED <<serverVars, sent, failures, over, stray>>

-----------------------------------------------------------------------------
(* ExecOnAllPods, one pod after the other. *)
Command == [is |-> pc]
Waits(p) == p \in todo /\ todo' = todo \ {p}

\* The server answers, be it with an error.
Answered(p, request) ==
  /\ successes' = successes + 1
  /\ \/ Handle(request, p) /\ Fine
     \/ Refuse(request, p)

\* kubectl fails before the request or after it, or there is no server.
Failed(p, request) ==
  /\ UNCHANGED successes
  /\ \/ Untouched /\ InTrouble(p)
     \/ Handle(request, p) /\ InTrouble(p)
     \/ p \notin up /\ Untouched /\ Fine

Exec(p, request) == Answered(p, request) \/ Failed(p, request)

\* Variant: the first pod that fails ends the round.
ExecFailsForAll(p) ==
  /\ pc \in Phases /\ p \in todo
  /\ \/ Answered(p, Command) /\ todo' = todo \ {p}
     \/ Failed(p, Command) /\ todo' = {}
  /\ UNCHANGED <<pc, cached, sent, failures, over, stray>>

ExecOnPod(p) ==
  /\ pc \in Phases /\ Waits(p)
  /\ Exec(p, Command)
  /\ UNCHANGED <<pc, cached, sent, failures, over, stray>>

After(phase) ==
  CASE phase = "create" -> "start"
    [] phase = "start" -> "loop"
    [] phase = "stop" -> "done"

Proceed ==
  IF pc = "create" THEN Enter("start") ELSE Leave(After(pc))

\* createTest, startTest and stopTest when a pod succeeded.
SomePodSucceeded ==
  /\ pc \in Phases /\ todo = {} /\ successes > 0
  /\ Proceed
  /\ UNCHANGED <<serverVars, cached, sent, failures, over, stray>>

\* HTTPClient.Post fails without an answer, and with a status of 400 or more.
Post(request, succeeded) ==
  \/ Handle(request, Base) /\ Fine /\ succeeded = Found(request, Base)
  \/ /\ ~succeeded
     /\ \/ Refuse(request, Base)
        \/ Untouched /\ InTrouble(Base)
        \/ Handle(request, Base) /\ InTrouble(Base)
        \/ Base \notin up /\ Untouched /\ Fine

\* When none did: base_url.  stopTest does not look at the outcome.
PostToBase ==
  /\ pc \in Phases /\ todo = {} /\ successes = 0
  /\ \E succeeded \in BOOLEAN :
       /\ Post(Command, succeeded)
       /\ IF succeeded \/ pc = "stop" THEN Proceed ELSE Leave("exit")
  /\ UNCHANGED <<cached, sent, failures, over, stray>>

-----------------------------------------------------------------------------
(* runTestLoop. *)
TimeIsOver ==
  /\ pc = "loop" /\ ~over
  /\ over' = TRUE
  /\ UNCHANGED <<serverVars, pc, cached, todo, successes, sent, failures, stray>>

\* SelectParticipants: one, several (one may be drawn twice), or an empty list.
SelectParticipants == SUBSET Participants

\* InjectRandomSpike; the spike counts whatever BroadcastSpike does, which is
\* nothing without pods.
SpikeTick ==
  /\ pc = "loop" /\ ~over /\ spikeCount < Count
  /\ \E targets \in SelectParticipants : sent' = Append(sent, targets)
  /\ IF cached = {} THEN Leave("loop") ELSE Enter("spike")
  /\ UNCHANGED <<serverVars, cached, failures, over, stray>>

Spike == [is |-> "spike", number |-> spikeCount, targets |-> sent[spikeCount]]

\* BroadcastSpike: all pods at once, each with four seconds to answer.
SpikeAnswered(p) ==
  /\ pc = "spike" /\ Waits(p)
  /\ Exec(p, Spike)
  /\ UNCHANGED <<pc, cached, sent, failures, over, stray>>

SpikeTimesOut(p) ==
  /\ pc = "spike" /\ Waits(p)
  /\ InTrouble(p)
  /\ stray' = stray \union {<<p, Spike>>}
  /\ Untouched
  /\ UNCHANGED <<pc, cached, successes, sent, failures, over>>

\* The call was killed on the driver's side only.
StrayArrives(p) ==
  \E s \in stray :
    /\ s[1] = p /\ Handle(s[2], p)
    /\ stray' = stray \ {s}
    /\ Fine
    /\ UNCHANGED <<pc, cached, todo, successes, sent, failures, over>>

\* Variant: the counter is set back one failure late.
BroadcastEndsLate ==
  /\ pc = "spike" /\ todo = {}
  /\ failures' = IF successes > 0 \/ failures >= FailureLog THEN 0 ELSE failures + 1
  /\ Leave("loop")
  /\ UNCHANGED <<serverVars, cached, sent, over, stray>>

BroadcastEnds ==
  /\ pc = "spike" /\ todo = {}
  /\ failures' = IF successes > 0 \/ failures + 1 >= FailureLog THEN 0 ELSE failures + 1
  /\ Leave("loop")
  /\ UNCHANGED <<serverVars, cached, sent, over, stray>>

\* A signal at any moment of the loop, or the first metrics tick after the end.
StopTest ==
  /\ pc = "loop"
  /\ Enter("stop")
  /\ UNCHANGED <<serverVars, cached, sent, failures, over, stray>>

Driver ==
  \/ HealthCheck \/ Initialize \/ SomePodSucceeded \/ PostToBase
  \/ SpikeTick \/ BroadcastEnds \/ TimeIsOver \/ StopTest
  \/ \E p \in Pods : ExecOnPod(p) \/ SpikeAnswered(p) \/ SpikeTimesOut(p)

Cluster ==
  /\ \/ \E p \in Pods : Crash(p) \/ Restart(p)
     \/ \E id \in Participants : InjectSpike(id)
  /\ UNCHANGED driverVars

Next == Driver \/ Cluster \/ \E p \in Pods : StrayArrives(p)

Spec == Init /\ [][Next]_vars

-----------------------------------------------------------------------------
(* Properties. *)

\* The shape of the state; the driver never has more successes than pods, and
\* counts at most FailureLog - 1 failures in a row.
TypeOK ==
  /\ up \subseteq Pods /\ troubled \subseteq Pods /\ troubles \in 0..MaxTroubles
  /\ session \in [Pods -> States]
  /\ injecting \in [Participants -> SUBSET (1..Count)]
  /\ hit \in [Participants -> SUBSET (1..Count)]
  /\ pc \in Steps /\ cached \in {{}, Pods} /\ todo \subseteq cached
  /\ successes \in 0..Total
  /\ sent \in Seq(SUBSET Participants) /\ spikeCount \in 0..Count
  /\ failures \in 0..(FailureLog - 1)
  /\ over \in BOOLEAN

\* The spikes aimed at participant id so far.
Aimed(id) == {k \in 1..spikeCount : AimedAt(sent[k], id)}

\* A pod that was reached every time and did not crash or refuse follows the
\* driver to the end, whatever the other pods do: each of its participants got, or
\* is about to get, the spikes aimed at it and no other, none of them twice, and its
\* test is stopped when the driver is done.
PodsFollow ==
  \A p \in cached \ troubled :
    /\ pc \in {"loop", "stop", "done"} =>
         \A id \in Participants : isMyParticipant(id, p) =>
           Taken(id) = Aimed(id) /\ hit[id] \intersect injecting[id] = {}
    /\ pc \in {"loop", "spike"} => session[p] = "running"
    /\ pc = "done" => session[p] = "stopped"

\* README.md:118 on the local run, "Chaos spikes injected via HTTP API", and the
\* driver's last line, "Total spikes injected": when nothing went wrong, a spike
\* that was counted reached a participant, or is on its way inside a pod.
CountedSpikesArrive ==
  pc = "done" /\ troubled = {} =>
    \A k \in 1..spikeCount : \E id \in Participants : k \in Taken(id)
=============================================================================
