---------------------------- MODULE WebRTCReceiver ----------------------------
(***************************************************************************)
(* examples/webrtc_receiver.go against one server: the participants are       *)
(* found (internal/client/discovery.go), connected in waves (ConnectBatch, on *)
(* Kubernetes) or with retries (ConnectWithRetry, local mode), and closed      *)
(* when the user interrupts the receiver.                                    *)
(***************************************************************************)
EXTENDS SignallingClient

CONSTANTS
  Setups,             \* the server's partition and what the receiver is asked for
  FirstId,            \* 1001
  Concurrency,        \* tokens of the semaphore, 50
  DefaultPartitions,  \* what the client assumes of a silent server, 10
  SearchLimit,        \* ids probed when all are wanted, 10000
  GiveUpAfter,        \* 100
  MaxSampled          \* constants.MaxSampledParticipants, 100

VARIABLES
  setup,       \* mode, participants, partition, partitions, wanted, retries, test
  main,        \* where main stands
  probe,       \* the discovery: candidates left, number checked
  found,       \* participantIDs
  wave,        \* of ConnectBatch
  remaining,   \* ids no goroutine of this wave was started for yet
  failed       \* ids to try again in the next wave

mainVars == <<setup, main, probe, found, wave, remaining, failed>>
vars == <<serverVars, clientVars, mainVars>>

MainSteps == {"metrics", "health", "probe", "probing", "connect", "stats", "fatal",
              "crashed", "closed"}

\* isMyParticipant, over the ids handleCreateTest makes.
Mine(s) == {id \in FirstId..(FirstId + s.participants - 1) :
              s.partitions <= 1 \/ id % s.partitions = s.partition}

ASSUME ReceiverAssumption ==
  /\ Tries >= 2 /\ FirstId \in Nat
  /\ \A s \in Setups : /\ s.retries \in 0..Tries
                       /\ s.test \in {"unknown", "stopped", "live"}
                       /\ Mine(s) \subseteq Ids

\* A pod has a partition of the ids and the local mode at most twenty; ids are
\* probed for a whole sample of a partition, or for all participants there are.
ASSUME SearchAssumption ==
  /\ MaxSampled \in Nat \ {0} /\ DefaultPartitions \in Nat \ {0} /\ SearchLimit \in Nat
  /\ \A s \in Setups :
       /\ s.mode \in {"batch", "local"} /\ s.participants \in Nat /\ s.wanted \in Int
       /\ s.partitions \in Nat \ {0} /\ s.partition \in 0..(s.partitions - 1)
       /\ s.mode = "local" => s.partitions <= 20
       /\ s.wanted <= 0 => \/ s.participants <= SearchLimit
                           \/ 2 * MaxSampled * s.partitions <= SearchLimit

Init ==
  /\ setup \in Setups
  /\ test = setup.test
  /\ mine = IF test = "unknown" THEN {} ELSE Mine(setup)
  /\ ServerInit
  /\ ClientInit
  /\ main = "metrics"
  /\ probe = [left |-> {}, checked |-> 0]
  /\ found = {}
  /\ wave = 0
  /\ remaining = {}
  /\ failed = {}

Wanted(n) == IF setup.wanted > 0 /\ setup.wanted < n THEN setup.wanted ELSE n

-----------------------------------------------------------------------------
(* Discovery. *)

\* The aggregator lists every participant, or every so many of a large pool, in
\* the order of a Go map.
SampleRate(n) == IF n > MaxSampled THEN n \div MaxSampled ELSE 1
SampleSize(n) == (n + SampleRate(n) - 1) \div SampleRate(n)

\* connectLocalMode and ConnectToPodParticipants, with their ids.
StartConnecting(ids) ==
  /\ found' = ids
  /\ remaining' = ids
  /\ wave' = 1
  /\ main' = IF ids = {} THEN "fatal" ELSE "connect"

FindByMetrics ==
  /\ main = "metrics" /\ mine # {}
  /\ \E ids \in kSubset(Wanted(SampleSize(Cardinality(mine))), mine) : StartConnecting(ids)
  /\ UNCHANGED <<serverVars, clientVars, setup, probe, failed>>

\* probeParticipantsSingle and probeParticipants.  Variant: the first id is left out.
ProbedIdsFromNext(limit) == (FirstId + 1)..(FirstId + limit - 1)

ProbedIds(limit) == FirstId..(FirstId + limit - 1)

FirstProbes(ids) == probe' = [left |-> ids, checked |-> 0]

\* No answer, or an empty one.
MetricsFail ==
  /\ main = "metrics"
  /\ IF mine = {} THEN UNCHANGED faults ELSE Fault(<<0, 0, "metrics">>)
  /\ IF setup.mode = "batch"
       THEN main' = "health" /\ UNCHANGED probe
       ELSE /\ main' = "probe"
            /\ FirstProbes(ProbedIds(IF setup.wanted < 0 THEN SearchLimit ELSE setup.wanted * 20))
  /\ UNCHANGED <<serverVars, worker, peer, connections, setup, found, wave, remaining, failed>>

\* getTotalPartitions.
AskPartitions ==
  /\ main = "health"
  /\ \E total \in {setup.partitions, DefaultPartitions} :
       /\ IF total = setup.partitions THEN UNCHANGED faults ELSE Fault(<<0, 0, "health">>)
       /\ LET limit == IF setup.wanted > 0 THEN setup.wanted * total * 2 ELSE SearchLimit IN
            FirstProbes({id \in ProbedIds(limit) : id % total = setup.partition})
  /\ main' = "probe"
  /\ UNCHANGED <<serverVars, worker, peer, connections, setup, found, wave, remaining, failed>>

Candidate == Min(probe.left)
Enough(ids) == setup.wanted > 0 /\ Cardinality(ids) >= setup.wanted
Hopeless(ids) == setup.mode = "batch" /\ ids = {} /\ probe.checked + 1 > GiveUpAfter

\* The loop goes on after an answer unless enough is found, or nothing among the
\* first hundred; after an error it goes on in any case.
Asked(goOn) ==
  probe' = [left |-> IF goOn THEN probe.left \ {Candidate} ELSE {}, checked |-> probe.checked + 1]

ProbesEnd ==
  /\ main = "probe" /\ probe.left = {}
  /\ StartConnecting(found)
  /\ UNCHANGED <<serverVars, clientVars, setup, probe, failed>>

\* GET /sdp is the probe: what it finds it has made.  Nobody else has the id.
Probe ==
  /\ main = "probe" /\ probe.left # {}
  /\ IF Candidate \in mine
       THEN main' = "probing" /\ UNCHANGED probe
            /\ sdp' = [sdp EXCEPT ![<<Candidate, 0>>] = Request("sent", None)]
       ELSE Asked(~Hopeless(found)) /\ UNCHANGED <<main, sdp>>
  /\ UNCHANGED <<test, mine, member, object, answer, spoiled, clientVars, setup, found, wave, remaining, failed>>

ProbeAnswered ==
  /\ main = "probing"
  /\ LET reply == sdp[<<Candidate, 0>>].step
         ids == IF reply = "ok" THEN found \union {Candidate} ELSE found IN
       /\ reply \in {"ok", "error"}
       /\ found' = ids
       /\ Asked(~Enough(ids) /\ ~Hopeless(ids))
  /\ main' = "probe"
  /\ UNCHANGED <<serverVars, clientVars, setup, wave, remaining, failed>>

ProbeTimesOut ==
  /\ main = "probing"
  /\ Fault(<<Candidate, 0, "sdp">>)
  /\ sdp' = [sdp EXCEPT ![<<Candidate, 0>>].awaited = FALSE]
  /\ Asked(TRUE)
  /\ main' = "probe"
  /\ UNCHANGED <<test, mine, member, object, answer, spoiled, worker, peer, connections, setup, found, wave, remaining, failed>>

-----------------------------------------------------------------------------
(* Connecting. *)
Batch == setup.mode = "batch"

\* Start a goroutine for the next id when there is a token for it.
Launch(id) ==
  /\ main = "connect" /\ id \in remaining
  /\ Cardinality(Running) < Concurrency
  /\ remaining' = remaining \ {id}
  /\ IF Batch \/ setup.retries > 0
       THEN Begin(id, wave)
       ELSE worker' = [worker EXCEPT ![id].step = "done"] /\ UNCHANGED sdp
  /\ UNCHANGED <<test, mine, member, object, answer, spoiled, peer, connections, faults,
                 setup, main, probe, found, wave, failed>>

\* Connect returned an error: the next wave's business, or the next retry's.
Retry(id) ==
  /\ main = "connect" /\ worker[id].step = "failed"
  /\ IF ~Batch /\ worker[id].k < setup.retries
       THEN Begin(id, worker[id].k + 1)
       ELSE Go(id, "done") /\ UNCHANGED sdp
  /\ failed' = IF Batch THEN failed \union {id} ELSE failed
  /\ UNCHANGED <<test, mine, member, object, answer, spoiled, peer, connections, faults,
                 setup, main, probe, found, wave, remaining>>

\* Variant: a third wave.
WaveEndsOneMore ==
  /\ main = "connect" /\ remaining = {} /\ Running = {}
  /\ IF Batch /\ wave <= 2 /\ failed # {}
       THEN wave' = wave + 1 /\ remaining' = failed /\ failed' = {} /\ UNCHANGED main
       ELSE main' = (IF connections = {} THEN "fatal" ELSE "stats")
            /\ UNCHANGED <<wave, remaining, failed>>
  /\ UNCHANGED <<serverVars, clientVars, setup, probe, found>>

\* wg.Wait, and the second of two waves for what failed in the first.
WaveEnds ==
  /\ main = "connect" /\ remaining = {} /\ Running = {}
  /\ IF Batch /\ wave < 2 /\ failed # {}
       THEN wave' = wave + 1 /\ remaining' = failed /\ failed' = {} /\ UNCHANGED main
       ELSE main' = (IF connections = {} THEN "fatal" ELSE "stats")
            /\ UNCHANGED <<wave, remaining, failed>>
  /\ UNCHANGED <<serverVars, clientVars, setup, probe, found>>

\* ConnectBatch looks into connectedIDs without its lock: while a goroutine
\* writes it the runtime may end the process.
MapRace ==
  /\ main = "connect" /\ Batch /\ remaining # {}
  /\ \E id \in Ids : worker[id].step = "record"
  /\ main' = "crashed"
  /\ UNCHANGED <<serverVars, clientVars, setup, probe, found, wave, remaining, failed>>

-----------------------------------------------------------------------------
\* runStatsLoop on a signal: CloseConnections.  Variant: Done is closed and the
\* peer connections are not.
InterruptDoneOnly ==
  /\ main = "stats"
  /\ main' = "closed"
  /\ UNCHANGED <<serverVars, clientVars, setup, probe, found, wave, remaining, failed>>

Interrupt ==
  /\ main = "stats"
  /\ peer' = [a \in Attempts |->
       IF a \in connections THEN [peer[a] EXCEPT !.state = "closed"] ELSE peer[a]]
  /\ main' = "closed"
  /\ UNCHANGED <<serverVars, worker, connections, faults, setup, probe, found, wave, remaining, failed>>

MainStep == FindByMetrics \/ MetricsFail \/ AskPartitions \/ Probe \/ ProbesEnd \/ ProbeAnswered \/ WaveEnds

\* A process that ended runs nothing; the server goes on.
Alive == main \notin {"crashed", "fatal"}

Serve(a) == (ServeSdp(a) \/ ServeAnswer(a)) /\ UNCHANGED <<clientVars, mainVars>>
Connecting(id) == Alive /\ (ConnectStep(id) \/ ConnectFault(id)) /\ UNCHANGED mainVars
Peering(a) == Alive /\ PeerEvent(a) /\ UNCHANGED mainVars

Next ==
  \/ \E a \in Attempts : Serve(a) \/ Peering(a)
  \/ MainStep \/ ProbeTimesOut \/ Interrupt \/ MapRace
  \/ \E id \in Ids : Launch(id) \/ Retry(id) \/ Connecting(id)

\* Goroutines are scheduled and a served request is answered.  Nobody must
\* interrupt the receiver, and a race need not happen; a request given up need
\* not be served at all.
Fairness ==
  /\ WF_vars(MainStep)
  /\ \A id \in Ids :
       /\ WF_vars(Launch(id)) /\ WF_vars(Retry(id))
       /\ WF_vars(Alive /\ ConnectStep(id) /\ UNCHANGED mainVars)
  /\ \A a \in Attempts :
       /\ WF_vars(sdp[a].awaited /\ ServeSdp(a) /\ UNCHANGED <<clientVars, mainVars>>)
       /\ WF_vars(answer[a].awaited /\ ServeAnswer(a) /\ UNCHANGED <<clientVars, mainVars>>)
       /\ WF_vars(Alive /\ ReaderEnds(a) /\ UNCHANGED mainVars)

Spec == Init /\ [][Next]_vars /\ Fairness

-----------------------------------------------------------------------------
(* Properties. *)

Maker == {None} \union 0..Tries

\* The shape of the state: requests, participants, goroutines, peer connections.
TypeOK ==
  /\ test \in {"unknown", "stopped", "live"} /\ mine \subseteq Ids
  /\ member \in [Ids -> Maker]
  /\ object \in [Attempts -> [offered : BOOLEAN, remote : Maker, closed : BOOLEAN]]
  /\ sdp \in [Attempts -> [step : SdpSteps, found : Maker, awaited : BOOLEAN]]
  /\ answer \in [Attempts -> [step : AnswerSteps, found : Maker, awaited : BOOLEAN]]
  /\ worker \in [Ids -> [step : WorkerSteps, k : 0..Tries]]
  /\ peer \in [Attempts -> [state : {"none", "open", "closed"}, offer : Maker,
                             reader : {"none", "reading", "ended"}]]
  /\ connections \subseteq Attempts
  /\ main \in MainSteps /\ wave \in 0..2
  /\ found \subseteq mine /\ remaining \subseteq found /\ failed \subseteq found

\* Every open peer connection of the client is one that Connect is still working
\* on or one in the list, whatever timed out or was refused; after the receiver
\* closed its connections none is open.
NothingLeaks ==
  \A a \in Attempts : peer[a].state = "open" =>
    /\ main # "closed"
    /\ a \in connections \/ (Now(a[1]) = a /\ worker[a[1]].step \in {"describe", "post", "ice", "record"})

\* A connection in the list is the one the server's participant of that id has
\* taken the answer of, and the participant is the one whose offer was answered:
\* no other request of the same client, a probe or an earlier wave, has replaced
\* it.  Only a request of an earlier attempt, given up and served during this one,
\* may.
ReturnedIsAnswered ==
  \A a \in connections : a[2] \notin spoiled[a[1]] =>
    /\ member[a[1]] = peer[a].offer
    /\ Linked(<<a[1], peer[a].offer>>, a)

\* A call of attempt k failed or timed out, or while it ran a request given up
\* earlier was served or the server failed to make a participant.
Troubled(id, k) ==
  \/ \E f \in faults : f[1] = id /\ f[2] = k
  \/ k \in spoiled[id]

\* When the receiver is through, a participant of a live test that was found and
\* not connected has had trouble in every one of its attempts: a lost request, a
\* lost reply or a half-made connection is healed by the next attempt that has
\* none of its own.
RetryHeals ==
  main \in {"stats", "fatal"} /\ test = "live" =>
    \A id \in found :
      \/ \E a \in connections : a[1] = id
      \/ \A k \in 1..(IF Batch THEN 2 ELSE setup.retries) : Troubled(id, k)

\* The discovery finds not more participants than were asked for, and if its
\* probes are answered as many as there are, or as the metrics list: the ids a
\* probe goes through reach far enough, and the hundred misses that end it do not
\* come first.  The probes of the local mode find none when none are asked for.
DiscoveryFinds ==
  main \notin {"metrics", "health", "probe", "probing"} =>
    /\ setup.wanted > 0 => Cardinality(found) <= setup.wanted
    /\ /\ test = "live" /\ (Batch \/ setup.wanted # 0)
       /\ \A f \in faults : f[2] = 0 => f[3] = "metrics"
       /\ \A id \in Ids : 0 \notin spoiled[id]
       => Cardinality(found) >= Wanted(SampleSize(Cardinality(mine)))

\* The receiver gets through its discovery and its waves, and once it is
\* interrupted the loops that read its tracks end.
ReceiverEnds ==
  /\ <>(main \in {"stats", "fatal", "crashed", "closed"})
  /\ main = "closed" ~> \A a \in Attempts : peer[a].reader # "reading"
=============================================================================
