---------------------------- MODULE SignallingClient ----------------------------
(***************************************************************************)
(* internal/client/webrtc/connection.go: a goroutine per participant runs    *)
(* Connect.  It fetches the offer, makes a peer connection, posts its answer, *)
(* and waits a moment for the connection.  Both requests have a timeout; a    *)
(* request given up may still be served.                                     *)
(***************************************************************************)
EXTENDS SdpServer

CONSTANT MaxFaults   \* bound: timeouts and failures of the client's own calls

VARIABLES
  worker,       \* the goroutine of each participant: its step and its attempt
  peer,         \* the client's peer connections, by attempt
  connections,  \* the attempts whose connection is in the list
  faults        \* history: timeouts and local failures, as <<id, attempt, kind>>

clientVars == <<worker, peer, connections, faults>>

WorkerSteps == {"idle", "get", "describe", "post", "ice", "record", "failed", "done"}
NoPeer == [state |-> "none", offer |-> None, reader |-> "none"]

ClientInit ==
  /\ worker = [id \in Ids |-> [step |-> "idle", k |-> 0]]
  /\ peer = [a \in Attempts |-> NoPeer]
  /\ connections = {}
  /\ faults = {}

Now(id) == <<id, worker[id].k>>
\* The goroutines that hold a token of the semaphore.
Running == {id \in Ids : worker[id].step \notin {"idle", "done"}}

Go(id, step) == worker' = [worker EXCEPT ![id].step = step]
Opened(a, o) == peer' = [peer EXCEPT ![a].state = "open", ![a].offer = o]
Closed(a) == peer' = [peer EXCEPT ![a].state = "closed"]
Fault(f) == Cardinality(faults) < MaxFaults /\ faults' = faults \union {f}

-----------------------------------------------------------------------------
(* Connect. *)
Begin(id, k) ==
  /\ worker' = [worker EXCEPT ![id] = [step |-> "get", k |-> k]]
  /\ sdp' = [sdp EXCEPT ![<<id, k>>] = Request("sent", None)]

\* createPeerConnection, with its callbacks, when the offer has come.
OfferComes(id) ==
  /\ worker[id].step = "get"
  /\ \/ sdp[Now(id)].step = "ok" /\ Go(id, "describe") /\ Opened(Now(id), sdp[Now(id)].found)
     \/ sdp[Now(id)].step = "error" /\ Go(id, "failed") /\ UNCHANGED peer
  /\ UNCHANGED <<serverVars, connections, faults>>

OfferTimesOut(id) ==
  /\ worker[id].step = "get"
  /\ sdp' = [sdp EXCEPT ![Now(id)].awaited = FALSE]
  /\ Go(id, "failed")
  /\ Fault(<<id, worker[id].k, "sdp">>)
  /\ UNCHANGED <<test, mine, member, object, answer, spoiled, peer, connections>>

\* processSDP, and the request of sendAnswer.
Describe(id) ==
  /\ worker[id].step = "describe"
  /\ answer' = [answer EXCEPT ![Now(id)] = Request("sent", None)]
  /\ Go(id, "post")
  /\ UNCHANGED <<test, mine, member, object, sdp, spoiled, peer, connections, faults>>

DescribeFails(id) ==
  /\ worker[id].step = "describe"
  /\ Closed(Now(id))
  /\ Go(id, "failed")
  /\ Fault(<<id, worker[id].k, "describe">>)
  /\ UNCHANGED <<serverVars, connections>>

\* Variant: the peer connection stays open when the server refuses the answer.
AnswerRefusedPeerOpen(id) ==
  /\ worker[id].step = "post"
  /\ answer[Now(id)].step = "error"
  /\ Go(id, "failed")
  /\ UNCHANGED <<serverVars, peer, connections, faults>>

AnswerRefused(id) ==
  /\ worker[id].step = "post"
  /\ answer[Now(id)].step = "error"
  /\ Closed(Now(id))
  /\ Go(id, "failed")
  /\ UNCHANGED <<serverVars, connections, faults>>

AnswerTaken(id) ==
  /\ worker[id].step = "post"
  /\ answer[Now(id)].step = "ok"
  /\ Go(id, "ice")
  /\ UNCHANGED <<serverVars, peer, connections, faults>>

\* Variant: no reply is no error.
AnswerTimesOutUnnoticed(id) ==
  /\ worker[id].step = "post"
  /\ answer' = [answer EXCEPT ![Now(id)].awaited = FALSE]
  /\ Go(id, "ice")
  /\ Fault(<<id, worker[id].k, "answer">>)
  /\ UNCHANGED <<test, mine, member, object, sdp, spoiled, peer, connections>>

AnswerTimesOut(id) ==
  /\ worker[id].step = "post"
  /\ answer' = [answer EXCEPT ![Now(id)].awaited = FALSE]
  /\ Closed(Now(id))
  /\ Go(id, "failed")
  /\ Fault(<<id, worker[id].k, "answer">>)
  /\ UNCHANGED <<test, mine, member, object, sdp, spoiled, connections>>

\* Connected or not: the timeout is no error.
ConnectReturns(id) ==
  /\ worker[id].step = "ice"
  /\ Go(id, "record")
  /\ UNCHANGED <<serverVars, peer, connections, faults>>

\* The caller's goroutine appends the connection and gives its token back.
Record(id) ==
  /\ worker[id].step = "record"
  /\ connections' = connections \union {Now(id)}
  /\ Go(id, "done")
  /\ UNCHANGED <<serverVars, peer, faults>>

-----------------------------------------------------------------------------
(* What the peer connection reports.  The Connected flag that goes up and down   *)
(* with the ICE state is only counted, and left out.                           *)

\* setupTrackHandler, once the participant sends: a loop that waits in ReadRTP,
\* which ends when the peer connection is closed.
TrackArrives(a) ==
  /\ peer[a].state = "open" /\ peer[a].reader = "none"
  /\ Linked(<<a[1], peer[a].offer>>, a)
  /\ peer' = [peer EXCEPT ![a].reader = "reading"]
  /\ UNCHANGED <<serverVars, worker, connections, faults>>

ReaderEnds(a) ==
  /\ peer[a].state = "closed" /\ peer[a].reader = "reading"
  /\ peer' = [peer EXCEPT ![a].reader = "ended"]
  /\ UNCHANGED <<serverVars, worker, connections, faults>>

ConnectStep(id) ==
  \/ OfferComes(id) \/ Describe(id) \/ AnswerRefused(id) \/ AnswerTaken(id)
  \/ ConnectReturns(id) \/ Record(id)

ConnectFault(id) == OfferTimesOut(id) \/ DescribeFails(id) \/ AnswerTimesOut(id)

PeerEvent(a) == TrackArrives(a) \/ ReaderEnds(a)
=============================================================================
