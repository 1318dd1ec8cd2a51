------------------------------- MODULE SdpServer -------------------------------
(***************************************************************************)
(* The server's side of WebRTC signalling (internal/server/handlers.go,      *)
(* internal/webrtc/participant.go): GET /sdp makes or replaces a participant *)
(* and answers with its offer, POST /answer gives the participant the        *)
(* client's answer.  A request is served by a goroutine that does not look   *)
(* whether its client still waits, so a request given up is served late, or  *)
(* never.                                                                    *)
(***************************************************************************)
EXTENDS Integers, FiniteSetsExt

CONSTANTS
  Ids,     \* all participants of a test, this server's and other partitions'
  Tries    \* bound: connection attempts a client makes for a participant

ASSUME TriesAssumption == Tries \in Nat

\* An attempt <<id, k>> makes one SDP request and at most one answer request;
\* k = 0 is the probe of the discovery.
Attempts == Ids \X (0..Tries)
None == -1

VARIABLES
  test,      \* "unknown", "stopped", or "live": created or running
  mine,      \* the ids of session.Pool.participants: this partition's
  member,    \* pool.webrtcParticipants: the k of the attempt that made it, or None
  object,    \* the WebRTC participants, named by the attempts that made them
  sdp,       \* the SDP requests
  answer,    \* the answer requests
  spoiled    \* history: the attempts of a client, by id, during which a request of an
             \* earlier one was served, or a participant could not be made

serverVars == <<test, mine, member, object, sdp, answer, spoiled>>

SdpSteps == {"none", "sent", "close", "remove", "create", "offer", "ok", "error"}
AnswerSteps == {"none", "sent", "apply", "ok", "error"}
\* A local description, and the attempt whose answer is the remote one.
NoObject == [offered |-> FALSE, remote |-> None, closed |-> FALSE]
Request(step, found) == [step |-> step, found |-> found, awaited |-> TRUE]
Idle == Request("none", None)

ServerInit ==
  /\ member = [id \in Ids |-> None]
  /\ object = [a \in Attempts |-> NoObject]
  /\ sdp = [a \in Attempts |-> Idle]
  /\ answer = [a \in Attempts |-> Idle]
  /\ spoiled = [id \in Ids |-> {}]

\* Variant: a remote description is no reason.
NeedsRecreationIfClosed(o) == object[o].closed

\* A failed or disconnected peer connection, a reason of its own in the code, has a
\* remote description.
NeedsRecreation(o) == object[o].closed \/ object[o].remote # None

SdpStep(a, step, found) == sdp' = [sdp EXCEPT ![a].step = step, ![a].found = found]
AnswerStep(a, step, found) == answer' = [answer EXCEPT ![a].step = step, ![a].found = found]

\* The attempt the client is at: the last it made an SDP request in.
Latest(id) == Max({k \in 0..Tries : sdp[<<id, k>>].step # "none"})
Spoils(id) == spoiled' = [spoiled EXCEPT ![id] = @ \union {Latest(id)}]
Serves(a) == IF a[2] = Latest(a[1]) THEN UNCHANGED spoiled ELSE Spoils(a[1])

-----------------------------------------------------------------------------
(* handleGetSDP, between its looks at the map and at the participant. *)
SdpLookup(a) ==
  /\ sdp[a].step = "sent"
  /\ LET m == member[a[1]] IN
       SdpStep(a, IF test # "live" THEN "error"
                  ELSE IF m = None THEN "create"
                  ELSE IF NeedsRecreation(<<a[1], m>>) THEN "close" ELSE "offer", m)
  /\ Serves(a)
  /\ UNCHANGED <<test, mine, member, object, answer>>

SdpClose(a) ==
  /\ sdp[a].step = "close"
  /\ object' = [object EXCEPT ![<<a[1], sdp[a].found>>].closed = TRUE]
  /\ SdpStep(a, "remove", None)
  /\ Serves(a)
  /\ UNCHANGED <<test, mine, member, answer>>

\* RemoveWebRTCParticipant: by id.
SdpRemove(a) ==
  /\ sdp[a].step = "remove"
  /\ member' = [member EXCEPT ![a[1]] = None]
  /\ SdpStep(a, "create", None)
  /\ Serves(a)
  /\ UNCHANGED <<test, mine, object, answer>>

\* NewParticipant and AddWebRTCParticipant, whatever the map holds by now; what
\* was removed stays removed when there is no such participant, or none is made.
SdpCreate(a) ==
  /\ sdp[a].step = "create"
  /\ \/ /\ a[1] \in mine
        /\ member' = [member EXCEPT ![a[1]] = a[2]]
        /\ SdpStep(a, "offer", a[2]) /\ Serves(a)
     \/ a[1] \notin mine /\ SdpStep(a, "error", None) /\ Serves(a) /\ UNCHANGED member
     \/ a[1] \in mine /\ SdpStep(a, "error", None) /\ Spoils(a[1]) /\ UNCHANGED member
  /\ UNCHANGED <<test, mine, object, answer>>

\* CreateOffer: the offer made before, if there is one.
SdpOffer(a) ==
  /\ sdp[a].step = "offer"
  /\ LET o == <<a[1], sdp[a].found>> IN
       IF object[o].closed /\ ~object[o].offered
         THEN SdpStep(a, "error", None) /\ UNCHANGED object
         ELSE SdpStep(a, "ok", o[2]) /\ object' = [object EXCEPT ![o].offered = TRUE]
  /\ Serves(a)
  /\ UNCHANGED <<test, mine, member, answer>>

(* handleSetAnswer: no look at the state of the test. *)
AnswerLookup(a) ==
  /\ answer[a].step = "sent"
  /\ LET m == member[a[1]] IN
       AnswerStep(a, IF test = "unknown" \/ m = None THEN "error" ELSE "apply", m)
  /\ Serves(a)
  /\ UNCHANGED <<test, mine, member, object, sdp>>

\* SetRemoteAnswer: only an offer not yet answered takes an answer, anyone's.
SetRemoteAnswer(a) ==
  /\ answer[a].step = "apply"
  /\ LET o == <<a[1], answer[a].found>> IN
       IF object[o] = [offered |-> TRUE, remote |-> None, closed |-> FALSE]
         THEN /\ object' = [object EXCEPT ![o].remote = a[2]]
              /\ AnswerStep(a, "ok", o[2])
         ELSE AnswerStep(a, "error", o[2]) /\ UNCHANGED object
  /\ Serves(a)
  /\ UNCHANGED <<test, mine, member, sdp>>

ServeSdp(a) == SdpLookup(a) \/ SdpClose(a) \/ SdpRemove(a) \/ SdpCreate(a) \/ SdpOffer(a)
ServeAnswer(a) == AnswerLookup(a) \/ SetRemoteAnswer(a)

\* The participant's end of a connection: attempt a answered the offer of o.
Linked(o, a) == object[o].remote = a[2] /\ ~object[o].closed
=============================================================================
