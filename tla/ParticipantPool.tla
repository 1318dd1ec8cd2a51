---------------------------- MODULE ParticipantPool ----------------------------
(***************************************************************************)
(* internal/pool: who is streaming.  The pool of one test session with its  *)
(* UDP participants (all of them added before the session is visible) and   *)
(* its WebRTC participants (added and replaced by SDP requests at any       *)
(* time), the Start goroutines, the stop handlers and the SDP and answer    *)
(* handlers of internal/server that drive it.  Handlers run concurrently;   *)
(* a step is what happens between two points where another goroutine can    *)
(* be seen: a mutex section, an atomic flag, one participant's Start.       *)
(***************************************************************************)
EXTENDS Naturals, FiniteSets

CONSTANTS
  Ids,        \* participant ids of this partition
  Starters,   \* bound: start requests, each with its Pool.Start goroutine
  Stoppers,   \* bound: stop requests
  MaxRequests \* bound: SDP requests; each creates at most one WebRTC participant

ASSUME PoolAssumption ==
  /\ Ids # {}
  /\ IsFiniteSet(Starters)
  /\ MaxRequests \in Nat

\* SDP requests, numbered as they arrive, and the absence of one.
Requests == 1..MaxRequests
None == 0

VARIABLES
  state,      \* session.State
  running,    \* pp.running
  udp,        \* pp.participants: streaming flag, socket, live stream loops
  members,    \* pp.webrtcParticipants: id -> the request that created it, or None
  webrtc,     \* the WebRTC participants, named by the request that created them
  starter,    \* where each start request and its goroutine stand
  stopper,    \* where each stop request stands
  request,    \* where each SDP request stands
  overlap     \* history: a start was under way since the last stop began

vars == <<state, running, udp, members, webrtc, starter, stopper, request, overlap>>

AnyId == CHOOSE id \in Ids : TRUE   \* of no meaning before a request arrives

States == {"created", "running", "stopped"}
StarterPcs == {"idle", "launched", "udp", "webrtc", "done"}
StopperPcs == {"idle", "udp", "webrtc", "state", "done"}
RequestPcs == {"idle", "lookup", "check", "remove", "create", "start", "offer",
               "offered", "done"}

\* peer: none before NewParticipant, then new (an offer may be out), answered
\* (a remote description is set) or closed.
Peers == {"none", "new", "answered", "closed"}

Init ==
  /\ state = "created"
  /\ running = FALSE
  /\ udp = [id \in Ids |-> [active |-> FALSE, open |-> TRUE, loops |-> 0]]
  /\ members = [id \in Ids |-> None]
  /\ webrtc = [r \in Requests |-> [active |-> FALSE, peer |-> "none", loops |-> 0]]
  /\ starter = [s \in Starters |-> [pc |-> "idle", ids |-> {}, objects |-> {}]]
  /\ stopper = [t \in Stoppers |-> "idle"]
  /\ request = [r \in Requests |-> [pc |-> "idle", id |-> AnyId, found |-> None]]
  /\ overlap = FALSE

Members == {members[id] : id \in Ids} \ {None}

(* A Start of a participant is under way or still to come. *)
Starting ==
  \/ \E s \in Starters : starter[s].pc \in {"launched", "udp", "webrtc"}
  \/ \E r \in Requests : request[r].pc = "start"

-----------------------------------------------------------------------------
(* handleStartTest: no look at the state; Pool.Start is left to a goroutine. *)
handleStartTest(s) ==
  /\ starter[s].pc = "idle"
  /\ starter' = [starter EXCEPT ![s].pc = "launched"]
  /\ state' = "running"
  /\ overlap' = TRUE
  /\ UNCHANGED <<running, udp, members, webrtc, stopper, request>>

(* ParticipantPool.Start: the flag, then the UDP participants one by one... *)
StartSetRunning(s) ==
  /\ starter[s].pc = "launched"
  /\ starter' = [starter EXCEPT ![s] = [pc |-> "udp", ids |-> Ids, objects |-> {}]]
  /\ running' = TRUE
  /\ UNCHANGED <<state, udp, members, webrtc, stopper, request, overlap>>

StartUdp(s, id) ==
  /\ starter[s].pc = "udp"
  /\ id \in starter[s].ids
  /\ starter' = [starter EXCEPT ![s].ids = @ \ {id}]
  /\ udp' = [udp EXCEPT ![id] = [active |-> TRUE, open |-> @.open, loops |-> @.loops + 1]]
  /\ UNCHANGED <<state, running, members, webrtc, stopper, request, overlap>>

(* ...then a snapshot of the WebRTC members, started outside the lock. *)
StartSnapshot(s) ==
  /\ starter[s].pc = "udp"
  /\ starter[s].ids = {}
  /\ starter' = [starter EXCEPT ![s] = [pc |-> "webrtc", ids |-> {}, objects |-> Members]]
  /\ UNCHANGED <<state, running, udp, members, webrtc, stopper, request, overlap>>

StartObject(o) ==
  webrtc' = [webrtc EXCEPT ![o] = [active |-> TRUE, peer |-> @.peer, loops |-> @.loops + 1]]

StartWebrtc(s, o) ==
  /\ starter[s].pc = "webrtc"
  /\ o \in starter[s].objects
  /\ starter' = [starter EXCEPT ![s].objects = @ \ {o}]
  /\ StartObject(o)
  /\ UNCHANGED <<state, running, udp, members, stopper, request, overlap>>

StartReturns(s) ==
  /\ starter[s].pc = "webrtc"
  /\ starter[s].objects = {}
  /\ starter' = [starter EXCEPT ![s].pc = "done"]
  /\ UNCHANGED <<state, running, udp, members, webrtc, stopper, request, overlap>>

-----------------------------------------------------------------------------
(* handleStopTest and ParticipantPool.Stop. *)
handleStopTest(t) ==
  /\ stopper[t] = "idle"
  /\ stopper' = [stopper EXCEPT ![t] = "udp"]
  /\ running' = FALSE
  /\ overlap' = Starting
  /\ UNCHANGED <<state, udp, members, webrtc, starter, request>>

(* The walk is one step: a start that goes on beside it comes, for each       *)
(* participant, before it or after it in either case.  The socket is closed   *)
(* for good: SetupUDP is not called again.                                    *)
StopUdp(t) ==
  /\ stopper[t] = "udp"
  /\ stopper' = [stopper EXCEPT ![t] = "webrtc"]
  /\ udp' = [id \in Ids |-> [active |-> FALSE, open |-> FALSE, loops |-> udp[id].loops]]
  /\ UNCHANGED <<state, running, members, webrtc, starter, request, overlap>>

(* Variant: only the UDP participants are stopped. *)
StopWebrtcForgotten(t) ==
  /\ stopper[t] = "webrtc"
  /\ stopper' = [stopper EXCEPT ![t] = "state"]
  /\ UNCHANGED <<state, running, udp, members, webrtc, starter, request, overlap>>

StopWebrtc(t) ==
  /\ stopper[t] = "webrtc"
  /\ stopper' = [stopper EXCEPT ![t] = "state"]
  /\ webrtc' = [o \in Requests |->
       IF o \in Members THEN [webrtc[o] EXCEPT !.active = FALSE] ELSE webrtc[o]]
  /\ UNCHANGED <<state, running, udp, members, starter, request, overlap>>

StopReturns(t) ==
  /\ stopper[t] = "state"
  /\ stopper' = [stopper EXCEPT ![t] = "done"]
  /\ state' = "stopped"
  /\ UNCHANGED <<running, udp, members, webrtc, starter, request, overlap>>

-----------------------------------------------------------------------------
(* handleGetSDP. *)

\* A request that is over holds no participant any more.
RequestStep(r, from, to) ==
  /\ request[r].pc = from
  /\ request' = [request EXCEPT ![r] =
       [pc |-> to, id |-> @.id, found |-> IF to = "done" THEN None ELSE @.found]]

(* A stopped session is refused (400) and the request is not one of these. *)
handleGetSDP(r, id) ==
  /\ request[r].pc = "idle"
  /\ \A earlier \in 1..(r - 1) : request[earlier].pc # "idle"
  /\ state # "stopped"
  /\ request' = [request EXCEPT ![r] = [pc |-> "lookup", id |-> id, found |-> None]]
  /\ UNCHANGED <<state, running, udp, members, webrtc, starter, stopper, overlap>>

GetWebRTCParticipant(r) ==
  LET found == members[request[r].id]
  IN /\ request[r].pc = "lookup"
     /\ request' = [request EXCEPT ![r] =
          [pc |-> IF found = None THEN "create" ELSE "check", id |-> @.id, found |-> found]]
     /\ UNCHANGED <<state, running, udp, members, webrtc, starter, stopper, overlap>>

NeedsRecreation(o) == webrtc[o].peer \in {"answered", "closed"}

KeepParticipant(r) ==
  /\ RequestStep(r, "check", "offer")
  /\ ~NeedsRecreation(request[r].found)
  /\ UNCHANGED <<state, running, udp, members, webrtc, starter, stopper, overlap>>

CloseParticipant(r) ==
  /\ RequestStep(r, "check", "remove")
  /\ NeedsRecreation(request[r].found)
  /\ webrtc' = [webrtc EXCEPT ![request[r].found] =
       [active |-> FALSE, peer |-> "closed", loops |-> @.loops]]
  /\ UNCHANGED <<state, running, udp, members, starter, stopper, overlap>>

(* By id: whoever is the member by now. *)
RemoveWebRTCParticipant(r) ==
  /\ RequestStep(r, "remove", "create")
  /\ members' = [members EXCEPT ![request[r].id] = None]
  /\ UNCHANGED <<state, running, udp, webrtc, starter, stopper, overlap>>

CreateFails(r) ==
  /\ RequestStep(r, "create", "done")
  /\ UNCHANGED <<state, running, udp, members, webrtc, starter, stopper, overlap>>

(* Variant: the running flag is read before the lock, on the way from lookup. *)
AddReadingRunningFirst(r) ==
  /\ request[r].pc = "create"
  /\ request' = [request EXCEPT ![r] = [pc |-> "offer", id |-> @.id, found |-> r]]
  /\ members' = [members EXCEPT ![request[r].id] = r]
  /\ webrtc' = [webrtc EXCEPT ![r].peer = "new"]
  /\ UNCHANGED <<state, running, udp, starter, stopper, overlap>>

(* Variant: the participant is started under the lock and once more after it. *)
AddStartingTwice(r) ==
  /\ request[r].pc = "create"
  /\ request' = [request EXCEPT ![r] =
       [pc |-> IF running THEN "start" ELSE "offer", id |-> @.id, found |-> r]]
  /\ members' = [members EXCEPT ![request[r].id] = r]
  /\ webrtc' = [webrtc EXCEPT ![r] = [active |-> running, peer |-> "new",
                                      loops |-> IF running THEN 1 ELSE 0]]
  /\ UNCHANGED <<state, running, udp, starter, stopper, overlap>>

(* NewParticipant, then AddWebRTCParticipant: insert and read running under   *)
(* one lock; the Start it may call for comes after the unlock.                *)
AddWebRTCParticipant(r) ==
  /\ request[r].pc = "create"
  /\ request' = [request EXCEPT ![r] =
       [pc |-> IF running THEN "start" ELSE "offer", id |-> @.id, found |-> r]]
  /\ members' = [members EXCEPT ![request[r].id] = r]
  /\ webrtc' = [webrtc EXCEPT ![r].peer = "new"]
  /\ UNCHANGED <<state, running, udp, starter, stopper, overlap>>

StartAdded(r) ==
  /\ RequestStep(r, "start", "offer")
  /\ StartObject(r)
  /\ UNCHANGED <<state, running, udp, members, starter, stopper, overlap>>

(* CreateOffer fails on a closed peer connection (500). *)
CreateOffer(r) ==
  /\ RequestStep(r, "offer",
       IF webrtc[request[r].found].peer = "closed" THEN "done" ELSE "offered")
  /\ UNCHANGED <<state, running, udp, members, webrtc, starter, stopper, overlap>>

(* handleSetAnswer: the answer goes to the member of that id by now, which    *)
(* takes it only while its own offer is unanswered.                           *)
handleSetAnswer(r) ==
  LET o == members[request[r].id]
  IN /\ RequestStep(r, "offered", "done")
     /\ webrtc' = IF o # None /\ webrtc[o].peer = "new"
                  THEN [webrtc EXCEPT ![o].peer = "answered"] ELSE webrtc
     /\ UNCHANGED <<state, running, udp, members, starter, stopper, overlap>>

-----------------------------------------------------------------------------
(* Variant: a video loop that hands over to a frame loop is counted out twice. *)
UdpLoopExitsTwice(id) ==
  /\ ~udp[id].active
  /\ udp[id].loops > 0
  /\ udp' = [udp EXCEPT ![id].loops = @ - 2]
  /\ UNCHANGED <<state, running, members, webrtc, starter, stopper, request, overlap>>

(* A stream loop looks at its participant's flag at every tick. *)
UdpLoopExits(id) ==
  /\ ~udp[id].active
  /\ udp[id].loops > 0
  /\ udp' = [udp EXCEPT ![id].loops = @ - 1]
  /\ UNCHANGED <<state, running, members, webrtc, starter, stopper, request, overlap>>

WebrtcLoopExits(o) ==
  /\ ~webrtc[o].active
  /\ webrtc[o].loops > 0
  /\ webrtc' = [webrtc EXCEPT ![o].loops = @ - 1]
  /\ UNCHANGED <<state, running, udp, members, starter, stopper, request, overlap>>

StarterNext(s) ==
  \/ StartSetRunning(s)
  \/ \E id \in Ids : StartUdp(s, id)
  \/ StartSnapshot(s)
  \/ \E o \in Requests : StartWebrtc(s, o)
  \/ StartReturns(s)

StopperNext(t) == StopUdp(t) \/ StopWebrtc(t) \/ StopReturns(t)

RequestNext(r) ==
  \/ GetWebRTCParticipant(r)
  \/ KeepParticipant(r)
  \/ CloseParticipant(r)
  \/ RemoveWebRTCParticipant(r)
  \/ CreateFails(r)
  \/ AddWebRTCParticipant(r)
  \/ StartAdded(r)
  \/ CreateOffer(r)

Next ==
  \/ \E s \in Starters : handleStartTest(s) \/ StarterNext(s)
  \/ \E t \in Stoppers : handleStopTest(t) \/ StopperNext(t)
  \/ \E r \in Requests :
       (\E id \in Ids : handleGetSDP(r, id)) \/ RequestNext(r) \/ handleSetAnswer(r)
  \/ \E id \in Ids : UdpLoopExits(id)
  \/ \E o \in Requests : WebrtcLoopExits(o)

(* Tickers tick: a loop that may end looks at its flag again.  Nothing else    *)
(* has to happen: a client need not call, and a handler may be slow.           *)
Fairness ==
  /\ \A id \in Ids : WF_vars(UdpLoopExits(id))
  /\ \A o \in Requests : WF_vars(WebrtcLoopExits(o))

Spec == Init /\ [][Next]_vars
FairSpec == Spec /\ Fairness

-----------------------------------------------------------------------------
TypeOK ==
  /\ state \in States
  /\ running \in BOOLEAN
  /\ udp \in [Ids -> [active : BOOLEAN, open : BOOLEAN, loops : Nat]]
  /\ members \in [Ids -> Requests \cup {None}]
  /\ webrtc \in [Requests -> [active : BOOLEAN, peer : Peers, loops : Nat]]
  /\ starter \in [Starters -> [pc : StarterPcs, ids : SUBSET Ids, objects : SUBSET Requests]]
  /\ stopper \in [Stoppers -> StopperPcs]
  /\ request \in [Requests -> [pc : RequestPcs, id : Ids,
                               found : Requests \cup {None}]]
  /\ overlap \in BOOLEAN

(* The start that o needs is still to come. *)
WillStart(o) ==
  \/ request[o].pc = "start"
  \/ \E s \in Starters : \/ starter[s].pc = "udp"
                         \/ starter[s].pc = "webrtc" /\ o \in starter[s].objects

BeingReplaced(id) == \E r \in Requests : request[r].pc = "remove" /\ request[r].id = id

StopUnderWay == \E t \in Stoppers : stopper[t] \in {"udp", "webrtc"}

NeverStopped == \A t \in Stoppers : stopper[t] = "idle"

(* No WebRTC participant is missed by the start of the test: whatever joins   *)
(* before, during or after Pool.Start streams, is about to be started, or is  *)
(* being replaced (participant.go:108-119 against 144-173).                   *)
NoMemberMissed ==
  running /\ NeverStopped =>
    \A id \in Ids :
      members[id] # None =>
        webrtc[members[id]].active \/ WillStart(members[id]) \/ BeingReplaced(id)

(* A stop that no start overlapped silences every participant the pool knows, *)
(* whoever joins while it works (participant.go:175-193).                     *)
StopSilences ==
  ~NeverStopped /\ ~StopUnderWay /\ ~overlap =>
    /\ \A id \in Ids : ~udp[id].active
    /\ \A o \in Members : ~webrtc[o].active

StartsAsked == {s \in Starters : starter[s].pc # "idle"}

(* A participant has at most one stream loop per start of the test, a WebRTC  *)
(* participant one more from the request that added it: two loops advance the *)
(* same sequence numbers (streaming.go:87-134).                               *)
LoopsBounded ==
  /\ \A id \in Ids : udp[id].loops <= Cardinality(StartsAsked)
  /\ \A o \in Requests : webrtc[o].loops <= Cardinality(StartsAsked) + 1

(* Once a stop no start overlapped is over, every stream loop of the          *)
(* participants of the pool ends, unless the test is started again.           *)
StoppedLoopsEnd ==
  ~NeverStopped /\ ~StopUnderWay /\ ~overlap ~>
    \/ overlap
    \/ StopUnderWay
    \/ /\ \A id \in Ids : udp[id].loops = 0
       /\ \A o \in Members : webrtc[o].loops = 0

(* http.go:281 answers Stopped: true, and participant.go:192 logs how many    *)
(* participants were stopped: when every goroutine is through and the test is *)
(* "stopped", nobody streams.  A Start goroutine still to run when the stop   *)
(* comes starts everybody afterwards.                                         *)
StoppedTestIsSilent ==
  state = "stopped" /\ ~Starting /\ (\A t \in Stoppers : stopper[t] \in {"idle", "done"}) =>
    /\ \A id \in Ids : ~udp[id].active
    /\ \A o \in Requests : ~webrtc[o].active
=============================================================================
