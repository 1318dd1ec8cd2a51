---------------------------- MODULE ParticipantSpikes ----------------------------
(***************************************************************************)
(* The spikes the participants of a test apply to their own streams:        *)
(* ParticipantPool.InjectSpike and the AddSpike and RemoveSpike of the UDP  *)
(* (internal/pool) and WebRTC (internal/webrtc) participants.  A UDP        *)
(* participant starts a goroutine that removes a spike when its duration is *)
(* over; the video configuration is one object, shared by every UDP         *)
(* participant of the test.                                                 *)
(***************************************************************************)
EXTENDS Naturals

CONSTANTS
  UdpIds,      \* ids of the UDP participants, fixed when the test is created
  WebrtcIds,   \* ids WebRTC participants join under
  Events,      \* the spike events: [id, type, targets, timed, bitrate]
  InitialBitrate,
  MaxInjects,  \* bound: calls of InjectSpike
  MaxJoins     \* bound: WebRTC participants that join or are replaced

Ids == UdpIds \cup WebrtcIds
SpikeIds == {e.id : e \in Events}

\* A bitrate_reduce that gives new_bitrate_kbps (bitrate is what it reads as),
\* and any other spike.
SpikeTypes == {"bitrate_reduce", "other"}

ASSUME EventsAssumption ==
  /\ Events # {}
  /\ \A e \in Events : /\ e.type \in SpikeTypes
                       /\ e.targets \subseteq Ids
                       /\ e.timed \in BOOLEAN
                       /\ e.bitrate \in Nat
  /\ InitialBitrate \in Nat
  /\ MaxInjects \in Nat
  /\ MaxJoins \in Nat

\* handleGetSDP makes a WebRTC participant only for the id of a UDP one.
ASSUME TwinAssumption == WebrtcIds \subseteq UdpIds

VARIABLES
  calls,         \* the calls of InjectSpike, numbered as they come
  udpSpikes,     \* activeSpikes of each UDP participant: id -> call, or NoCall
  webrtcSpikes,  \* activeSpikes of each WebRTC participant
  joined,        \* the WebRTC participants in the pool
  bitrate,       \* BitrateKbps of the shared configuration
  timers,        \* goroutines asleep for a UDP participant and a call
  joins          \* WebRTC participants that joined so far

vars == <<calls, udpSpikes, webrtcSpikes, joined, bitrate, timers, joins>>

Calls == 1..MaxInjects
NoCall == 0
NoSpikes == [s \in SpikeIds |-> NoCall]
CallPcs == {"idle", "udp", "webrtc", "done"}

NoneLeft == [p \in Ids |-> 0]

\* left: how often the walk a call is in has still to visit each participant.
IdleCall == [pc |-> "idle", event |-> CHOOSE e \in Events : TRUE, targets |-> {}, left |-> NoneLeft]

Init ==
  /\ calls = [n \in Calls |-> IdleCall]
  /\ udpSpikes = [p \in UdpIds |-> NoSpikes]
  /\ webrtcSpikes = [p \in WebrtcIds |-> NoSpikes]
  /\ joined = {}
  /\ bitrate = InitialBitrate
  /\ timers = [p \in UdpIds |-> [n \in Calls |-> 0]]
  /\ joins = 0

-----------------------------------------------------------------------------
(* A call holds the read lock of the WebRTC map while it walks it. *)
Walking == \E n \in Calls : calls[n].pc = "webrtc"

(* A WebRTC participant joins, and may take the place of one of that id: it is *)
(* a new object without spikes.                                                *)
Join(p) ==
  /\ ~Walking
  /\ joins < MaxJoins
  /\ joined' = joined \cup {p}
  /\ webrtcSpikes' = [webrtcSpikes EXCEPT ![p] = NoSpikes]
  /\ joins' = joins + 1
  /\ UNCHANGED <<calls, udpSpikes, bitrate, timers>>

(* One that needs recreation is taken out first. *)
Leave(p) ==
  /\ ~Walking
  /\ p \in joined
  /\ joined' = joined \ {p}
  /\ webrtcSpikes' = [webrtcSpikes EXCEPT ![p] = NoSpikes]
  /\ UNCHANGED <<calls, udpSpikes, bitrate, timers, joins>>

\* Variant: the ids of the WebRTC map take the place of those of the UDP map.
TargetsOneMap(e) == IF e.targets = {} THEN joined ELSE e.targets

\* Without targets the spike is for the ids of both maps as they are now.
Targets(e) == IF e.targets = {} THEN UdpIds \cup joined ELSE e.targets

(* InjectSpike.  An id in both maps is listed twice. *)
InjectSpike(n, e) ==
  LET all == e.targets = {}
      targets == Targets(e)
  IN /\ calls[n].pc = "idle"
     /\ \A m \in 1..(n - 1) : calls[m].pc # "idle"
     /\ calls' = [calls EXCEPT ![n] =
          [pc |-> "udp", event |-> e, targets |-> targets,
           left |-> [p \in Ids |-> IF p \notin targets \cap UdpIds THEN 0
                                   ELSE IF all /\ p \in joined THEN 2 ELSE 1]]]
     /\ UNCHANGED <<udpSpikes, webrtcSpikes, joined, bitrate, timers, joins>>

\* A call goes on: its event and targets stay what they are.
CallAt(n, pc, left) ==
  [calls EXCEPT ![n] = [pc |-> pc, event |-> @.event, targets |-> @.targets, left |-> left]]

\* Its walk visits p.
Visit(n, p) ==
  /\ calls[n].left[p] > 0
  /\ calls' = CallAt(n, calls[n].pc, [calls[n].left EXCEPT ![p] = calls[n].left[p] - 1])

Put(spikes, p, n) == [spikes EXCEPT ![p] = [spikes[p] EXCEPT ![calls[n].event.id] = n]]

SetsBitrate(e) == e.type = "bitrate_reduce"

(* Variant: a goroutine is started only for a spike id that is new here. *)
AddToUdpOneTimerPerId(n, p) ==
  LET e == calls[n].event
  IN /\ calls[n].pc = "udp"
     /\ Visit(n, p)
     /\ udpSpikes' = Put(udpSpikes, p, n)
     /\ bitrate' = IF SetsBitrate(e) THEN e.bitrate ELSE bitrate
     /\ timers' = IF e.timed /\ udpSpikes[p][e.id] = NoCall
                    THEN [timers EXCEPT ![p] = [timers[p] EXCEPT ![n] = timers[p][n] + 1]]
                    ELSE timers
     /\ UNCHANGED <<webrtcSpikes, joined, joins>>

(* AddSpike of a UDP participant; the bitrate it sets is everybody's. *)
AddToUdp(n, p) ==
  LET e == calls[n].event
  IN /\ calls[n].pc = "udp"
     /\ Visit(n, p)
     /\ udpSpikes' = Put(udpSpikes, p, n)
     /\ bitrate' = IF SetsBitrate(e) THEN e.bitrate ELSE bitrate
     /\ timers' = IF e.timed
                    THEN [timers EXCEPT ![p] = [timers[p] EXCEPT ![n] = timers[p][n] + 1]]
                    ELSE timers
     /\ UNCHANGED <<webrtcSpikes, joined, joins>>

(* Variant: the WebRTC map is walked without a look at the targets. *)
WalkWebrtcAll(n) ==
  /\ calls[n].pc = "udp"
  /\ calls[n].left = NoneLeft
  /\ calls' = CallAt(n, "webrtc", [p \in Ids |-> IF p \in joined THEN 1 ELSE 0])
  /\ UNCHANGED <<udpSpikes, webrtcSpikes, joined, bitrate, timers, joins>>

(* Then the WebRTC map, with whoever has joined by now.  To put a spike on a  *)
(* participant twice is to put it there once.                                 *)
WalkWebrtc(n) ==
  /\ calls[n].pc = "udp"
  /\ calls[n].left = NoneLeft
  /\ calls' = CallAt(n, "webrtc", [p \in Ids |-> IF p \in calls[n].targets \cap joined
                                                   THEN 1 ELSE 0])
  /\ UNCHANGED <<udpSpikes, webrtcSpikes, joined, bitrate, timers, joins>>

(* No goroutine is started here. *)
AddToWebrtc(n, p) ==
  /\ calls[n].pc = "webrtc"
  /\ Visit(n, p)
  /\ webrtcSpikes' = Put(webrtcSpikes, p, n)
  /\ UNCHANGED <<udpSpikes, joined, bitrate, timers, joins>>

InjectReturns(n) ==
  /\ calls[n].pc = "webrtc"
  /\ calls[n].left = NoneLeft
  /\ calls' = CallAt(n, "done", NoneLeft)
  /\ UNCHANGED <<udpSpikes, webrtcSpikes, joined, bitrate, timers, joins>>

(* Variant: one goroutine wakes up for an id that was listed twice. *)
RemoveSpikeBoth(p, n) ==
  /\ timers[p][n] > 0
  /\ timers' = [timers EXCEPT ![p][n] = @ - 2]
  /\ udpSpikes' = [udpSpikes EXCEPT ![p][calls[n].event.id] = NoCall]
  /\ UNCHANGED <<calls, webrtcSpikes, joined, bitrate, joins>>

(* Variant: the goroutine deletes from the map it was given a copy of. *)
RemoveSpikeFromCopy(p, n) ==
  /\ timers[p][n] > 0
  /\ timers' = [timers EXCEPT ![p][n] = @ - 1]
  /\ UNCHANGED <<calls, udpSpikes, webrtcSpikes, joined, bitrate, joins>>

(* A goroutine wakes up and removes by id. *)
RemoveSpike(p, n) ==
  /\ timers[p][n] > 0
  /\ timers' = [timers EXCEPT ![p][n] = @ - 1]
  /\ udpSpikes' = [udpSpikes EXCEPT ![p][calls[n].event.id] = NoCall]
  /\ UNCHANGED <<calls, webrtcSpikes, joined, bitrate, joins>>

CallNext(n) ==
  \/ \E p \in UdpIds : AddToUdp(n, p)
  \/ WalkWebrtc(n)
  \/ \E p \in WebrtcIds : AddToWebrtc(n, p)
  \/ InjectReturns(n)

Next ==
  \/ \E n \in Calls : (\E e \in Events : InjectSpike(n, e)) \/ CallNext(n)
  \/ \E p \in UdpIds, n \in Calls : RemoveSpike(p, n)
  \/ \E p \in WebrtcIds : Join(p) \/ Leave(p)

(* Calls go on and sleeps end; nobody has to join, leave or inject. *)
Fairness ==
  /\ \A n \in Calls : WF_vars(CallNext(n))
  /\ \A p \in UdpIds, n \in Calls : WF_vars(RemoveSpike(p, n))

Spec == Init /\ [][Next]_vars
FairSpec == Spec /\ Fairness

-----------------------------------------------------------------------------
TypeOK ==
  /\ calls \in [Calls -> [pc : CallPcs, event : Events, targets : SUBSET Ids,
                          left : [Ids -> 0..2]]]
  /\ udpSpikes \in [UdpIds -> [SpikeIds -> Calls \cup {NoCall}]]
  /\ webrtcSpikes \in [WebrtcIds -> [SpikeIds -> Calls \cup {NoCall}]]
  /\ joined \subseteq WebrtcIds
  /\ bitrate \in Nat
  /\ timers \in [UdpIds -> [Calls -> Nat]]
  /\ joins \in 0..MaxJoins

(* A timed spike on a UDP participant has a goroutine of its own still asleep, *)
(* however its id was reused and whoever was listed twice                      *)
(* (virtual_participant.go:116-135, participant.go:195-222).                   *)
RemovalArmed ==
  \A p \in UdpIds, s \in SpikeIds :
    LET n == udpSpikes[p][s]
    IN n # NoCall /\ calls[n].event.timed => timers[p][n] > 0

(* A spike gets to just those it is meant for, whoever joins or takes an id    *)
(* over between the two halves of a call: nobody applies one that was for       *)
(* others, and when the walk over the WebRTC map is over, everybody in it the   *)
(* event is for has the spike, one who joined after the targets were listed     *)
(* included (participant.go:195-241).                                           *)
Meant(p, n) == calls[n].event.targets = {} \/ p \in calls[n].event.targets

OnlyTargets ==
  /\ \A p \in UdpIds, s \in SpikeIds : udpSpikes[p][s] # NoCall => Meant(p, udpSpikes[p][s])
  /\ \A p \in WebrtcIds, s \in SpikeIds :
       webrtcSpikes[p][s] # NoCall => Meant(p, webrtcSpikes[p][s])

AllTargets ==
  \A n \in Calls : calls[n].pc = "webrtc" /\ calls[n].left = NoneLeft =>
    \A p \in joined : Meant(p, n) => webrtcSpikes[p][calls[n].event.id] # NoCall

JustTargets == OnlyTargets /\ AllTargets

(* A timed spike is gone from a UDP participant, or injected anew, eventually. *)
UdpSpikeEnds ==
  \A p \in UdpIds, s \in SpikeIds, n \in Calls :
    (udpSpikes[p][s] = n /\ calls[n].event.timed) ~> udpSpikes[p][s] # n

-----------------------------------------------------------------------------
(* handlers.go:76 tells the client that a spike is "queued for %d seconds".    *)
(* Nothing ever removes it from a WebRTC participant.                          *)
WebrtcSpikeEnds ==
  \A p \in WebrtcIds, s \in SpikeIds, n \in Calls :
    (webrtcSpikes[p][s] = n /\ calls[n].event.timed) ~> webrtcSpikes[p][s] # n
=============================================================================
