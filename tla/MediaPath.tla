-------------------------------- MODULE MediaPath --------------------------------
(***************************************************************************)
(* One participant's media from the source to a UDP receiver: the streaming *)
(* loops of StreamSender, then either straight to the receiver's port or     *)
(* through RelayChain, then client/udp or examples/udp_receiver.go.          *)
(***************************************************************************)
EXTENDS RelayChain

VARIABLES
  route,       \* "direct" | "relay": where the server was told to send to
  program,     \* "client" | "example": the receiver that holds the port
  stats,       \* what the receiver shows
  rx           \* the example's RTPMetrics, one for all streams

receiverVars == <<route, program, stats, rx>>
vars == <<senderVars, relayVars, receiverVars>>

NewStats == [total |-> 0, video |-> 0, audio |-> 0, other |-> 0, participants |-> {}]

Init ==
  /\ \E setup \in Setups : SenderInit(setup) /\ route = setup.route /\ program = setup.program
  /\ RelayInit
  /\ stats = NewStats
  /\ rx = NewRTPMetrics

-----------------------------------------------------------------------------
(* The receivers. *)
RecordPacket(s, p) ==
  [s EXCEPT !.participants = IF p.id > 0 THEN @ \union {p.id} ELSE @,
            !.video = IF p.header.pt = VideoType THEN @ + 1 ELSE @,
            !.audio = IF p.header.pt = AudioType THEN @ + 1 ELSE @,
            !.other = IF p.header.pt \notin {VideoType, AudioType} THEN @ + 1 ELSE @]

Counted(s) == [s EXCEPT !.total = @ + 1]

\* ReceivePackets of client/udp counts what it can parse.
ReceivePackets(d) ==
  /\ program = "client"
  /\ stats' = IF ParseFails(d) THEN stats ELSE Counted(RecordPacket(stats, ClientParse(d)))
  /\ UNCHANGED rx

\* The example counts every datagram, and keeps metrics of the video packets.
ExampleReceives(d) ==
  /\ program = "example"
  /\ stats' = IF UnmarshalFails(d) THEN Counted(stats) ELSE Counted(RecordPacket(stats, Unmarshal(d)))
  /\ rx' = IF ~UnmarshalFails(d) /\ d.header.pt = VideoType
             THEN RecordPacketReceived(rx, d.header.seq) ELSE rx

Receive ==
  \E d \in downlink :
    /\ downlink' = downlink \ {d}
    /\ ReceivePackets(Truncate(d, Buffer)) \/ ExampleReceives(Truncate(d, Buffer))
    /\ UNCHANGED <<senderVars, route, program, generation, alive, clients, stream, relay>>

-----------------------------------------------------------------------------
(* The networks. *)
Arrive ==
  /\ route = "direct"
  /\ \E d \in wire : wire' = wire \ {d} /\ downlink' = Delivered(d)
  /\ UNCHANGED <<kind, source, spikes, room, active, socket, loop, metrics, frameCount, emitted,
                 generation, alive, clients, stream, relay, receiverVars>>

Lose ==
  /\ \/ \E d \in wire : wire' = wire \ {d} /\ UNCHANGED downlink
     \/ \E d \in downlink : downlink' = downlink \ {d} /\ UNCHANGED wire
  /\ UNCHANGED <<kind, source, spikes, room, active, socket, loop, metrics, frameCount, emitted,
                 generation, alive, clients, stream, relay, receiverVars>>

Relayed ==
  /\ route = "relay"
  /\ RelayNext
  /\ UNCHANGED <<kind, source, spikes, room, active, socket, loop, metrics, frameCount, emitted, receiverVars>>

Sender == SenderNext /\ UNCHANGED <<relayVars, receiverVars>>

Next == Sender \/ Arrive \/ Relayed \/ Lose \/ Receive

\* Only the relay has to make progress, where there is one: the pod accepts, and the
\* local relay dials, once the pod answers at all, wakes up and reads.
Fairness ==
  /\ WF_<<relayVars, wire>>(route = "relay" /\ Accept)
  /\ SF_<<relayVars, wire>>(route = "relay" /\ Dial)
  /\ WF_<<relayVars, wire>>(route = "relay" /\ Wake)
  /\ WF_<<relayVars, wire>>(route = "relay" /\ (ReadLength \/ ReadPayload \/ ReadFails))

Spec == Init /\ [][Next]_vars /\ Fairness

-----------------------------------------------------------------------------
(* Properties. *)

\* Types: indices and counters stay in range, and a loop in its batch.
TypeOK ==
  /\ active \in BOOLEAN /\ socket \in {"open", "closed"}
  /\ \A t \in Tracks :
       /\ loop[t].mode \in {"off", "file", "synthetic"}
       /\ loop[t].seq \in 0..(SequenceSpace - 1)
       /\ loop[t].next \in 1..(Len(loop[t].batch) + 1)
       /\ loop[t].counted => loop[t].batch # <<>>
  /\ clients \subseteq 1..generation
  /\ relay.pc \in {"dialling", "sleeping", "length", "payload"} /\ relay.length \in Nat
  /\ Len(stream) <= 2 * StreamRoom + 1
  /\ rx.receivedSeqNums \subseteq 0..(SequenceSpace - 1)

\* The counters of a UDP participant add up although both loops share them, Stop
\* closes the socket inside a frame and spikes drop some: what was counted as sent
\* was written, counted as lost, or is in a loop's hand.
Accounted ==
  kind = "udp" =>
    metrics.packetsSent =
      metrics.packetsLost + Cardinality(emitted) + Cardinality({t \in Tracks : loop[t].counted})

\* Whatever the size of the unit, the frame being sent can be put together again:
\* its fragments join without gap or overlap, carry its timestamp, the marker on
\* the last, and the sequence numbers that follow the previous frame's; and no
\* packet is larger than the MTU and the header extension.
WholeFrames ==
  LET v == loop["video"]
  IN v.batch # <<>> =>
       /\ Reassembles(v.batch, v.size)
       /\ InOneFrame(v.batch, v.produced - Len(v.batch), v.ts - 1)
       /\ \A i \in DOMAIN v.batch :
            Marshal(v.batch[i]).len <= MTU + IF kind = "udp" THEN 8 ELSE FixedHeader

\* What reaches the receiver's socket is a datagram the participant wrote, at most
\* cut to a receive buffer: connections that break between or inside the length and
\* the payload never join the parts of two.
RelayNeverMixes ==
  downlink \subseteq emitted \union {Truncate(d, Buffer) : d \in emitted}

\* Up to the first wrap the loss the receiver shows for one stream is never below
\* zero nor above what the stream really lost, in whatever order packets arrive, but
\* for SequenceSpace more with every late packet it takes for a wrap; and it takes
\* none for one before the numbers have come near the end.
LossEstimateSound ==
  LET sent == loop["video"].produced IN
  sent <= SequenceSpace =>
    /\ sent <= HighSeq => rx.seqWrap = 0
    /\ GetPacketLossFromSequence(rx) - rx.seqWrap * SequenceSpace
         \in 0..(sent - Cardinality(rx.receivedSeqNums))

\* After a break the local relay is connected again and among the pod's clients;
\* what excuses it is only a break of the last connection the bound allows.
RelayRecovers ==
  (route = "relay" /\ ~alive) ~>
    \/ alive /\ generation \in clients
    \/ ~alive /\ generation = MaxConnections
=============================================================================
