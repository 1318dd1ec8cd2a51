------------------------------ MODULE StreamSender ------------------------------
(***************************************************************************)
(* The streaming loops of one started participant: runVideoLoop,            *)
(* runFrameLoop and runAudioLoop of internal/pool ("udp"), streamVideo and   *)
(* streamAudio of internal/webrtc ("webrtc").  A loop runs one tick after    *)
(* the other; within a tick each packet is counted, then dropped or written, *)
(* so that Stop, the other loop and a reader of the counters come between.   *)
(***************************************************************************)
EXTENDS RtpMetrics, MediaSource

CONSTANTS
  Setups,      \* what is explored: records of the next four variables and more
  Bitrates,    \* kbit/s a spike may set the shared VideoConfig to
  Fps,         \* frames a second of VideoConfig
  MinFrame, MaxFrame,     \* bounds of a synthetic frame, 1000 and 100000 in the code
  MaxTicks     \* bound: ticks of each loop, [video, audio]

ASSUME SenderAssumption ==
  /\ \A s \in Setups :
       /\ s.kind \in {"udp", "webrtc"}
       /\ s.source.video \in Seq(Nat) /\ s.source.audio \in Seq(Nat)
  /\ Bitrates \subseteq Int /\ Fps \in Nat \ {0}
  /\ MinFrame \in Nat /\ MaxFrame \in Nat

VARIABLES
  kind,        \* "udp" | "webrtc"
  source,      \* the media source the server came up with
  spikes,      \* types of the spikes that may be active at some time
  room,        \* datagrams the network holds before it drops
  active,      \* the atomic flag
  socket,      \* "open" | "closed": udpConn, or the peer connection
  loop,        \* the loop that sends video and the loop that sends audio
  metrics,     \* pkg/metrics; packetsSent is also the participant's own counter
  frameCount,
  wire,        \* datagrams in the network the participant writes to
  emitted      \* history: every packet written

senderVars == <<kind, source, spikes, room, active, socket, loop, metrics, frameCount, wire, emitted>>
Tracks == {"video", "audio"}
Id == 1

\* batch is the frame of size bytes being sent, next the packet whose turn it is,
\* counted whether packetsSent includes it; produced and ticks are history.
IdleLoop ==
  [mode |-> "off", idx |-> 0, seq |-> 0, ts |-> 0, batch |-> <<>>, next |-> 1,
   counted |-> FALSE, size |-> 0, produced |-> 0, ticks |-> 0]

SenderInit(setup) ==
  /\ kind = setup.kind
  /\ source = setup.source
  /\ spikes = setup.spikes
  /\ room = setup.room
  /\ active = FALSE
  /\ socket = "open"
  /\ loop = [t \in Tracks |-> IdleLoop]
  /\ metrics = NewRTPMetrics
  /\ frameCount = 0
  /\ wire = {}
  /\ emitted = {}

\* The UDP loops ask whether the track was enabled, the WebRTC loops only
\* whether there are units.
VideoMode ==
  IF kind = "udp" THEN IF IsVideoEnabled(source) THEN "file" ELSE "synthetic"
                  ELSE IF GetTotalVideoFrames(source) > 0 THEN "file" ELSE "synthetic"

AudioMode ==
  IF kind = "udp" THEN IF IsAudioEnabled(source) THEN "file" ELSE "off"
                  ELSE IF GetTotalAudioFrames(source) > 0 THEN "file" ELSE "synthetic"

\* Started once: a second start is the participant pool's business.
Start ==
  /\ ~active /\ socket = "open"
  /\ active' = TRUE
  /\ loop' = [loop EXCEPT !["video"].mode = VideoMode, !["audio"].mode = AudioMode]
  /\ UNCHANGED <<kind, source, spikes, room, socket, metrics, frameCount, wire, emitted>>

\* Stop of a WebRTC participant leaves the connection to Close.
Stop ==
  /\ active
  /\ active' = FALSE
  /\ socket' \in IF kind = "udp" THEN {"closed"} ELSE {"open", "closed"}
  /\ UNCHANGED <<kind, source, spikes, room, loop, metrics, frameCount, wire, emitted>>

-----------------------------------------------------------------------------
(* Ticks. *)
Waiting(t) == loop[t].mode # "off" /\ loop[t].batch = <<>>

LoopEnds(t) ==
  /\ Waiting(t) /\ ~active
  /\ loop' = [loop EXCEPT ![t].mode = "off"]
  /\ UNCHANGED <<kind, source, spikes, room, active, socket, metrics, frameCount, wire, emitted>>

Tick(t) == active /\ Waiting(t) /\ loop[t].ticks < MaxTicks[t]

\* A dropped frame is passed over in the file but takes no sequence number; only
\* the UDP loops count it.
DropFrame ==
  /\ Tick("video")
  /\ "frame_drop" \in spikes
  /\ loop' = [loop EXCEPT !["video"].ticks = @ + 1,
                          !["video"].idx = IF kind = "udp" /\ loop["video"].mode = "synthetic"
                                             THEN @ ELSE @ + 1]
  /\ metrics' = IF kind = "udp" THEN RecordFrameDropped(metrics) ELSE metrics
  /\ UNCHANGED <<kind, source, spikes, room, active, socket, frameCount, wire, emitted>>

\* The unit at idx, or the first one again; size 0 where there is none.
UnitAt(t, idx) == IF t = "video" THEN GetVideoNAL(source, idx) ELSE GetAudioPacket(source, idx)
NextUnit(t) ==
  LET idx == IF UnitAt(t, loop[t].idx) > 0 THEN loop[t].idx ELSE 0
  IN [size |-> UnitAt(t, idx), idx |-> idx]

\* Sequence number and timestamp move on before the packets go out.
Cut(t, size, idx, packets) ==
  loop' = [loop EXCEPT ![t].ticks = @ + 1, ![t].idx = idx, ![t].size = size,
                       ![t].batch = packets, ![t].next = 1,
                       ![t].seq = (@ + Len(packets)) % SequenceSpace,
                       ![t].ts = @ + 1,
                       ![t].produced = @ + Len(packets)]

\* runVideoLoop.  Without a first unit it leaves the field to a frame loop.
runVideoLoop ==
  LET unit == NextUnit("video")
  IN /\ Tick("video") /\ kind = "udp" /\ loop["video"].mode = "file"
     /\ IF unit.size > 0
          THEN /\ Cut("video", unit.size, unit.idx + 1,
                      H264Packetize(Id, unit.size, loop["video"].seq, loop["video"].ts))
               /\ frameCount' = frameCount + 1
          ELSE /\ loop' = [loop EXCEPT !["video"].mode = "synthetic", !["video"].idx = 0]
               /\ UNCHANGED frameCount
     /\ UNCHANGED <<kind, source, spikes, room, active, socket, metrics, wire, emitted>>

DefaultBitrateKbps == 2500
generateSyntheticFrame(kbps) ==
  LET size == (((IF kbps <= 0 THEN DefaultBitrateKbps ELSE kbps) * 1000) \div 8) \div Fps
  IN IF size < MinFrame THEN MinFrame ELSE IF size > MaxFrame THEN MaxFrame ELSE size

\* runFrameLoop, whose bitrate a spike may change from frame to frame.
runFrameLoop ==
  /\ Tick("video") /\ kind = "udp" /\ loop["video"].mode = "synthetic"
  /\ \E kbps \in Bitrates :
       LET size == generateSyntheticFrame(kbps)
       IN Cut("video", size, loop["video"].idx,
              H264Packetize(Id, size, loop["video"].seq, loop["video"].ts))
  /\ frameCount' = frameCount + 1
  /\ UNCHANGED <<kind, source, spikes, room, active, socket, metrics, wire, emitted>>

\* streamVideo, from the file or from the generator.
streamVideo ==
  /\ Tick("video") /\ kind = "webrtc"
  /\ \E kbps \in Bitrates :
       LET v == loop["video"]
           unit == NextUnit("video")
           size == IF v.mode = "file" /\ unit.size > 0 THEN unit.size
                                                       ELSE generateSyntheticFrame(kbps)
           idx == IF v.mode = "file" THEN unit.idx + 1 ELSE v.idx
       IN Cut("video", size, idx, packetizeH264(Id, size, v.seq, v.ts))
  /\ UNCHANGED <<kind, source, spikes, room, active, socket, metrics, frameCount, wire, emitted>>

\* runAudioLoop ends for good when there is no packet.
runAudioLoop ==
  LET unit == NextUnit("audio")
  IN /\ Tick("audio") /\ kind = "udp"
     /\ IF unit.size > 0
          THEN Cut("audio", unit.size, unit.idx + 1,
                   <<OpusPacketize(Id, unit.size, loop["audio"].seq, loop["audio"].ts)>>)
          ELSE loop' = [loop EXCEPT !["audio"].mode = "off", !["audio"].idx = 0]
     /\ UNCHANGED <<kind, source, spikes, room, active, socket, metrics, frameCount, wire, emitted>>

\* streamAudio: silence while muted, which leaves the place in the file alone.
SilenceFrame == 3
generateOpusFrame == 80
streamAudio ==
  LET a == loop["audio"]
      unit == NextUnit("audio")
      real == IF a.mode = "file" /\ unit.size > 0 THEN unit.size ELSE generateOpusFrame
      idx == IF a.mode = "file" THEN unit.idx + 1 ELSE a.idx
      packet(size) == <<[header |-> [Packet(Id, AudioType, Id * 1000 + 1, a.seq, a.ts, FALSE)
                                       EXCEPT !.extension = FALSE],
                         payload |-> Whole(size)]>>
  IN /\ Tick("audio") /\ kind = "webrtc"
     /\ \/ Cut("audio", real, idx, packet(real))
        \/ "audio_silence" \in spikes /\ Cut("audio", SilenceFrame, a.idx, packet(SilenceFrame))
     /\ UNCHANGED <<kind, source, spikes, room, active, socket, metrics, frameCount, wire, emitted>>

-----------------------------------------------------------------------------
(* Packets.  Both UDP loops share the counters and the socket. *)
InHand(t) == loop[t].batch[loop[t].next]

\* Variant: the packet after this one is taken for counted.
AdvancedUncleared(t) ==
  LET l == loop[t]
  IN [loop EXCEPT ![t] = IF l.next < Len(l.batch)
                           THEN [l EXCEPT !.next = l.next + 1]
                           ELSE [l EXCEPT !.next = 1, !.batch = <<>>, !.size = 0]]

Advanced(t) ==
  LET l == loop[t]
  IN [loop EXCEPT ![t] = IF l.next < Len(l.batch)
                           THEN [l EXCEPT !.next = l.next + 1, !.counted = FALSE]
                           ELSE [l EXCEPT !.next = 1, !.counted = FALSE, !.batch = <<>>, !.size = 0]]

\* The WebRTC loop counts a frame when its last packet is through.
FramesAfter(t) ==
  IF kind = "webrtc" /\ t = "video" /\ loop[t].next = Len(loop[t].batch)
    THEN frameCount + 1 ELSE frameCount

CountPacket(t) ==
  /\ loop[t].batch # <<>> /\ kind = "udp" /\ ~loop[t].counted
  /\ metrics' = RecordPacketSent(metrics)
  /\ loop' = [loop EXCEPT ![t].counted = TRUE]
  /\ UNCHANGED <<kind, source, spikes, room, active, socket, frameCount, wire, emitted>>

\* The WebRTC loop drops video packets only, and does not count them.
DropPacket(t) ==
  /\ loop[t].batch # <<>>
  /\ "rtp_packet_loss" \in spikes
  /\ IF kind = "udp" THEN loop[t].counted ELSE t = "video"
  /\ metrics' = IF kind = "udp" THEN RecordPacketLost(metrics) ELSE metrics
  /\ loop' = Advanced(t)
  /\ frameCount' = FramesAfter(t)
  /\ UNCHANGED <<kind, source, spikes, room, active, socket, wire, emitted>>

\* Variant: an error of the write is only logged.
WriteToUDPUnchecked(t) ==
  /\ loop[t].batch # <<>> /\ kind = "udp" /\ loop[t].counted
  /\ emitted' = IF socket = "open" THEN emitted \union {Marshal(InHand(t))} ELSE emitted
  /\ wire' = IF socket = "open" /\ Cardinality(wire) < room
               THEN wire \union {Marshal(InHand(t))} ELSE wire
  /\ loop' = Advanced(t)
  /\ UNCHANGED <<kind, source, spikes, room, active, socket, metrics, frameCount>>

\* WriteToUDP: fails once the socket is closed, and any failure counts as a loss; a
\* network that is full loses it unnoticed.
WriteToUDP(t) ==
  /\ loop[t].batch # <<>> /\ kind = "udp" /\ loop[t].counted
  /\ IF socket = "open"
       THEN /\ emitted' = emitted \union {Marshal(InHand(t))}
            /\ wire' = IF Cardinality(wire) < room THEN wire \union {Marshal(InHand(t))} ELSE wire
            /\ UNCHANGED metrics
       ELSE /\ metrics' = RecordPacketLost(metrics)
            /\ UNCHANGED <<wire, emitted>>
  /\ loop' = Advanced(t)
  /\ UNCHANGED <<kind, source, spikes, room, active, socket, frameCount>>

\* WriteRTP of the track, whose own transport is not modelled; audio is not
\* counted.
WriteRTP(t) ==
  /\ loop[t].batch # <<>> /\ kind = "webrtc"
  /\ \E ok \in {TRUE, socket = "open"} :
       /\ emitted' = IF ok THEN emitted \union {Marshal(InHand(t))} ELSE emitted
       /\ metrics' = IF ok /\ t = "video" THEN RecordPacketSent(metrics) ELSE metrics
  /\ loop' = Advanced(t)
  /\ frameCount' = FramesAfter(t)
  /\ UNCHANGED <<kind, source, spikes, room, active, socket, wire>>

SenderNext ==
  \/ Start \/ Stop \/ DropFrame
  \/ runVideoLoop \/ runFrameLoop \/ streamVideo
  \/ runAudioLoop \/ streamAudio
  \/ \E t \in Tracks :
       LoopEnds(t) \/ CountPacket(t) \/ DropPacket(t) \/ WriteToUDP(t) \/ WriteRTP(t)
=============================================================================
