-------------------------------- MODULE RtpPacket --------------------------------
(***************************************************************************)
(* internal/rtp, internal/client/rtp and the packetizer of internal/webrtc: *)
(* from a NAL unit or Opus packet to RTP packets, to datagrams, and back.   *)
(* The bytes of a payload are the stretch from..to-1 of a unit; the header  *)
(* fields are kept as the layout names them, with the lengths that decide   *)
(* where each is found.                                                     *)
(***************************************************************************)
EXTENDS Integers, Sequences

CONSTANTS
  MTU,     \* 1200 in the code
  SequenceSpace   \* sequence numbers count modulo this, 2^16 in the code

ASSUME RtpPacketAssumption ==
  /\ MTU \in Nat /\ MTU > 14
  /\ SequenceSpace \in Nat \ {0}

VideoType == 96
AudioType == 111
FixedHeader == 12

SmallerOf(a, b) == IF a < b THEN a ELSE b

\* A stretch of the unit sent as the frame ts; first and last are the FU-A start
\* and end bits, fu tells the two octets of the FU-A headers are in front.
Stretch(from, to) == [from |-> from, to |-> to]
Size(s) == s.to - s.from

-----------------------------------------------------------------------------
(* fragmentNALU: the first byte of the unit is not sent, the FU-A headers say *)
(* what it was.                                                               *)
(* Variant: as many fragments as fit whole.                                   *)
fragmentNALURoundedDown(size, maxSize) ==
  [i \in 1..((size - 1) \div maxSize) |->
     Stretch(1 + (i - 1) * maxSize, SmallerOf(1 + i * maxSize, size))]

fragmentNALU(size, maxSize) ==
  [i \in 1..((size + maxSize - 2) \div maxSize) |->
     Stretch(1 + (i - 1) * maxSize, SmallerOf(1 + i * maxSize, size))]

\* The fields both packetizers of internal/rtp fill; id is the participant.
Packet(id, pt, ssrc, seq, ts, marker) ==
  [pt |-> pt, ssrc |-> ssrc, seq |-> seq % SequenceSpace, ts |-> ts, marker |-> marker,
   extension |-> TRUE, id |-> id]

Whole(size) == [fu |-> FALSE, first |-> TRUE, last |-> TRUE, data |-> Stretch(0, size)]

FragmentAt(frags, i) ==
  [fu |-> TRUE, first |-> i = 1, last |-> i = Len(frags), data |-> frags[i]]

Carry(header, payload) == [header |-> header, payload |-> payload]

H264Packetize(id, size, seq, ts) ==
  LET maxPayload == MTU - FixedHeader
      frags == fragmentNALU(size, maxPayload - 2)
  IN IF size <= maxPayload
       THEN <<Carry(Packet(id, VideoType, id * 1000, seq, ts, TRUE), Whole(size))>>
       ELSE [i \in 1..Len(frags) |->
               Carry(Packet(id, VideoType, id * 1000, seq + i - 1, ts, i = Len(frags)),
                     FragmentAt(frags, i))]

OpusPacketize(id, size, seq, ts) ==
  Carry(Packet(id, AudioType, id * 1000 + 1, seq, ts, TRUE), Whole(size))

\* The WebRTC participants' own packetizer: the whole MTU is payload, and there
\* is no extension.
packetizeH264(id, size, seq, ts) ==
  LET frags == fragmentNALU(size, MTU - 2)
      header(k, marker) ==
        [Packet(id, VideoType, id * 1000, seq + k, ts, marker) EXCEPT !.extension = FALSE]
  IN IF size <= MTU
       THEN <<Carry(header(0, TRUE), Whole(size))>>
       ELSE [i \in 1..Len(frags) |-> Carry(header(i - 1, i = Len(frags)), FragmentAt(frags, i))]

-----------------------------------------------------------------------------
(* Marshal: the extension is four bytes of extension header and the           *)
(* participant id in four more.                                               *)
PayloadSize(payload) == Size(payload.data) + IF payload.fu THEN 2 ELSE 0

Marshal(pkt) ==
  LET extension == IF pkt.header.extension THEN 8 ELSE 0
  IN [x |-> pkt.header.extension, extId |-> 1, extWords |-> 1, csrcs |-> 0, padding |-> 0,
      header |-> pkt.header, payload |-> pkt.payload,
      len |-> FixedHeader + extension + PayloadSize(pkt.payload)]

\* What a receive buffer of n bytes keeps of a datagram.
Truncate(d, n) == [d EXCEPT !.len = SmallerOf(@, n)]

PayloadOffset(d) ==
  FixedHeader + 4 * d.csrcs + IF d.x THEN 4 + 4 * d.extWords ELSE 0

\* Unmarshal and ParsePacket of internal/rtp.
UnmarshalFails(d) ==
  \/ d.len < FixedHeader
  \/ d.x /\ d.len < FixedHeader + 4 * d.csrcs + 4
  \/ d.x /\ d.len < PayloadOffset(d)

ParsedId(d) == IF d.x /\ d.extId = 1 /\ d.extWords >= 1 THEN d.header.id ELSE 0

Unmarshal(d) == [header |-> d.header, id |-> ParsedId(d), bytes |-> d.len - PayloadOffset(d)]

\* ParsePacket of internal/client/rtp asks for an extension of one word, does
\* not look whether it is complete, and takes padding off.
ParseFails(d) ==
  \/ d.len < FixedHeader
  \/ d.x /\ d.len < FixedHeader + 4 * d.csrcs + 4

ClientParsedId(d) ==
  IF d.x /\ d.extId = 1 /\ d.extWords = 1 /\ d.len >= FixedHeader + 4 * d.csrcs + 8
    THEN d.header.id ELSE 0

ClientParse(d) ==
  [header |-> d.header, id |-> ClientParsedId(d), bytes |-> d.len - PayloadOffset(d) - d.padding]

-----------------------------------------------------------------------------
(* What a receiver can put together from the packets of one unit. *)
Reassembles(packets, size) ==
  \/ /\ Len(packets) = 1
     /\ ~packets[1].payload.fu
     /\ packets[1].payload.data = Stretch(0, size)
  \/ /\ Len(packets) > 1
     /\ \A i \in DOMAIN packets :
          LET p == packets[i].payload
          IN /\ p.fu
             /\ p.first = (i = 1) /\ p.last = (i = Len(packets))
             /\ p.data.from = (IF i = 1 THEN 1 ELSE packets[i - 1].payload.data.to)
             /\ Size(p.data) > 0
     /\ packets[Len(packets)].payload.data.to = size

(* One frame: a timestamp of its own, the marker on its last packet only, and  *)
(* sequence numbers one after the other, across the wrap.                      *)
InOneFrame(packets, seq, ts) ==
  \A i \in DOMAIN packets :
    LET h == packets[i].header
    IN h.ts = ts /\ h.marker = (i = Len(packets)) /\ h.seq = (seq + i - 1) % SequenceSpace
=============================================================================
