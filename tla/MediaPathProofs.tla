----------------------------- MODULE MediaPathProofs -----------------------------
(***************************************************************************)
(* Proofs about MediaPath, for any MTU, sequence space, units, buffer and     *)
(* bounds: what the packetizers make of a unit of any size, what of it can    *)
(* reach the receiver's socket, that the counters of the two loops add up,    *)
(* and what the receiver believes was lost.                                  *)
(***************************************************************************)
EXTENDS MediaPath, SequenceTheorems, FiniteSetTheorems, WellFoundedInduction, TLAPS

-----------------------------------------------------------------------------
(* Arithmetic. *)

LEMMA DivMod ==
  ASSUME NEW a \in Nat, NEW m \in Nat \ {0}
  PROVE  a % m \in 0..(m - 1) /\ a \div m \in Nat /\ a = m * (a \div m) + (a % m)
OBVIOUS

LEMMA DivModUnique ==
  ASSUME NEW m \in Nat \ {0}, NEW p \in Nat, NEW q \in Nat, NEW r \in 0..(m - 1), NEW s \in 0..(m - 1),
         m * p + r = m * q + s
  PROVE  p = q /\ r = s
<1>1. ASSUME NEW x \in Nat, NEW y \in Nat, x < y
      PROVE  m * x + m <= m * y
  <2>1. m * (x + 1) <= m * y
    BY <1>1
  <2>2. m * (x + 1) = m * x + m
    OBVIOUS
  <2>3. QED
    BY <2>1, <2>2
<1>2. m * p \in Nat /\ m * q \in Nat
  OBVIOUS
<1>3. ~ p < q /\ ~ q < p
  BY <1>1, <1>2
<1>4. QED
  BY <1>3

(* A sequence number moves on in the same way before and after it is reduced. *)
LEMMA ModPlus ==
  ASSUME NEW a \in Nat, NEW k \in Nat, NEW m \in Nat \ {0}
  PROVE  ((a % m) + k) % m = (a + k) % m
<1>1. PICK q \in Nat, r \in 0..(m - 1) : a = m * q + r /\ a % m = r
  BY DivMod
<1>2. PICK q2 \in Nat, s \in 0..(m - 1) : r + k = m * q2 + s /\ (r + k) % m = s
  <2>1. r + k \in Nat
    OBVIOUS
  <2>2. QED
    BY <2>1, DivMod
<1>3. PICK q3 \in Nat, t \in 0..(m - 1) : a + k = m * q3 + t /\ (a + k) % m = t
  <2>1. a + k \in Nat
    OBVIOUS
  <2>2. QED
    BY <2>1, DivMod
<1>4. m * (q + q2) = m * q + m * q2
  OBVIOUS
<1>5. m * (q + q2) + s = m * q3 + t
  <2>1. m * q \in Nat /\ m * q2 \in Nat /\ m * q3 \in Nat
    OBVIOUS
  <2>2. QED
    BY <1>1, <1>2, <1>3, <1>4, <2>1
<1>6. s = t
  BY <1>5, DivModUnique
<1>7. QED
  BY <1>1, <1>2, <1>3, <1>6

-----------------------------------------------------------------------------
(* Fragments. *)

Stretches == [from : Nat, to : Nat]

(* A unit is covered from its second byte to its last, without gap or overlap,  *)
(* in at least two pieces of at most m bytes; that is what fragmentNALU does.   *)
Covers(f, m, size) ==
  /\ f \in Seq(Stretches) /\ Len(f) \in Nat /\ Len(f) > 1 /\ DOMAIN f = 1..Len(f)
  /\ f[1].from = 1 /\ f[Len(f)].to = size
  /\ \A i \in 1..Len(f) : Size(f[i]) \in 1..m
  /\ \A i \in 2..Len(f) : f[i].from = f[i - 1].to

LEMMA Fragments ==
  ASSUME NEW m \in Nat \ {0}, NEW size \in Nat, size > m + 1, NEW f, f = fragmentNALU(size, m)
  PROVE  Covers(f, m, size)
<1>1. PICK n : n = (size + m - 2) \div m
  OBVIOUS
<1>2. n \in Nat /\ m * n \in Nat /\ m * n >= size - 1 /\ m * n <= size + m - 2
  <2>1. size + m - 2 \in Nat
    OBVIOUS
  <2>2. PICK r \in 0..(m - 1) : n \in Nat /\ size + m - 2 = m * n + r
    BY <1>1, <2>1, DivMod
  <2>3. m * n \in Nat
    BY <2>2
  <2>4. QED
    BY <2>2, <2>3
<1>3. n > 1
  <2>1. n = 0 => m * n = 0
    OBVIOUS
  <2>2. n = 1 => m * n = m
    OBVIOUS
  <2>3. QED
    BY <1>2, <2>1, <2>2
<1> DEFINE at(i) == 1 + (i - 1) * m
           end(i) == SmallerOf(1 + i * m, size)
<1>4. ASSUME NEW i \in 1..n
      PROVE  /\ at(i) \in Nat /\ at(i) < size /\ 1 + i * m = at(i) + m
             /\ i < n => 1 + i * m < size
             /\ i = n => 1 + i * m >= size
  <2>1. (i - 1) * m = i * m - m /\ i * m \in Nat /\ (i - 1) * m \in Nat
    OBVIOUS
  <2>2. i * m <= n * m
    BY <1>2
  <2>3. n * m = m * n
    BY <1>2
  <2>4. i < n => i * m <= (n - 1) * m /\ (n - 1) * m = n * m - m
    BY <1>2
  <2>5. QED
    BY <1>2, <2>1, <2>2, <2>3, <2>4
<1>5. f = [i \in 1..n |-> Stretch(at(i), end(i))]
  BY <1>1 DEF fragmentNALU
<1> HIDE DEF at
<1>6. ASSUME NEW i \in 1..n
      PROVE  /\ end(i) \in Nat
             /\ end(i) - at(i) \in 1..m
             /\ i < n => end(i) = at(i) + m
             /\ i = n => end(i) = size
  BY <1>4 DEF SmallerOf
<1> HIDE DEF end
<1>7. ASSUME NEW i \in 1..n
      PROVE  f[i].from = at(i) /\ f[i].to = end(i) /\ f[i] \in Stretches
  <2>1. f[i] = Stretch(at(i), end(i))
    BY <1>5
  <2>2. at(i) \in Nat /\ end(i) \in Nat
    BY <1>4, <1>6
  <2>3. QED
    BY <2>1, <2>2 DEF Stretch, Stretches
<1>8. f \in [1..n -> Stretches]
  BY <1>5, <1>7
<1>9. f \in Seq(Stretches) /\ Len(f) = n /\ DOMAIN f = 1..n
  BY <1>2, <1>8
<1>10. 1 \in 1..n /\ n \in 1..n
  BY <1>2, <1>3
<1>11. f[1].from = 1 /\ f[n].to = size
  <2>1. at(1) = 1
    BY DEF at
  <2>2. QED
    BY <1>6, <1>7, <1>10, <2>1
<1>12. \A i \in 1..n : Size(f[i]) \in 1..m
  BY <1>6, <1>7 DEF Size
<1>13. ASSUME NEW i \in 2..n
       PROVE  f[i].from = f[i - 1].to
  <2>1. i \in 1..n /\ i - 1 \in 1..n /\ i - 1 < n
    BY <1>2
  <2>2. end(i - 1) = at(i - 1) + m
    BY <1>6, <2>1
  <2>3. at(i) = at(i - 1) + m
    <3>1. (i - 1) * m = (i - 1 - 1) * m + m
      BY <2>1
    <3>2. (i - 1 - 1) * m \in Int
      BY <2>1
    <3>3. QED
      BY <3>1, <3>2 DEF at
  <2>4. QED
    BY <1>7, <2>1, <2>2, <2>3
<1>14. QED
  BY <1>2, <1>3, <1>9, <1>11, <1>12, <1>13 DEF Covers

-----------------------------------------------------------------------------
(* Packets. *)

Headers ==
  [pt : Nat, ssrc : Nat, seq : 0..(SequenceSpace - 1), ts : Nat, marker : BOOLEAN,
   extension : BOOLEAN, id : Nat]
Payloads ==
  {p \in [fu : BOOLEAN, first : BOOLEAN, last : BOOLEAN, data : Stretches] : Size(p.data) \in Nat}
Packets == [header : Headers, payload : Payloads]

(* A frame as it should be: the packets of a unit of this size, with sequence   *)
(* numbers from seq on and the timestamp ts, none longer than limit.            *)
FrameOf(packets, size, seq, ts, limit) ==
  /\ packets \in Seq(Packets) /\ Len(packets) > 0
  /\ Reassembles(packets, size)
  /\ InOneFrame(packets, seq, ts)
  /\ \A i \in DOMAIN packets : Marshal(packets[i]).len <= limit

LEMMA SeqReduced ==
  ASSUME NEW n \in Nat
  PROVE  n % SequenceSpace \in 0..(SequenceSpace - 1)
BY DivMod, RtpPacketAssumption

LEMMA WholePayload ==
  ASSUME NEW size \in Nat
  PROVE  Whole(size) \in Payloads /\ Whole(size).data = Stretch(0, size) /\ ~Whole(size).fu
         /\ PayloadSize(Whole(size)) = size
<1>1. Stretch(0, size) \in Stretches /\ Size(Stretch(0, size)) = size
  BY DEF Stretch, Stretches, Size
<1>2. /\ Whole(size).data = Stretch(0, size) /\ Whole(size).fu = FALSE
      /\ Whole(size) \in [fu : BOOLEAN, first : BOOLEAN, last : BOOLEAN, data : Stretches]
  BY <1>1 DEF Whole
<1>3. QED
  BY <1>1, <1>2 DEF Payloads, PayloadSize

LEMMA MarshalLength ==
  ASSUME NEW p \in Packets
  PROVE  /\ Marshal(p).len = FixedHeader + (IF p.header.extension THEN 8 ELSE 0) + PayloadSize(p.payload)
         /\ Marshal(p).len \in Nat
         /\ Marshal(p).header = p.header /\ Marshal(p).payload = p.payload
<1>1. p.payload \in Payloads
  BY DEF Packets
<1>2. PayloadSize(p.payload) \in Nat
  BY <1>1 DEF Payloads, PayloadSize
<1>3. QED
  BY <1>2 DEF Marshal, FixedHeader

(* One packet is a frame. *)
LEMMA SinglePacket ==
  ASSUME NEW size \in Nat, NEW h \in Headers, NEW seq \in Nat, NEW ts \in Nat,
         h.seq = seq % SequenceSpace, h.ts = ts, h.marker = TRUE, NEW limit \in Nat,
         FixedHeader + (IF h.extension THEN 8 ELSE 0) + size <= limit
  PROVE  FrameOf(<<Carry(h, Whole(size))>>, size, seq, ts, limit)
<1>1. PICK p : p = Carry(h, Whole(size))
  OBVIOUS
<1>2. p \in Packets /\ p.header = h /\ p.payload = Whole(size)
  BY <1>1, WholePayload DEF Carry, Packets
<1>3. <<p>> \in Seq(Packets) /\ Len(<<p>>) = 1 /\ DOMAIN <<p>> = {1} /\ <<p>>[1] = p
  BY <1>2
<1>4. Reassembles(<<p>>, size)
  BY <1>2, <1>3, WholePayload DEF Reassembles
<1>5. InOneFrame(<<p>>, seq, ts)
  <2>1. seq + 1 - 1 = seq
    OBVIOUS
  <2>2. QED
    BY <1>2, <1>3, <2>1 DEF InOneFrame
<1>6. Marshal(p).len <= limit
  <2>1. Marshal(p).len = FixedHeader + (IF h.extension THEN 8 ELSE 0) + size
    BY <1>2, MarshalLength, WholePayload
  <2>2. QED
    BY <2>1
<1>7. QED
  BY <1>1, <1>3, <1>4, <1>5, <1>6 DEF FrameOf

(* The fragments of a unit, behind headers that number them, are a frame. *)
Numbered(hdr, n, seq, ts, extra) ==
  /\ hdr \in [1..n -> Headers]
  /\ \A i \in 1..n : /\ (IF hdr[i].extension THEN 8 ELSE 0) = extra /\ hdr[i].seq = (seq + i - 1) % SequenceSpace
                     /\ hdr[i].ts = ts /\ hdr[i].marker = (i = n)

Fragmented(f, hdr) == [i \in 1..Len(f) |-> Carry(hdr[i], FragmentAt(f, i))]

LEMMA FragmentedPackets ==
  ASSUME NEW m \in Nat \ {0}, NEW size \in Nat, size > m + 1, NEW seq \in Nat, NEW ts \in Nat,
         NEW f, f = fragmentNALU(size, m), NEW extra \in Nat,
         NEW hdr, Numbered(hdr, Len(f), seq, ts, extra),
         NEW limit \in Nat, FixedHeader + extra + m + 2 <= limit
  PROVE  FrameOf(Fragmented(f, hdr), size, seq, ts, limit)
<1>1. /\ f \in Seq(Stretches) /\ Len(f) \in Nat /\ Len(f) > 1 /\ DOMAIN f = 1..Len(f)
      /\ f[1].from = 1 /\ f[Len(f)].to = size
      /\ \A i \in 1..Len(f) : Size(f[i]) \in 1..m
      /\ \A i \in 2..Len(f) : f[i].from = f[i - 1].to
  <2>1. Covers(f, m, size)
    BY Fragments
  <2>2. QED
    BY <2>1 DEF Covers
<1>2. PICK n : n = Len(f)
  OBVIOUS
<1>3. n \in Nat /\ n > 1
  BY <1>1, <1>2
<1> DEFINE packets == Fragmented(f, hdr)
<1>h. hdr \in [1..n -> Headers] /\ packets = [i \in 1..n |-> Carry(hdr[i], FragmentAt(f, i))]
  BY <1>2 DEF Numbered, Fragmented
<1>k. \A i \in 1..n : /\ (IF hdr[i].extension THEN 8 ELSE 0) = extra /\ hdr[i].seq = (seq + i - 1) % SequenceSpace
                      /\ hdr[i].ts = ts /\ hdr[i].marker = (i = n)
  BY <1>2 DEF Numbered
<1> HIDE DEF packets
<1>4. ASSUME NEW i \in 1..n
      PROVE  /\ packets[i] \in Packets /\ packets[i].header = hdr[i]
             /\ packets[i].payload.fu = TRUE
             /\ packets[i].payload.first = (i = 1) /\ packets[i].payload.last = (i = n)
             /\ packets[i].payload.data = f[i]
             /\ PayloadSize(packets[i].payload) <= m + 2 /\ PayloadSize(packets[i].payload) \in Nat
  <2>1. packets[i] = Carry(hdr[i], FragmentAt(f, i))
    BY <1>h
  <2>2. PICK x : x = FragmentAt(f, i)
    OBVIOUS
  <2>3. f[i] \in Stretches /\ Size(f[i]) \in 1..m
    BY <1>1, <1>2
  <2>4. x.fu = TRUE /\ x.first = (i = 1) /\ x.last = (i = n) /\ x.data = f[i]
    BY <1>2, <2>2 DEF FragmentAt
  <2>5. x \in [fu : BOOLEAN, first : BOOLEAN, last : BOOLEAN, data : Stretches]
    BY <2>2, <2>3 DEF FragmentAt
  <2>6. x \in Payloads /\ PayloadSize(x) <= m + 2 /\ PayloadSize(x) \in Nat
    BY <2>3, <2>4, <2>5 DEF Payloads, PayloadSize
  <2>7. hdr[i] \in Headers
    BY <1>h
  <2>8. packets[i] \in Packets /\ packets[i].header = hdr[i] /\ packets[i].payload = x
    BY <2>1, <2>2, <2>6, <2>7 DEF Carry, Packets
  <2>9. QED
    BY <2>4, <2>6, <2>8
<1>5. packets \in Seq(Packets) /\ Len(packets) = n /\ DOMAIN packets = 1..n
  <2>1. packets = [i \in 1..n |-> packets[i]]
    BY <1>h
  <2>2. packets \in [1..n -> Packets]
    BY <1>4, <2>1
  <2>3. QED
    BY <1>3, <2>2
<1>6. Reassembles(packets, size)
  <2>1. ASSUME NEW i \in 1..n
        PROVE  /\ packets[i].payload.data.from = (IF i = 1 THEN 1 ELSE packets[i - 1].payload.data.to)
               /\ Size(packets[i].payload.data) > 0
    <3>1. i # 1 => i \in 2..n /\ i - 1 \in 1..n
      BY <1>3
    <3>2. packets[i].payload.data = f[i] /\ (i # 1 => packets[i - 1].payload.data = f[i - 1])
      BY <1>4, <3>1
    <3>3. Size(f[i]) > 0
      BY <1>1, <1>2
    <3>4. f[i].from = IF i = 1 THEN 1 ELSE f[i - 1].to
      BY <1>1, <1>2, <3>1
    <3>5. QED
      BY <3>2, <3>3, <3>4
  <2>2. packets[n].payload.data.to = size
    <3>1. n \in 1..n
      BY <1>3
    <3>2. packets[n].payload.data = f[n]
      BY <1>4, <3>1
    <3>3. QED
      BY <1>1, <1>2, <3>2
  <2>3. QED
    BY <1>3, <1>4, <1>5, <2>1, <2>2 DEF Reassembles
<1>7. InOneFrame(packets, seq, ts)
  <2>1. ASSUME NEW i \in 1..n
        PROVE  /\ packets[i].header.ts = ts /\ packets[i].header.marker = (i = n)
               /\ packets[i].header.seq = (seq + i - 1) % SequenceSpace
    <3>1. packets[i].header = hdr[i]
      BY <1>4
    <3>2. QED
      BY <1>k, <3>1
  <2>2. QED
    BY <1>5, <2>1 DEF InOneFrame
<1>8. ASSUME NEW i \in 1..n
      PROVE  Marshal(packets[i]).len <= limit
  <2>1. packets[i] \in Packets /\ (IF packets[i].header.extension THEN 8 ELSE 0) = extra
    <3>1. packets[i] \in Packets /\ packets[i].header = hdr[i]
      BY <1>4
    <3>2. (IF hdr[i].extension THEN 8 ELSE 0) = extra
      BY <1>k
    <3>3. QED
      BY <3>1, <3>2
  <2>2. PICK s \in Nat : s = PayloadSize(packets[i].payload) /\ s <= m + 2
    BY <1>4
  <2>3. Marshal(packets[i]).len = FixedHeader + extra + s
    BY <2>1, <2>2, MarshalLength
  <2>4. QED
    BY <2>2, <2>3 DEF FixedHeader
<1>9. QED
  BY <1>3, <1>5, <1>6, <1>7, <1>8 DEF FrameOf, packets

LEMMA PacketType ==
  ASSUME NEW id \in Nat, NEW pt \in Nat, NEW ssrc \in Nat, NEW seq \in Nat, NEW ts \in Nat,
         NEW marker \in BOOLEAN
  PROVE  Packet(id, pt, ssrc, seq, ts, marker) \in Headers
<1>1. seq % SequenceSpace \in 0..(SequenceSpace - 1)
  BY SeqReduced
<1>2. QED
  BY <1>1 DEF Headers, Packet

LEMMA Unextended ==
  ASSUME NEW p \in Headers, NEW q, q = [p EXCEPT !.extension = FALSE]
  PROVE  /\ q \in Headers /\ q.extension = FALSE /\ q.seq = p.seq /\ q.ts = p.ts
         /\ q.marker = p.marker
BY DEF Headers

(* The header of the i-th of n fragments, in either packetizer. *)
HeaderAt(id, seq, ts, n, i) == Packet(id, VideoType, id * 1000, seq + i - 1, ts, i = n)
TrackHeaderAt(id, seq, ts, n, i) ==
  [Packet(id, VideoType, id * 1000, seq + (i - 1), ts, i = n) EXCEPT !.extension = FALSE]

Numbers(h, ext, seq, ts, n, i) ==
  /\ h \in Headers /\ h.extension = ext /\ h.seq = (seq + i - 1) % SequenceSpace
  /\ h.ts = ts /\ h.marker = (i = n)

LEMMA HeaderFits ==
  ASSUME NEW id \in Nat, NEW seq \in Nat, NEW ts \in Nat, NEW n \in Nat, NEW i \in 1..n
  PROVE  /\ Numbers(HeaderAt(id, seq, ts, n, i), TRUE, seq, ts, n, i)
         /\ Numbers(TrackHeaderAt(id, seq, ts, n, i), FALSE, seq, ts, n, i)
<1>1. PICK last \in BOOLEAN : last = (i = n)
  OBVIOUS
<1>2. PICK k \in Nat : k = seq + i - 1 /\ k = seq + (i - 1)
  OBVIOUS
<1>3. PICK ssrc \in Nat : ssrc = id * 1000
  OBVIOUS
<1>4. PICK p : p = Packet(id, VideoType, ssrc, k, ts, last)
  OBVIOUS
<1>5. p \in Headers
  BY <1>4, PacketType DEF VideoType
<1>6. p.extension = TRUE /\ p.seq = k % SequenceSpace /\ p.ts = ts /\ p.marker = last
  BY <1>4 DEF Packet
<1>7. PICK q : q = [p EXCEPT !.extension = FALSE]
  OBVIOUS
<1>8. q \in Headers /\ q.extension = FALSE /\ q.seq = p.seq /\ q.ts = p.ts /\ q.marker = p.marker
  BY <1>5, <1>7, Unextended
<1>9. HeaderAt(id, seq, ts, n, i) = p
  BY <1>1, <1>2, <1>3, <1>4 DEF HeaderAt
<1>10. TrackHeaderAt(id, seq, ts, n, i) = q
  BY <1>1, <1>2, <1>3, <1>4, <1>7 DEF TrackHeaderAt
<1>11. QED
  BY <1>1, <1>2, <1>5, <1>6, <1>8, <1>9, <1>10 DEF Numbers

(* The packetizer of the UDP participants: a unit of any size becomes a frame   *)
(* whose datagrams are no longer than the MTU and the header extension          *)
(* (internal/rtp/packetizer.go:56-133).                                        *)
THEOREM UnitsBecomeFrames ==
  ASSUME NEW id \in Nat, NEW size \in Nat, NEW seq \in Nat, NEW ts \in Nat
  PROVE  FrameOf(H264Packetize(id, size, seq, ts), size, seq, ts, MTU + 8)
<1> DEFINE m == MTU - FixedHeader - 2
<1>1. m \in Nat \ {0} /\ MTU \in Nat /\ m + 14 = MTU /\ MTU - FixedHeader = m + 2
  BY RtpPacketAssumption DEF FixedHeader
<1> HIDE DEF m
<1>2. PICK ssrc \in Nat : ssrc = id * 1000
  OBVIOUS
<1>3. VideoType \in Nat
  BY DEF VideoType
<1>4. CASE size <= m + 2
  <2>1. PICK h : h = Packet(id, VideoType, ssrc, seq, ts, TRUE)
    OBVIOUS
  <2>2. /\ h \in Headers /\ h.extension = TRUE /\ h.seq = seq % SequenceSpace
        /\ h.ts = ts /\ h.marker = TRUE
    <3>1. h \in Headers
      BY <1>3, <2>1, PacketType
    <3>2. QED
      BY <2>1, <3>1 DEF Packet
  <2>3. H264Packetize(id, size, seq, ts) = <<Carry(h, Whole(size))>>
    <3>1. size <= MTU - FixedHeader
      BY <1>1, <1>4
    <3>2. Packet(id, VideoType, id * 1000, seq, ts, TRUE) = h
      BY <1>2, <2>1
    <3>3. QED
      BY ONLY <3>1, <3>2 DEF H264Packetize
  <2>4. FixedHeader + (IF h.extension THEN 8 ELSE 0) + size <= MTU + 8 /\ MTU + 8 \in Nat
    BY <1>1, <1>4, <2>2 DEF FixedHeader
  <2>5. QED
    BY <2>2, <2>3, <2>4, SinglePacket
<1>5. CASE ~ (size <= m + 2)
  <2> DEFINE f == fragmentNALU(size, MTU - FixedHeader - 2)
             h == [i \in 1..Len(f) |-> HeaderAt(id, seq, ts, Len(f), i)]
  <2>1. f = fragmentNALU(size, m)
    BY DEF m
  <2> HIDE DEF f
  <2>2. Covers(f, m, size)
    BY <1>1, <1>5, <2>1, Fragments
  <2>3. Len(f) \in Nat
    BY <2>2 DEF Covers
  <2>4. h = [i \in 1..Len(f) |-> h[i]] /\ \A i \in 1..Len(f) : h[i] = HeaderAt(id, seq, ts, Len(f), i)
    OBVIOUS
  <2>5. H264Packetize(id, size, seq, ts) = Fragmented(f, h)
    <3>1. ~ (size <= MTU - FixedHeader)
      BY <1>1, <1>5
    <3>2. H264Packetize(id, size, seq, ts)
            = [i \in 1..Len(f) |-> Carry(HeaderAt(id, seq, ts, Len(f), i), FragmentAt(f, i))]
      BY <3>1 DEF H264Packetize, HeaderAt, f
    <3>3. Fragmented(f, h) = [i \in 1..Len(f) |-> Carry(h[i], FragmentAt(f, i))]
      BY DEF Fragmented
    <3> HIDE DEF h
    <3>4. QED
      BY <2>4, <3>2, <3>3
  <2> HIDE DEF h
  <2>6. ASSUME NEW i \in 1..Len(f)
        PROVE  /\ h[i] \in Headers /\ h[i].extension = TRUE
               /\ h[i].seq = (seq + i - 1) % SequenceSpace
               /\ h[i].ts = ts /\ h[i].marker = (i = Len(f))
    <3>1. PICK n \in Nat : n = Len(f)
      BY <2>3
    <3>2. Numbers(h[i], TRUE, seq, ts, n, i)
      BY <2>4, <3>1, HeaderFits
    <3>3. QED
      BY <3>1, <3>2 DEF Numbers
  <2>7. Numbered(h, Len(f), seq, ts, 8)
    <3>1. h \in [1..Len(f) -> Headers]
      BY <2>4, <2>6
    <3>2. \A i \in 1..Len(f) : (IF h[i].extension THEN 8 ELSE 0) = 8
      BY <2>6
    <3>3. QED
      BY <2>6, <3>1, <3>2 DEF Numbered
  <2>8. FixedHeader + 8 + m + 2 <= MTU + 8 /\ MTU + 8 \in Nat /\ size > m + 1
    BY <1>1, <1>5 DEF FixedHeader
  <2>9. FrameOf(Fragmented(f, h), size, seq, ts, MTU + 8)
    BY <1>1, <2>1, <2>7, <2>8, FragmentedPackets
  <2>10. QED
    BY <2>5, <2>9
<1>6. QED
  BY <1>4, <1>5

(* The packetizer of the WebRTC participants gives the MTU to the payload alone *)
(* (internal/webrtc/participant.go).                                            *)
LEMMA TrackFrames ==
  ASSUME NEW id \in Nat, NEW size \in Nat, NEW seq \in Nat, NEW ts \in Nat
  PROVE  FrameOf(packetizeH264(id, size, seq, ts), size, seq, ts, MTU + FixedHeader)
<1> DEFINE m == MTU - 2
<1>1. m \in Nat \ {0} /\ MTU \in Nat /\ m + 2 = MTU /\ MTU - 2 = m
  BY RtpPacketAssumption
<1> HIDE DEF m
<1>5. CASE size <= MTU
  <2>1. PICK h : h = [Packet(id, VideoType, id * 1000, seq + 0, ts, TRUE) EXCEPT !.extension = FALSE]
    OBVIOUS
  <2>2. /\ h \in Headers /\ h.extension = FALSE /\ h.seq = seq % SequenceSpace
        /\ h.ts = ts /\ h.marker = TRUE
    <3>1. PICK p : p = Packet(id, VideoType, id * 1000, seq + 0, ts, TRUE)
      OBVIOUS
    <3>2. id * 1000 \in Nat /\ seq + 0 \in Nat /\ VideoType \in Nat
      BY DEF VideoType
    <3>3. p \in Headers
      <4>1. (seq + 0) % SequenceSpace \in 0..(SequenceSpace - 1)
        BY <3>2, SeqReduced
      <4>2. QED
        BY <3>1, <3>2, <4>1 DEF Packet, Headers
    <3>4. p.seq = (seq + 0) % SequenceSpace /\ p.ts = ts /\ p.marker = TRUE
      BY <3>1 DEF Packet
    <3>5. seq + 0 = seq
      OBVIOUS
    <3>6. h = [p EXCEPT !.extension = FALSE]
      BY <2>1, <3>1
    <3>7. QED
      BY <3>3, <3>4, <3>5, <3>6, Unextended
  <2>3. packetizeH264(id, size, seq, ts) = <<Carry(h, Whole(size))>>
    BY <1>5, <2>1 DEF packetizeH264
  <2>4. FixedHeader + (IF h.extension THEN 8 ELSE 0) + size <= MTU + FixedHeader /\ MTU + FixedHeader \in Nat
    BY <1>1, <1>5, <2>2 DEF FixedHeader
  <2>5. QED
    BY <2>2, <2>3, <2>4, SinglePacket
<1>6. CASE ~ (size <= MTU)
  <2> DEFINE f == fragmentNALU(size, MTU - 2)
             h == [i \in 1..Len(f) |-> TrackHeaderAt(id, seq, ts, Len(f), i)]
  <2>1. f = fragmentNALU(size, m)
    BY DEF m
  <2> HIDE DEF f
  <2>2. Covers(f, m, size)
    BY <1>1, <1>6, <2>1, Fragments
  <2>3. Len(f) \in Nat
    BY <2>2 DEF Covers
  <2>4. h = [i \in 1..Len(f) |-> h[i]] /\ \A i \in 1..Len(f) : h[i] = TrackHeaderAt(id, seq, ts, Len(f), i)
    OBVIOUS
  <2>5. packetizeH264(id, size, seq, ts) = Fragmented(f, h)
    <3>1. ~ (size <= MTU)
      BY <1>6
    <3>2. packetizeH264(id, size, seq, ts)
            = [i \in 1..Len(f) |-> Carry(TrackHeaderAt(id, seq, ts, Len(f), i), FragmentAt(f, i))]
      BY <3>1 DEF packetizeH264, TrackHeaderAt, f
    <3>3. Fragmented(f, h) = [i \in 1..Len(f) |-> Carry(h[i], FragmentAt(f, i))]
      BY DEF Fragmented
    <3> HIDE DEF h
    <3>4. QED
      BY <2>4, <3>2, <3>3
  <2> HIDE DEF h
  <2>6. ASSUME NEW i \in 1..Len(f)
        PROVE  /\ h[i] \in Headers /\ h[i].extension = FALSE
               /\ h[i].seq = (seq + i - 1) % SequenceSpace
               /\ h[i].ts = ts /\ h[i].marker = (i = Len(f))
    <3>1. PICK n \in Nat : n = Len(f)
      BY <2>3
    <3>2. Numbers(h[i], FALSE, seq, ts, n, i)
      BY <2>4, <3>1, HeaderFits
    <3>3. QED
      BY <3>1, <3>2 DEF Numbers
  <2>7. Numbered(h, Len(f), seq, ts, 0)
    <3>1. h \in [1..Len(f) -> Headers]
      BY <2>4, <2>6
    <3>2. \A i \in 1..Len(f) : (IF h[i].extension THEN 8 ELSE 0) = 0
      BY <2>6
    <3>3. QED
      BY <2>6, <3>1, <3>2 DEF Numbered
  <2>8. FixedHeader + 0 + m + 2 <= MTU + FixedHeader /\ MTU + FixedHeader \in Nat /\ size > m + 1
    BY <1>1, <1>6 DEF FixedHeader
  <2>9. FrameOf(Fragmented(f, h), size, seq, ts, MTU + FixedHeader)
    BY <1>1, <2>1, <2>7, <2>8, FragmentedPackets
  <2>10. QED
    BY <2>5, <2>9
<1>7. QED
  BY <1>5, <1>6

(* An audio packet, of either kind of participant. *)
LEMMA OpusType ==
  ASSUME NEW size \in Nat, NEW seq \in Nat, NEW ts \in Nat
  PROVE  OpusPacketize(Id, size, seq, ts) \in Packets
<1>1. Whole(size) \in Payloads
  BY WholePayload
<1>2. seq % SequenceSpace \in 0..(SequenceSpace - 1)
  BY SeqReduced
<1>3. Id \in Nat /\ AudioType \in Nat /\ Id * 1000 + 1 \in Nat
  BY DEF Id, AudioType
<1>4. PICK p : p = Packet(Id, AudioType, Id * 1000 + 1, seq, ts, TRUE)
  OBVIOUS
<1>5. p \in Headers
  BY <1>2, <1>3, <1>4 DEF Packet, Headers
<1>6. OpusPacketize(Id, size, seq, ts) = Carry(p, Whole(size))
  BY <1>4 DEF OpusPacketize
<1>7. QED
  BY <1>1, <1>5, <1>6 DEF Carry, Packets

SilentPacket(size, seq, ts) ==
  [header |-> [Packet(Id, AudioType, Id * 1000 + 1, seq, ts, FALSE) EXCEPT !.extension = FALSE],
   payload |-> Whole(size)]

LEMMA SilentType ==
  ASSUME NEW size \in Nat, NEW seq \in Nat, NEW ts \in Nat
  PROVE  SilentPacket(size, seq, ts) \in Packets
<1>1. Whole(size) \in Payloads
  BY WholePayload
<1>2. seq % SequenceSpace \in 0..(SequenceSpace - 1)
  BY SeqReduced
<1>3. Id \in Nat /\ AudioType \in Nat /\ Id * 1000 + 1 \in Nat
  BY DEF Id, AudioType
<1>4. PICK p : p = Packet(Id, AudioType, Id * 1000 + 1, seq, ts, FALSE)
  OBVIOUS
<1>5. p \in Headers
  BY <1>2, <1>3, <1>4 DEF Packet, Headers
<1>6. PICK q : q = [p EXCEPT !.extension = FALSE]
  OBVIOUS
<1>7. q \in Headers
  BY <1>5, <1>6, Unextended
<1>8. SilentPacket(size, seq, ts) = [header |-> q, payload |-> Whole(size)]
  BY <1>4, <1>6 DEF SilentPacket
<1>9. QED
  BY <1>1, <1>7, <1>8 DEF Packets

-----------------------------------------------------------------------------
(* The loops. *)

Modes == {"off", "file", "synthetic"}
LoopRecords ==
  [mode : Modes, idx : Nat, seq : 0..(SequenceSpace - 1), ts : Nat, batch : Seq(Packets), next : Nat,
   counted : BOOLEAN, size : Nat, produced : Nat, ticks : Nat]

(* The packet in hand is one of the batch, and counted only while there is one. *)
LoopFits(l) ==
  /\ l.next \in 1..(Len(l.batch) + 1)
  /\ l.batch # <<>> => l.next \in 1..Len(l.batch)
  /\ l.counted => l.batch # <<>>

(* The video loop's numbers are those of its packets. *)
Limit(k) == MTU + IF k = "udp" THEN 8 ELSE FixedHeader
VideoFits(v, k) ==
  /\ v.seq = v.produced % SequenceSpace
  /\ v.batch # <<>> => FrameOf(v.batch, v.size, v.produced - Len(v.batch), v.ts - 1, Limit(k))

LoopInv(l, k) ==
  /\ l \in [Tracks -> LoopRecords]
  /\ \A t \in Tracks : LoopFits(l[t])
  /\ VideoFits(l["video"], k)

(* One loop changes. *)
LEMMA OneLoop ==
  ASSUME NEW k, NEW l, LoopInv(l, k), NEW t \in Tracks, NEW m, m = [u \in Tracks |-> m[u]],
         \A u \in Tracks \ {t} : m[u] = l[u],
         m[t] \in LoopRecords, LoopFits(m[t]), t = "video" => VideoFits(m[t], k)
  PROVE  LoopInv(m, k)
<1>1. \A u \in Tracks : m[u] \in LoopRecords /\ LoopFits(m[u])
  BY DEF LoopInv
<1>2. VideoFits(m["video"], k)
  BY DEF LoopInv, Tracks
<1>3. m \in [Tracks -> LoopRecords]
  BY <1>1
<1>4. QED
  BY <1>1, <1>2, <1>3 DEF LoopInv

(* The frame in hand stays what it is, whatever becomes of the place in the     *)
(* file, the mode and the packet's turn.                                        *)
LEMMA FrameStays ==
  ASSUME NEW k, NEW v, NEW w, VideoFits(v, k), w.seq = v.seq, w.produced = v.produced, w.ts = v.ts,
         w.batch # <<>> => w.batch = v.batch /\ w.size = v.size
  PROVE  VideoFits(w, k)
BY DEF VideoFits

LEMMA FitsStays ==
  ASSUME NEW v, NEW w, LoopFits(v), w.next = v.next, w.batch = v.batch, w.counted = v.counted
  PROVE  LoopFits(w)
BY DEF LoopFits

(* What Cut does to its loop. *)
LEMMA CutEntry ==
  ASSUME loop \in [Tracks -> LoopRecords], NEW t \in Tracks, NEW size \in Nat, NEW idx \in Nat,
         NEW packets \in Seq(Packets), Cut(t, size, idx, packets)
  PROVE  /\ loop' = [u \in Tracks |-> loop'[u]]
         /\ \A u \in Tracks \ {t} : loop'[u] = loop[u]
         /\ loop'[t] \in LoopRecords
         /\ loop'[t].batch = packets /\ loop'[t].next = 1 /\ loop'[t].size = size
         /\ loop'[t].seq = (loop[t].seq + Len(packets)) % SequenceSpace
         /\ loop'[t].produced = loop[t].produced + Len(packets)
         /\ loop'[t].ts = loop[t].ts + 1 /\ loop'[t].counted = loop[t].counted
<1>1. SequenceSpace \in Nat \ {0} /\ Len(packets) \in Nat
  BY RtpPacketAssumption
<1>2. loop[t].seq + Len(packets) \in Nat
  BY <1>1 DEF LoopRecords
<1>3. (loop[t].seq + Len(packets)) % SequenceSpace \in 0..(SequenceSpace - 1)
  BY <1>2, SeqReduced
<1>4. loop'[t] \in LoopRecords
  <2>1. Len(packets) \in Nat
    OBVIOUS
  <2>2. QED
    BY <2>1, <1>3 DEF Cut, LoopRecords
<1>5. \A u \in Tracks \ {t} : loop'[u] = loop[u]
  BY DEF Cut, LoopRecords
<1>6. loop' = [u \in Tracks |-> loop'[u]]
  BY DEF Cut
<1>7. /\ loop'[t].batch = packets /\ loop'[t].next = 1 /\ loop'[t].size = size
      /\ loop'[t].seq = (loop[t].seq + Len(packets)) % SequenceSpace
      /\ loop'[t].produced = loop[t].produced + Len(packets)
      /\ loop'[t].ts = loop[t].ts + 1 /\ loop'[t].counted = loop[t].counted
  BY DEF Cut, LoopRecords
<1>8. QED
  BY <1>4, <1>5, <1>6, <1>7

(* A new batch keeps the loops as they should be. *)
LEMMA CutKeeps ==
  ASSUME NEW k, LoopInv(loop, k), NEW t \in Tracks, Waiting(t), NEW size \in Nat, NEW idx \in Nat,
         NEW packets \in Seq(Packets), packets # <<>>, Cut(t, size, idx, packets),
         t = "video" => FrameOf(packets, size, loop[t].seq, loop[t].ts, Limit(k))
  PROVE  LoopInv(loop', k)
<1>1. loop \in [Tracks -> LoopRecords] /\ loop[t] \in LoopRecords
  BY DEF LoopInv
<1>2. /\ loop' = [u \in Tracks |-> loop'[u]]
      /\ \A u \in Tracks \ {t} : loop'[u] = loop[u]
      /\ loop'[t] \in LoopRecords
      /\ loop'[t].batch = packets /\ loop'[t].next = 1 /\ loop'[t].size = size
      /\ loop'[t].seq = (loop[t].seq + Len(packets)) % SequenceSpace
      /\ loop'[t].produced = loop[t].produced + Len(packets)
      /\ loop'[t].ts = loop[t].ts + 1 /\ loop'[t].counted = loop[t].counted
  BY <1>1, CutEntry
<1>3. Len(packets) \in Nat /\ Len(packets) > 0
  OBVIOUS
<1>4. LoopFits(loop'[t])
  BY <1>2, <1>3 DEF LoopFits
<1>5. ASSUME t = "video"
      PROVE  VideoFits(loop'[t], k)
  <2>1. loop[t].seq = loop[t].produced % SequenceSpace /\ loop[t].produced \in Nat /\ loop[t].ts \in Nat
    BY <1>1, <1>5 DEF LoopInv, VideoFits, LoopRecords
  <2>2. SequenceSpace \in Nat \ {0}
    BY RtpPacketAssumption
  <2>3. PICK n \in Nat : n = loop[t].produced
    BY <2>1
  <2>4. loop'[t].seq = loop'[t].produced % SequenceSpace
    <3>1. PICK len \in Nat : len = Len(packets)
      BY <1>3
    <3>2. loop'[t].seq = ((n % SequenceSpace) + len) % SequenceSpace
      BY <1>2, <2>1, <2>3, <3>1
    <3>3. loop'[t].produced = n + len
      BY <1>2, <2>3, <3>1
    <3>4. ((n % SequenceSpace) + len) % SequenceSpace = (n + len) % SequenceSpace
      BY <2>2, <2>3, <3>1, ModPlus
    <3>5. QED
      BY <3>2, <3>3, <3>4
  <2>5. loop'[t].produced - Len(loop'[t].batch) = n /\ loop'[t].ts - 1 = loop[t].ts
    BY <1>2, <1>3, <2>1, <2>3
  <2>6. InOneFrame(packets, n, loop[t].ts)
    <3>1. InOneFrame(packets, loop[t].seq, loop[t].ts)
      BY <1>5 DEF FrameOf
    <3>2. ASSUME NEW i \in DOMAIN packets
          PROVE  (loop[t].seq + i - 1) % SequenceSpace = (n + i - 1) % SequenceSpace
      <4>1. i - 1 \in Nat /\ n \in Nat
        OBVIOUS
      <4>2. ((n % SequenceSpace) + (i - 1)) % SequenceSpace = (n + (i - 1)) % SequenceSpace
        BY <2>2, <4>1, ModPlus
      <4>3. n % SequenceSpace \in Nat
        BY <2>2, DivMod
      <4>4. (n % SequenceSpace) + (i - 1) = loop[t].seq + i - 1 /\ n + (i - 1) = n + i - 1
        BY <2>1, <2>3, <4>1, <4>3
      <4>5. QED
        BY <4>2, <4>4
    <3>3. QED
      BY <3>1, <3>2 DEF InOneFrame
  <2>7. FrameOf(packets, size, n, loop[t].ts, Limit(k))
    BY <1>5, <2>6 DEF FrameOf
  <2>8. QED
    BY <1>2, <2>4, <2>5, <2>7 DEF VideoFits
<1>6. QED
  BY <1>2, <1>4, <1>5, OneLoop

-----------------------------------------------------------------------------
(* The steps of the sender. *)

Datagrams == {Marshal(p) : p \in Packets}

SenderTypes ==
  /\ kind \in {"udp", "webrtc"}
  /\ source.video \in Seq(Nat) /\ source.audio \in Seq(Nat)
  /\ active \in BOOLEAN /\ socket \in {"open", "closed"}
  /\ emitted \subseteq Datagrams /\ wire \subseteq emitted

SenderInv == SenderTypes /\ LoopInv(loop, kind)

LEMMA EntryType ==
  ASSUME SenderInv, NEW t \in Tracks
  PROVE  /\ loop \in [Tracks -> LoopRecords] /\ loop[t] \in LoopRecords /\ LoopFits(loop[t])
         /\ loop[t].batch \in Seq(Packets) /\ loop[t].idx \in Nat /\ loop[t].seq \in Nat
         /\ loop[t].ts \in Nat /\ loop[t].ticks \in Nat
<1>1. loop \in [Tracks -> LoopRecords] /\ loop[t] \in LoopRecords /\ LoopFits(loop[t])
  BY DEF SenderInv, LoopInv
<1>2. 0..(SequenceSpace - 1) \subseteq Nat
  BY RtpPacketAssumption
<1>3. QED
  BY <1>1, <1>2 DEF LoopRecords

LEMMA UnitType ==
  ASSUME SenderInv, NEW t \in Tracks
  PROVE  NextUnit(t).size \in Nat /\ NextUnit(t).idx \in Nat
<1>1. loop[t].idx \in Nat
  BY EntryType
<1>2. ASSUME NEW i \in Nat
      PROVE  UnitAt(t, i) \in Nat
  <2>1. \A s \in Seq(Nat) : i < Len(s) => s[i + 1] \in Nat
    OBVIOUS
  <2>2. QED
    BY <2>1 DEF SenderInv, SenderTypes, UnitAt, GetVideoNAL, GetAudioPacket
<1>3. QED
  BY <1>1, <1>2 DEF NextUnit

LEMMA FrameSize ==
  ASSUME NEW kbps \in Bitrates
  PROVE  generateSyntheticFrame(kbps) \in Nat
<1>1. kbps \in Int /\ Fps \in Nat \ {0} /\ MinFrame \in Nat /\ MaxFrame \in Nat
  BY SenderAssumption
<1>2. PICK rate \in Int : rate = IF kbps <= 0 THEN DefaultBitrateKbps ELSE kbps
  BY <1>1 DEF DefaultBitrateKbps
<1>3. PICK bytes \in Int : bytes = (rate * 1000) \div 8
  OBVIOUS
<1>4. PICK size \in Int : size = bytes \div Fps
  BY <1>1
<1>5. generateSyntheticFrame(kbps) = IF size < MinFrame THEN MinFrame ELSE IF size > MaxFrame THEN MaxFrame ELSE size
  BY <1>2, <1>3, <1>4 DEF generateSyntheticFrame
<1>6. QED
  BY <1>1, <1>5

(* Only the loops change. *)
LEMMA LoopsOnly ==
  ASSUME SenderInv, LoopInv(loop', kind),
         UNCHANGED <<kind, source, active, socket, wire, emitted>>
  PROVE  SenderInv' /\ emitted \subseteq emitted'
BY DEF SenderInv, SenderTypes, LoopInv

(* Everything but a loop's mode, place in the file and number of ticks. *)
SameBatch(w, v) ==
  /\ w.seq = v.seq /\ w.produced = v.produced /\ w.ts = v.ts /\ w.batch = v.batch
  /\ w.size = v.size /\ w.next = v.next /\ w.counted = v.counted

LEMMA PlaceChanges ==
  ASSUME SenderInv, NEW t \in Tracks, NEW m, m = [u \in Tracks |-> m[u]],
         \A u \in Tracks \ {t} : m[u] = loop[u], m[t] \in LoopRecords, SameBatch(m[t], loop[t])
  PROVE  LoopInv(m, kind)
<1>1. LoopFits(loop[t])
  BY EntryType
<1>2. LoopFits(m[t])
  BY <1>1, FitsStays DEF SameBatch
<1>3. t = "video" => VideoFits(m[t], kind)
  <2> SUFFICES ASSUME t = "video" PROVE VideoFits(m[t], kind)
    OBVIOUS
  <2>1. VideoFits(loop[t], kind)
    BY DEF SenderInv, LoopInv
  <2>2. QED
    BY <2>1, FrameStays DEF SameBatch
<1>4. LoopInv(loop, kind)
  BY DEF SenderInv
<1>5. QED
  BY <1>2, <1>3, <1>4, OneLoop

LEMMA DropFrameKeeps ==
  ASSUME SenderInv, DropFrame
  PROVE  SenderInv' /\ emitted \subseteq emitted'
<1> DEFINE v == loop["video"]
<1>1. "video" \in Tracks
  BY DEF Tracks
<1>2. v \in LoopRecords /\ loop \in [Tracks -> LoopRecords]
  BY <1>1, EntryType
<1>3. v.idx \in Nat /\ v.ticks \in Nat
  BY <1>2 DEF LoopRecords
<1>4. PICK idx \in Nat : idx = IF kind = "udp" /\ v.mode = "synthetic" THEN v.idx ELSE v.idx + 1
  <2>1. v.idx + 1 \in Nat
    BY <1>3
  <2>2. CASE kind = "udp" /\ v.mode = "synthetic"
    BY <1>3, <2>2
  <2>3. CASE ~ (kind = "udp" /\ v.mode = "synthetic")
    BY <2>1, <2>3
  <2>4. QED
    BY <2>2, <2>3
<1>5. PICK ticks \in Nat : ticks = v.ticks + 1
  BY <1>3
<1>6. loop' = [loop EXCEPT !["video"].ticks = @ + 1,
                          !["video"].idx = IF kind = "udp" /\ loop["video"].mode = "synthetic"
                                             THEN @ ELSE @ + 1]
  BY DEF DropFrame
<1>7. loop' = [u \in Tracks |-> loop'[u]] /\ \A u \in Tracks \ {"video"} : loop'[u] = loop[u]
  BY <1>2, <1>6
<1>8. loop'["video"] = [v EXCEPT !.ticks = ticks, !.idx = idx]
  BY <1>1, <1>2, <1>4, <1>5, <1>6 DEF LoopRecords
<1>9. loop'["video"] \in LoopRecords /\ SameBatch(loop'["video"], v)
  BY <1>2, <1>8 DEF LoopRecords, SameBatch
<1>10. LoopInv(loop', kind)
  BY <1>1, <1>7, <1>9, PlaceChanges
<1>11. QED
  BY <1>10, LoopsOnly DEF DropFrame

LEMMA ModeChanges ==
  ASSUME SenderInv, NEW t \in Tracks, NEW mode \in Modes, NEW idx \in Nat,
         \/ loop' = [loop EXCEPT ![t].mode = mode]
         \/ loop' = [loop EXCEPT ![t].mode = mode, ![t].idx = idx],
         UNCHANGED <<kind, source, active, socket, wire, emitted>>
  PROVE  SenderInv' /\ emitted \subseteq emitted'
<1>1. loop[t] \in LoopRecords /\ loop \in [Tracks -> LoopRecords]
  BY EntryType
<1>2. loop' = [u \in Tracks |-> loop'[u]]
  BY <1>1
<1>3. \A u \in Tracks \ {t} : loop'[u] = loop[u]
  BY <1>1
<1>4. \/ loop'[t] = [loop[t] EXCEPT !.mode = mode]
      \/ loop'[t] = [loop[t] EXCEPT !.mode = mode, !.idx = idx]
  BY <1>1
<1>5. loop'[t] \in LoopRecords /\ SameBatch(loop'[t], loop[t])
  BY <1>1, <1>4 DEF LoopRecords, SameBatch
<1>6. LoopInv(loop', kind)
  BY <1>2, <1>3, <1>5, PlaceChanges
<1>7. QED
  BY <1>6, LoopsOnly

LEMMA LoopEndsKeeps ==
  ASSUME SenderInv, NEW t \in Tracks, LoopEnds(t)
  PROVE  SenderInv' /\ emitted \subseteq emitted'
<1>1. "off" \in Modes /\ 0 \in Nat
  BY DEF Modes
<1>2. loop' = [loop EXCEPT ![t].mode = "off"]
  BY DEF LoopEnds
<1>3. UNCHANGED <<kind, source, active, socket, wire, emitted>>
  BY DEF LoopEnds
<1>4. QED
  BY <1>1, <1>2, <1>3, ModeChanges

LEMMA StartKeeps ==
  ASSUME SenderInv, Start
  PROVE  SenderInv' /\ emitted \subseteq emitted'
<1>1. "video" \in Tracks /\ "audio" \in Tracks /\ Tracks = {"video", "audio"}
  BY DEF Tracks
<1>2. loop \in [Tracks -> LoopRecords] /\ loop["video"] \in LoopRecords /\ loop["audio"] \in LoopRecords
  BY <1>1, EntryType
<1>3. VideoMode \in Modes /\ AudioMode \in Modes
  BY DEF VideoMode, AudioMode, Modes
<1>4. PICK m : m = [loop EXCEPT !["video"].mode = VideoMode, !["audio"].mode = AudioMode]
  OBVIOUS
<1>5. /\ m = [u \in Tracks |-> m[u]]
      /\ m["video"] = [loop["video"] EXCEPT !.mode = VideoMode]
      /\ m["audio"] = [loop["audio"] EXCEPT !.mode = AudioMode]
  BY <1>1, <1>2, <1>4
<1>6. ASSUME NEW t \in Tracks, NEW mode \in Modes, m[t] = [loop[t] EXCEPT !.mode = mode]
      PROVE  /\ m[t] \in LoopRecords /\ LoopFits(m[t])
             /\ t = "video" => VideoFits(m[t], kind)
  <2>1. loop[t] \in LoopRecords /\ LoopFits(loop[t])
    BY EntryType
  <2>2. /\ m[t] \in LoopRecords
        /\ m[t].seq = loop[t].seq /\ m[t].produced = loop[t].produced /\ m[t].ts = loop[t].ts
        /\ m[t].batch = loop[t].batch /\ m[t].size = loop[t].size
        /\ m[t].next = loop[t].next /\ m[t].counted = loop[t].counted
    BY <1>6, <2>1 DEF LoopRecords
  <2>3. LoopFits(m[t])
    BY <2>1, <2>2, FitsStays
  <2>4. VideoFits(loop["video"], kind)
    BY DEF SenderInv, LoopInv
  <2>5. QED
    BY <2>2, <2>3, <2>4, FrameStays
<1>7. \A t \in Tracks : m[t] \in LoopRecords /\ LoopFits(m[t])
  BY <1>1, <1>3, <1>5, <1>6
<1>8. VideoFits(m["video"], kind)
  BY <1>1, <1>3, <1>5, <1>6
<1>9. m \in [Tracks -> LoopRecords]
  BY <1>5, <1>7
<1>10. LoopInv(loop', kind)
  BY <1>4, <1>7, <1>8, <1>9 DEF Start, LoopInv
<1>11. QED
  BY <1>10 DEF Start, SenderInv, SenderTypes

LEMMA StopKeeps ==
  ASSUME SenderInv, Stop
  PROVE  SenderInv' /\ emitted \subseteq emitted'
BY DEF Stop, SenderInv, SenderTypes

(* A frame is cut from the unit, the field or the generator. *)
LEMMA BatchBegins ==
  ASSUME SenderInv, NEW t \in Tracks, Waiting(t), NEW size \in Nat, NEW idx \in Nat,
         NEW packets \in Seq(Packets), packets # <<>>, Cut(t, size, idx, packets),
         t = "video" => FrameOf(packets, size, loop[t].seq, loop[t].ts, Limit(kind)),
         UNCHANGED <<kind, source, active, socket, wire, emitted>>
  PROVE  SenderInv' /\ emitted \subseteq emitted'
<1>1. LoopInv(loop, kind)
  BY DEF SenderInv
<1>2. LoopInv(loop', kind)
  BY <1>1, CutKeeps
<1>3. QED
  BY <1>2, LoopsOnly

LEMMA FrameIsBatch ==
  ASSUME NEW packets, NEW size, NEW seq, NEW ts, NEW limit, FrameOf(packets, size, seq, ts, limit)
  PROVE  packets \in Seq(Packets) /\ packets # <<>>
BY DEF FrameOf, Reassembles

LEMMA UdpFrame ==
  ASSUME SenderInv, kind = "udp", NEW size \in Nat, NEW packets,
         packets = H264Packetize(Id, size, loop["video"].seq, loop["video"].ts)
  PROVE  /\ packets \in Seq(Packets) /\ packets # <<>>
         /\ FrameOf(packets, size, loop["video"].seq, loop["video"].ts, Limit(kind))
<1>1. "video" \in Tracks /\ Id \in Nat
  BY DEF Tracks, Id
<1>2. loop["video"].seq \in Nat /\ loop["video"].ts \in Nat
  BY <1>1, EntryType
<1>3. Limit(kind) = MTU + 8
  BY DEF Limit
<1>4. FrameOf(packets, size, loop["video"].seq, loop["video"].ts, Limit(kind))
  BY <1>1, <1>2, <1>3, UnitsBecomeFrames
<1>5. QED
  BY <1>4, FrameIsBatch

LEMMA TrackFrame ==
  ASSUME SenderInv, kind = "webrtc", NEW size \in Nat, NEW packets,
         packets = packetizeH264(Id, size, loop["video"].seq, loop["video"].ts)
  PROVE  /\ packets \in Seq(Packets) /\ packets # <<>>
         /\ FrameOf(packets, size, loop["video"].seq, loop["video"].ts, Limit(kind))
<1>1. "video" \in Tracks /\ Id \in Nat
  BY DEF Tracks, Id
<1>2. loop["video"].seq \in Nat /\ loop["video"].ts \in Nat
  BY <1>1, EntryType
<1>3. Limit(kind) = MTU + FixedHeader
  BY DEF Limit
<1>4. FrameOf(packets, size, loop["video"].seq, loop["video"].ts, Limit(kind))
  BY <1>1, <1>2, <1>3, TrackFrames
<1>5. QED
  BY <1>4, FrameIsBatch

LEMMA VideoLoopKeeps ==
  ASSUME SenderInv, runVideoLoop
  PROVE  SenderInv' /\ emitted \subseteq emitted'
<1>1. "video" \in Tracks
  BY DEF Tracks
<1>2. PICK size \in Nat, idx \in Nat : size = NextUnit("video").size /\ idx = NextUnit("video").idx
  BY <1>1, UnitType
<1>3. /\ UNCHANGED <<kind, source, active, socket, wire, emitted>>
      /\ Waiting("video") /\ kind = "udp"
  BY DEF runVideoLoop, Tick
<1>4. CASE size > 0
  <2>1. PICK packets : packets = H264Packetize(Id, size, loop["video"].seq, loop["video"].ts)
    OBVIOUS
  <2>2. Cut("video", size, idx + 1, packets)
    BY <1>2, <1>4, <2>1 DEF runVideoLoop
  <2>3. /\ packets \in Seq(Packets) /\ packets # <<>>
        /\ FrameOf(packets, size, loop["video"].seq, loop["video"].ts, Limit(kind))
    BY <1>3, <2>1, UdpFrame
  <2>4. idx + 1 \in Nat
    OBVIOUS
  <2>5. QED
    BY <1>1, <1>3, <2>2, <2>3, <2>4, BatchBegins
<1>5. CASE ~ (size > 0)
  <2>1. loop' = [loop EXCEPT !["video"].mode = "synthetic", !["video"].idx = 0]
    BY <1>2, <1>5 DEF runVideoLoop
  <2>2. "synthetic" \in Modes /\ 0 \in Nat
    BY DEF Modes
  <2>3. QED
    BY <1>1, <1>3, <2>1, <2>2, ModeChanges
<1>6. QED
  BY <1>4, <1>5

LEMMA FrameLoopKeeps ==
  ASSUME SenderInv, runFrameLoop
  PROVE  SenderInv' /\ emitted \subseteq emitted'
<1>1. "video" \in Tracks
  BY DEF Tracks
<1>2. /\ UNCHANGED <<kind, source, active, socket, wire, emitted>>
      /\ Waiting("video") /\ kind = "udp"
  BY DEF runFrameLoop, Tick
<1>3. PICK kbps \in Bitrates :
        Cut("video", generateSyntheticFrame(kbps), loop["video"].idx,
            H264Packetize(Id, generateSyntheticFrame(kbps), loop["video"].seq, loop["video"].ts))
  BY DEF runFrameLoop
<1>4. PICK size \in Nat : size = generateSyntheticFrame(kbps)
  BY FrameSize
<1>5. PICK packets : packets = H264Packetize(Id, size, loop["video"].seq, loop["video"].ts)
  OBVIOUS
<1>6. /\ packets \in Seq(Packets) /\ packets # <<>>
      /\ FrameOf(packets, size, loop["video"].seq, loop["video"].ts, Limit(kind))
  BY <1>2, <1>5, UdpFrame
<1>7. Cut("video", size, loop["video"].idx, packets)
  BY <1>3, <1>4, <1>5
<1>8. loop["video"].idx \in Nat
  BY <1>1, EntryType
<1>9. QED
  BY <1>1, <1>2, <1>6, <1>7, <1>8, BatchBegins

LEMMA StreamVideoKeeps ==
  ASSUME SenderInv, streamVideo
  PROVE  SenderInv' /\ emitted \subseteq emitted'
<1>1. "video" \in Tracks
  BY DEF Tracks
<1>2. /\ UNCHANGED <<kind, source, active, socket, wire, emitted>>
      /\ Waiting("video") /\ kind = "webrtc"
  BY DEF streamVideo, Tick
<1>3. PICK kbps \in Bitrates :
        LET v == loop["video"]
            unit == NextUnit("video")
            size == IF v.mode = "file" /\ unit.size > 0 THEN unit.size
                                                        ELSE generateSyntheticFrame(kbps)
            idx == IF v.mode = "file" THEN unit.idx + 1 ELSE v.idx
        IN Cut("video", size, idx, packetizeH264(Id, size, v.seq, v.ts))
  BY DEF streamVideo
<1>4. PICK unitSize \in Nat, unitIdx \in Nat :
        unitSize = NextUnit("video").size /\ unitIdx = NextUnit("video").idx
  BY <1>1, UnitType
<1>5. PICK size \in Nat :
        size = IF loop["video"].mode = "file" /\ unitSize > 0 THEN unitSize ELSE generateSyntheticFrame(kbps)
  BY FrameSize
<1>6. PICK idx \in Nat : idx = IF loop["video"].mode = "file" THEN unitIdx + 1 ELSE loop["video"].idx
  <2>1. loop["video"].idx \in Nat /\ unitIdx + 1 \in Nat
    BY <1>1, EntryType
  <2>2. QED
    BY <2>1
<1>7. PICK packets : packets = packetizeH264(Id, size, loop["video"].seq, loop["video"].ts)
  OBVIOUS
<1>8. /\ packets \in Seq(Packets) /\ packets # <<>>
      /\ FrameOf(packets, size, loop["video"].seq, loop["video"].ts, Limit(kind))
  BY <1>2, <1>7, TrackFrame
<1>9. Cut("video", size, idx, packets)
  BY <1>3, <1>4, <1>5, <1>6, <1>7
<1>10. QED
  BY <1>1, <1>2, <1>8, <1>9, BatchBegins

LEMMA OnePacket ==
  ASSUME NEW p \in Packets
  PROVE  <<p>> \in Seq(Packets) /\ <<p>> # <<>>
OBVIOUS

LEMMA AudioLoopKeeps ==
  ASSUME SenderInv, runAudioLoop
  PROVE  SenderInv' /\ emitted \subseteq emitted'
<1>1. "audio" \in Tracks /\ "audio" # "video"
  BY DEF Tracks
<1>2. PICK size \in Nat, idx \in Nat : size = NextUnit("audio").size /\ idx = NextUnit("audio").idx
  BY <1>1, UnitType
<1>3. UNCHANGED <<kind, source, active, socket, wire, emitted>> /\ Waiting("audio")
  BY DEF runAudioLoop, Tick
<1>4. CASE size > 0
  <2>1. PICK p : p = OpusPacketize(Id, size, loop["audio"].seq, loop["audio"].ts)
    OBVIOUS
  <2>2. loop["audio"].seq \in Nat /\ loop["audio"].ts \in Nat
    BY <1>1, EntryType
  <2>3. <<p>> \in Seq(Packets) /\ <<p>> # <<>>
    <3>1. p \in Packets
      BY <2>1, <2>2, OpusType
    <3>2. QED
      BY <3>1, OnePacket
  <2>4. Cut("audio", size, idx + 1, <<p>>)
    BY <1>2, <1>4, <2>1 DEF runAudioLoop
  <2>5. idx + 1 \in Nat
    OBVIOUS
  <2>6. QED
    BY <1>1, <1>3, <2>3, <2>4, <2>5, BatchBegins
<1>5. CASE ~ (size > 0)
  <2>1. loop' = [loop EXCEPT !["audio"].mode = "off", !["audio"].idx = 0]
    BY <1>2, <1>5 DEF runAudioLoop
  <2>2. "off" \in Modes /\ 0 \in Nat
    BY DEF Modes
  <2>3. QED
    BY <1>1, <1>3, <2>1, <2>2, ModeChanges
<1>6. QED
  BY <1>4, <1>5

LEMMA StreamAudioKeeps ==
  ASSUME SenderInv, streamAudio
  PROVE  SenderInv' /\ emitted \subseteq emitted'
<1>1. "audio" \in Tracks /\ "audio" # "video"
  BY DEF Tracks
<1>2. UNCHANGED <<kind, source, active, socket, wire, emitted>> /\ Waiting("audio")
  BY DEF streamAudio, Tick
<1>3. PICK unitSize \in Nat, unitIdx \in Nat :
        unitSize = NextUnit("audio").size /\ unitIdx = NextUnit("audio").idx
  BY <1>1, UnitType
<1>4. loop["audio"].seq \in Nat /\ loop["audio"].ts \in Nat /\ loop["audio"].idx \in Nat
  BY <1>1, EntryType
<1>4a. PICK seq \in Nat, ts \in Nat : seq = loop["audio"].seq /\ ts = loop["audio"].ts
  BY <1>4
<1>5. PICK real \in Nat : real = IF loop["audio"].mode = "file" /\ unitSize > 0 THEN unitSize ELSE generateOpusFrame
  BY DEF generateOpusFrame
<1>6. PICK idx \in Nat : idx = IF loop["audio"].mode = "file" THEN unitIdx + 1 ELSE loop["audio"].idx
  <2>1. unitIdx + 1 \in Nat
    OBVIOUS
  <2>2. QED
    BY <1>4, <2>1
<1>7. \/ Cut("audio", real, idx, <<SilentPacket(real, seq, ts)>>)
      \/ Cut("audio", SilenceFrame, loop["audio"].idx, <<SilentPacket(SilenceFrame, seq, ts)>>)
  BY <1>3, <1>4a, <1>5, <1>6 DEF streamAudio, SilentPacket
<1>8. PICK size \in Nat, at \in Nat : Cut("audio", size, at, <<SilentPacket(size, seq, ts)>>)
  BY <1>4, <1>7 DEF SilenceFrame
<1>9. PICK p : p = SilentPacket(size, seq, ts)
  OBVIOUS
<1>10. <<p>> \in Seq(Packets) /\ <<p>> # <<>>
  BY <1>9, SilentType, OnePacket
<1>11. Cut("audio", size, at, <<p>>)
  BY <1>8, <1>9
<1>12. QED
  BY <1>1, <1>2, <1>10, <1>11, BatchBegins

LEMMA HandType ==
  ASSUME SenderInv, NEW t \in Tracks, loop[t].batch # <<>>
  PROVE  InHand(t) \in Packets /\ Marshal(InHand(t)) \in Datagrams
<1>1. PICK batch \in Seq(Packets), next \in {loop[t].next} : batch = loop[t].batch /\ next = loop[t].next
  BY EntryType
<1>2. next \in 1..Len(batch)
  BY <1>1, EntryType DEF LoopFits
<1>3. InHand(t) \in Packets
  BY <1>1, <1>2 DEF InHand
<1>4. QED
  BY <1>3 DEF Datagrams

LEMMA AdvancedKeeps ==
  ASSUME SenderInv, NEW t \in Tracks, loop[t].batch # <<>>, loop' = Advanced(t)
  PROVE  LoopInv(loop', kind)
<1>1. loop[t] \in LoopRecords /\ loop \in [Tracks -> LoopRecords] /\ LoopFits(loop[t])
  BY EntryType
<1>2. PICK l \in LoopRecords : l = loop[t]
  BY <1>1
<1>3. l.next \in 1..Len(l.batch) /\ l.next \in Nat /\ Len(l.batch) \in Nat /\ l.batch # <<>>
  BY <1>1, <1>2 DEF LoopFits, LoopRecords
<1>4. /\ loop' = [u \in Tracks |-> loop'[u]]
      /\ \A u \in Tracks \ {t} : loop'[u] = loop[u]
  BY <1>1 DEF Advanced
<1>5. CASE l.next < Len(l.batch)
  <2>1. PICK m : m = [l EXCEPT !.next = l.next + 1, !.counted = FALSE]
    OBVIOUS
  <2>2. loop'[t] = m
    BY <1>1, <1>2, <1>5, <2>1 DEF Advanced
  <2>3. /\ m.next = l.next + 1 /\ m.counted = FALSE /\ m.batch = l.batch
        /\ m.seq = l.seq /\ m.produced = l.produced /\ m.ts = l.ts /\ m.size = l.size
    BY <2>1 DEF LoopRecords
  <2>4. m \in LoopRecords
    <3>1. l.next + 1 \in Nat
      BY <1>3
    <3>2. QED
      BY <2>1, <3>1 DEF LoopRecords
  <2>5. LoopFits(m)
    BY <1>3, <1>5, <2>3 DEF LoopFits
  <2>6. t = "video" => VideoFits(m, kind)
    BY <1>2, <2>3, FrameStays DEF SenderInv, LoopInv
  <2>7. QED
    BY <1>4, <2>2, <2>4, <2>5, <2>6, OneLoop DEF SenderInv
<1>6. CASE ~ (l.next < Len(l.batch))
  <2>1. PICK m : m = [l EXCEPT !.next = 1, !.counted = FALSE, !.batch = <<>>, !.size = 0]
    OBVIOUS
  <2>2. loop'[t] = m
    BY <1>1, <1>2, <1>6, <2>1 DEF Advanced
  <2>3. /\ m.next = 1 /\ m.counted = FALSE /\ m.batch = <<>>
        /\ m.seq = l.seq /\ m.produced = l.produced /\ m.ts = l.ts
    BY <2>1 DEF LoopRecords
  <2>4. m \in LoopRecords
    <3>1. <<>> \in Seq(Packets)
      OBVIOUS
    <3>2. QED
      BY <2>1, <3>1 DEF LoopRecords
  <2>5. LoopFits(m)
    BY <2>3 DEF LoopFits
  <2>6. t = "video" => VideoFits(m, kind)
    BY <1>2, <2>3, FrameStays DEF SenderInv, LoopInv
  <2>7. QED
    BY <1>4, <2>2, <2>4, <2>5, <2>6, OneLoop DEF SenderInv
<1>7. QED
  BY <1>5, <1>6

LEMMA CountKeeps ==
  ASSUME SenderInv, NEW t \in Tracks, CountPacket(t)
  PROVE  SenderInv' /\ emitted \subseteq emitted'
<1>1. loop[t] \in LoopRecords /\ loop \in [Tracks -> LoopRecords] /\ LoopFits(loop[t])
  BY EntryType
<1>2. PICK l \in LoopRecords : l = loop[t]
  BY <1>1
<1>3. PICK m : m = [l EXCEPT !.counted = TRUE]
  OBVIOUS
<1>4. /\ loop' = [u \in Tracks |-> loop'[u]]
      /\ \A u \in Tracks \ {t} : loop'[u] = loop[u]
  BY <1>1 DEF CountPacket
<1>5. loop'[t] = m
  BY <1>1, <1>2, <1>3 DEF CountPacket
<1>6. /\ m \in LoopRecords /\ m.next = l.next /\ m.batch = l.batch
      /\ m.seq = l.seq /\ m.produced = l.produced /\ m.ts = l.ts /\ m.size = l.size
  BY <1>3 DEF LoopRecords
<1>7. LoopFits(m)
  BY <1>1, <1>2, <1>6 DEF LoopFits, CountPacket
<1>8. t = "video" => VideoFits(m, kind)
  BY <1>2, <1>6, FrameStays DEF SenderInv, LoopInv
<1>9. LoopInv(loop', kind)
  BY <1>4, <1>5, <1>6, <1>7, <1>8, OneLoop DEF SenderInv
<1>10. QED
  BY <1>9, LoopsOnly DEF CountPacket

LEMMA PacketLeaves ==
  ASSUME SenderInv, NEW t \in Tracks, loop[t].batch # <<>>, loop' = Advanced(t),
         UNCHANGED <<kind, source, active, socket>>,
         emitted \subseteq emitted', emitted' \subseteq Datagrams, wire' \subseteq emitted'
  PROVE  SenderInv' /\ emitted \subseteq emitted'
<1>1. LoopInv(loop', kind)
  BY AdvancedKeeps
<1>2. QED
  BY <1>1 DEF SenderInv, SenderTypes

LEMMA DropKeeps ==
  ASSUME SenderInv, NEW t \in Tracks, DropPacket(t)
  PROVE  SenderInv' /\ emitted \subseteq emitted'
<1>1. emitted' = emitted /\ wire' = wire
  BY DEF DropPacket
<1>2. emitted' \subseteq Datagrams /\ wire' \subseteq emitted'
  BY <1>1 DEF SenderInv, SenderTypes
<1>3. loop[t].batch # <<>> /\ loop' = Advanced(t) /\ UNCHANGED <<kind, source, active, socket>>
  BY DEF DropPacket
<1>4. QED
  BY <1>1, <1>2, <1>3, PacketLeaves

LEMMA WriteToUDPKeeps ==
  ASSUME SenderInv, NEW t \in Tracks, WriteToUDP(t)
  PROVE  SenderInv' /\ emitted \subseteq emitted'
<1>1. loop[t].batch # <<>> /\ loop' = Advanced(t) /\ UNCHANGED <<kind, source, active, socket>>
  BY DEF WriteToUDP
<1>2. PICK d \in Datagrams : d = Marshal(InHand(t))
  BY <1>1, HandType
<1>3. \/ emitted' = emitted \union {d} /\ (wire' = wire \/ wire' = wire \union {d})
      \/ emitted' = emitted /\ wire' = wire
  BY <1>2 DEF WriteToUDP
<1>4. emitted \subseteq Datagrams /\ wire \subseteq emitted
  BY DEF SenderInv, SenderTypes
<1>5. emitted \subseteq emitted' /\ emitted' \subseteq Datagrams /\ wire' \subseteq emitted'
  BY <1>3, <1>4
<1>6. QED
  BY <1>1, <1>5, PacketLeaves

LEMMA WriteRTPKeeps ==
  ASSUME SenderInv, NEW t \in Tracks, WriteRTP(t)
  PROVE  SenderInv' /\ emitted \subseteq emitted'
<1>1. loop[t].batch # <<>> /\ loop' = Advanced(t) /\ UNCHANGED <<kind, source, active, socket>>
  BY DEF WriteRTP
<1>2. PICK d \in Datagrams : d = Marshal(InHand(t))
  BY <1>1, HandType
<1>3. (emitted' = emitted \union {d} \/ emitted' = emitted) /\ wire' = wire
  BY <1>2 DEF WriteRTP
<1>4. emitted \subseteq Datagrams /\ wire \subseteq emitted
  BY DEF SenderInv, SenderTypes
<1>5. emitted \subseteq emitted' /\ emitted' \subseteq Datagrams /\ wire' \subseteq emitted'
  BY <1>3, <1>4
<1>6. QED
  BY <1>1, <1>5, PacketLeaves

LEMMA SenderKeeps ==
  ASSUME SenderInv, SenderNext
  PROVE  SenderInv' /\ emitted \subseteq emitted'
<1>1. ASSUME NEW t \in Tracks, LoopEnds(t) \/ CountPacket(t) \/ DropPacket(t) \/ WriteToUDP(t) \/ WriteRTP(t)
      PROVE  SenderInv' /\ emitted \subseteq emitted'
  BY <1>1, LoopEndsKeeps, CountKeeps, DropKeeps, WriteToUDPKeeps, WriteRTPKeeps
<1>2. QED
  BY <1>1, StartKeeps, StopKeeps, DropFrameKeeps, VideoLoopKeeps, FrameLoopKeeps, StreamVideoKeeps,
     AudioLoopKeeps, StreamAudioKeeps DEF SenderNext

LEMMA SenderBegins ==
  ASSUME NEW setup \in Setups, SenderInit(setup)
  PROVE  SenderInv
<1>1. SequenceSpace \in Nat \ {0} /\ 0 % SequenceSpace = 0
  BY RtpPacketAssumption
<1>2. IdleLoop \in LoopRecords
  <2>1. <<>> \in Seq(Packets) /\ 0 \in 0..(SequenceSpace - 1)
    BY <1>1
  <2>2. QED
    BY <2>1 DEF IdleLoop, LoopRecords, Modes
<1>3. LoopFits(IdleLoop) /\ VideoFits(IdleLoop, kind)
  BY <1>1 DEF IdleLoop, LoopFits, VideoFits
<1>4. loop = [t \in Tracks |-> IdleLoop]
  BY DEF SenderInit
<1>5. LoopInv(loop, kind)
  BY <1>2, <1>3, <1>4 DEF LoopInv, Tracks
<1>6. SenderTypes
  BY SenderAssumption DEF SenderInit, SenderTypes
<1>7. QED
  BY <1>5, <1>6 DEF SenderInv

-----------------------------------------------------------------------------
(* Datagrams on their way. *)

(* What a receive buffer of the relay keeps of them. *)
Kept(d) == Truncate(d, Buffer)
KeptDatagrams == {Kept(d) : d \in Datagrams}

LEMMA DatagramShape ==
  ASSUME NEW d \in Datagrams
  PROVE  d.len \in Nat /\ d.len > 0 /\ d.header.seq \in 0..(SequenceSpace - 1)
<1>1. PICK p \in Packets : d = Marshal(p)
  BY DEF Datagrams
<1>2. Marshal(p).len = FixedHeader + (IF p.header.extension THEN 8 ELSE 0) + PayloadSize(p.payload)
      /\ PayloadSize(p.payload) \in Nat
  <2>1. PayloadSize(p.payload) \in Nat
    BY DEF Packets, Payloads, PayloadSize
  <2>2. QED
    BY <2>1, MarshalLength
<1>3. d.len \in Nat /\ d.len > 0
  <2>1. PICK n \in Nat : n = PayloadSize(p.payload)
    BY <1>2
  <2>2. QED
    BY <1>1, <1>2, <2>1 DEF FixedHeader
<1>4. d.header = p.header
  BY <1>1 DEF Marshal
<1>5. QED
  BY <1>3, <1>4 DEF Packets, Headers

(* A datagram cut to its own length is the same datagram. *)
LEMMA KeptShape ==
  ASSUME NEW c \in KeptDatagrams
  PROVE  /\ c.len \in Nat /\ c.len > 0 /\ c.header.seq \in 0..(SequenceSpace - 1)
         /\ Truncate(c, c.len) = c
<1>1. PICK d \in Datagrams : c = Kept(d)
  BY DEF KeptDatagrams
<1>2. PICK p \in Packets : d = Marshal(p)
  BY DEF Datagrams
<1>3. d.len \in Nat /\ d.len > 0 /\ d.header.seq \in 0..(SequenceSpace - 1)
  BY DatagramShape
<1>4. PICK n \in Nat : n = SmallerOf(d.len, Buffer) /\ n > 0
  BY <1>3, RelayAssumption DEF SmallerOf
<1>5. c = [d EXCEPT !.len = n]
  BY <1>1, <1>4 DEF Kept, Truncate
<1>6. d = [x |-> d.x, extId |-> 1, extWords |-> 1, csrcs |-> 0, padding |-> 0,
           header |-> d.header, payload |-> d.payload, len |-> d.len]
  BY <1>2 DEF Marshal
<1>7. c.len = n /\ c.header = d.header
  BY <1>5, <1>6
<1>8. SmallerOf(n, n) = n
  BY DEF SmallerOf
<1>9. Truncate(c, c.len) = [c EXCEPT !.len = n]
  BY <1>7, <1>8 DEF Truncate
<1>10. [c EXCEPT !.len = n] = c
  BY <1>5, <1>6
<1>11. QED
  BY <1>3, <1>4, <1>7, <1>9, <1>10

(* The header survives the receiver's buffer. *)
LEMMA HeaderArrives ==
  ASSUME NEW d \in Datagrams \union KeptDatagrams
  PROVE  Truncate(d, Buffer).header.seq \in 0..(SequenceSpace - 1)
<1>1. ASSUME NEW c \in Datagrams
      PROVE  Truncate(c, Buffer) \in KeptDatagrams
  BY DEF Kept, KeptDatagrams
<1>2. CASE d \in Datagrams
  BY <1>1, <1>2, KeptShape
<1>3. CASE d \in KeptDatagrams
  <2>1. PICK c \in Datagrams : d = Kept(c)
    BY <1>3 DEF KeptDatagrams
  <2>2. PICK p \in Packets : c = Marshal(p)
    BY DEF Datagrams
  <2>3. PICK n : n = SmallerOf(c.len, Buffer)
    OBVIOUS
  <2>4. d = [c EXCEPT !.len = n]
    BY <2>1, <2>3 DEF Kept, Truncate
  <2>5. PICK m : m = SmallerOf(d.len, Buffer)
    OBVIOUS
  <2>6. Truncate(d, Buffer) = [d EXCEPT !.len = m]
    BY <2>5 DEF Truncate
  <2>7. c = [x |-> c.x, extId |-> 1, extWords |-> 1, csrcs |-> 0, padding |-> 0,
             header |-> c.header, payload |-> c.payload, len |-> c.len]
    BY <2>2 DEF Marshal
  <2>8. Truncate(d, Buffer).header = c.header
    BY <2>4, <2>6, <2>7
  <2>9. QED
    BY <2>8, DatagramShape
<1>4. QED
  BY <1>2, <1>3

-----------------------------------------------------------------------------
(* The stream of a connection. *)

Parts == [is : {"length", "bytes"}, of : KeptDatagrams]

(* A length is followed by the bytes it announces, and they by a length. *)
StreamFits(s) ==
  /\ s \in Seq(Parts)
  /\ \A i \in DOMAIN s : s[i].is = "length" =>
       i + 1 \in DOMAIN s /\ s[i + 1].is = "bytes" /\ s[i + 1].of = s[i].of
  /\ \A i \in DOMAIN s : s[i].is = "bytes" /\ i + 1 \in DOMAIN s => s[i + 1].is = "length"

Appended(r, s, c) ==
  /\ StreamFits(r) /\ Len(r) = Len(s) + 2
  /\ s # <<>> => r # <<>> /\ r[1] = s[1]
  /\ s = <<>> => r[1].is = "length"
  /\ \A i \in DOMAIN r : (i \in DOMAIN s /\ r[i] = s[i]) \/ r[i].of = c

LEMMA FrameAppended ==
  ASSUME NEW s, StreamFits(s), NEW c \in KeptDatagrams
  PROVE  Appended(s \o Framed(c), s, c)
<1>0. PICK r : r = s \o Framed(c)
  OBVIOUS
<1>1. PICK a \in Parts, b \in Parts : /\ a = [is |-> "length", of |-> c] /\ b = [is |-> "bytes", of |-> c]
  BY DEF Parts
<1>2. r = s \o <<a, b>> /\ s \in Seq(Parts)
  BY <1>1, <1>0 DEF Framed, StreamFits
<1>3. PICK n \in Nat : n = Len(s) /\ DOMAIN s = 1..n
  BY <1>2
<1>4. /\ r \in Seq(Parts) /\ Len(r) = n + 2 /\ DOMAIN r = 1..(n + 2)
      /\ \A i \in 1..n : r[i] = s[i]
      /\ r[n + 1] = a /\ r[n + 2] = b
  BY <1>2, <1>3
<1>5. a.is = "length" /\ a.of = c /\ b.is = "bytes" /\ b.of = c
  BY <1>1
<1>6. ASSUME NEW i \in 1..(n + 2), r[i].is = "length"
      PROVE  i + 1 \in 1..(n + 2) /\ r[i + 1].is = "bytes" /\ r[i + 1].of = r[i].of
  <2>1. CASE i \in 1..n
    <3>1. s[i].is = "length"
      BY <1>4, <1>6, <2>1
    <3>2. i + 1 \in 1..n /\ s[i + 1].is = "bytes" /\ s[i + 1].of = s[i].of
      BY <1>3, <2>1, <3>1 DEF StreamFits
    <3>3. r[i] = s[i] /\ r[i + 1] = s[i + 1]
      BY <1>4, <2>1, <3>2
    <3>4. i + 1 \in 1..(n + 2)
      BY <2>1
    <3>5. QED
      BY <3>2, <3>3, <3>4
  <2>2. CASE i = n + 1
    BY <1>4, <1>5, <2>2
  <2>3. CASE i = n + 2
    BY <1>4, <1>5, <1>6, <2>3
  <2>4. i \in 1..n \/ i = n + 1 \/ i = n + 2
    OBVIOUS
  <2>5. QED
    BY <2>1, <2>2, <2>3, <2>4
<1>7. ASSUME NEW i \in 1..(n + 2), r[i].is = "bytes", i + 1 \in 1..(n + 2)
      PROVE  r[i + 1].is = "length"
  <2>1. CASE i \in 1..n /\ i + 1 \in 1..n
    <3>1. s[i].is = "bytes"
      BY <1>4, <1>7, <2>1
    <3>2. s[i + 1].is = "length"
      BY <1>3, <2>1, <3>1 DEF StreamFits
    <3>3. QED
      BY <1>4, <2>1, <3>2
  <2>2. CASE i = n
    BY <1>4, <1>5, <2>2
  <2>3. CASE i = n + 1
    BY <1>4, <1>5, <1>7, <2>3
  <2>4. (i \in 1..n /\ i + 1 \in 1..n) \/ i = n \/ i = n + 1
    BY <1>7
  <2>5. QED
    BY <2>1, <2>2, <2>3, <2>4
<1>8. StreamFits(r)
  BY <1>4, <1>6, <1>7 DEF StreamFits
<1>9. s # <<>> => r # <<>> /\ r[1] = s[1]
  BY <1>2, <1>3, <1>4
<1>10. s = <<>> => r[1].is = "length"
  <2> SUFFICES ASSUME s = <<>> PROVE r[1].is = "length"
    OBVIOUS
  <2>1. n = 0
    BY <1>3
  <2>2. QED
    BY <1>4, <1>5, <2>1
<1>11. \A i \in DOMAIN r : (i \in DOMAIN s /\ r[i] = s[i]) \/ r[i].of = c
  <2> SUFFICES ASSUME NEW i \in 1..(n + 2)
               PROVE  (i \in DOMAIN s /\ r[i] = s[i]) \/ r[i].of = c
    BY <1>4
  <2>1. i \in 1..n \/ i = n + 1 \/ i = n + 2
    OBVIOUS
  <2>2. QED
    BY <1>3, <1>4, <1>5, <2>1
<1>12. QED
  BY <1>3, <1>4, <1>8, <1>9, <1>10, <1>11, <1>0 DEF Appended

LEMMA PartRead ==
  ASSUME NEW s, StreamFits(s), s # <<>>
  PROVE  /\ StreamFits(Tail(s)) /\ Len(Tail(s)) = Len(s) - 1 /\ Len(s) \in Nat
         /\ Head(s) = s[1] /\ 1 \in DOMAIN s /\ s[1] \in Parts
         /\ s[1].is = "length" => Tail(s) # <<>> /\ Tail(s)[1].is = "bytes" /\ Tail(s)[1].of = s[1].of
         /\ s[1].is = "bytes" /\ Tail(s) # <<>> => Tail(s)[1].is = "length"
         /\ \A i \in DOMAIN Tail(s) : i + 1 \in DOMAIN s /\ Tail(s)[i] = s[i + 1]
<1>1. s \in Seq(Parts)
  BY DEF StreamFits
<1>2. PICK n \in Nat : n = Len(s) /\ DOMAIN s = 1..n /\ n > 0
  BY <1>1
<1>3. PICK r \in Seq(Parts) : r = Tail(s)
  <2>1. Tail(s) \in Seq(Parts)
    BY <1>1, HeadTailProperties
  <2>2. QED
    BY <2>1
<1>4. Len(r) = n - 1 /\ DOMAIN r = 1..(n - 1) /\ \A i \in 1..(n - 1) : r[i] = s[i + 1]
  BY <1>1, <1>2, <1>3, HeadTailProperties
<1>5. \A i \in DOMAIN r : i + 1 \in DOMAIN s /\ r[i] = s[i + 1]
  BY <1>2, <1>4
<1>6. ASSUME NEW i \in 1..(n - 1), r[i].is = "length"
      PROVE  i + 1 \in 1..(n - 1) /\ r[i + 1].is = "bytes" /\ r[i + 1].of = r[i].of
  <2>1. i + 1 \in 1..n /\ s[i + 1].is = "length"
    BY <1>4, <1>6
  <2>2. (i + 1) + 1 \in 1..n /\ s[(i + 1) + 1].is = "bytes" /\ s[(i + 1) + 1].of = s[i + 1].of
    BY <1>2, <2>1 DEF StreamFits
  <2>3. i + 1 \in 1..(n - 1)
    BY <2>2
  <2>4. QED
    BY <1>4, <2>2, <2>3
<1>7. ASSUME NEW i \in 1..(n - 1), r[i].is = "bytes", i + 1 \in 1..(n - 1)
      PROVE  r[i + 1].is = "length"
  <2>1. i + 1 \in 1..n /\ s[i + 1].is = "bytes" /\ (i + 1) + 1 \in 1..n
    BY <1>4, <1>7
  <2>2. s[(i + 1) + 1].is = "length"
    BY <1>2, <2>1 DEF StreamFits
  <2>3. QED
    BY <1>4, <1>7, <2>2
<1>8. StreamFits(r)
  BY <1>4, <1>6, <1>7 DEF StreamFits
<1>9. 1 \in 1..n /\ s[1] \in Parts
  BY <1>1, <1>2
<1>10. ASSUME s[1].is = "length"
       PROVE  r # <<>> /\ r[1].is = "bytes" /\ r[1].of = s[1].of
  <2>1. 1 + 1 \in 1..n /\ s[1 + 1].is = "bytes" /\ s[1 + 1].of = s[1].of
    BY <1>2, <1>9, <1>10 DEF StreamFits
  <2>2. 1 \in 1..(n - 1)
    BY <2>1
  <2>3. QED
    BY <1>4, <2>1, <2>2
<1>11. ASSUME s[1].is = "bytes", r # <<>>
       PROVE  r[1].is = "length"
  <2>1. 1 \in 1..(n - 1)
    BY <1>4, <1>11
  <2>2. 1 + 1 \in 1..n
    BY <2>1
  <2>3. s[1 + 1].is = "length"
    BY <1>2, <1>9, <1>11, <2>2 DEF StreamFits
  <2>4. QED
    BY <1>4, <2>1, <2>3
<1>12. Head(s) = s[1]
  BY <1>1
<1>13. QED
  BY <1>2, <1>3, <1>4, <1>5, <1>8, <1>9, <1>10, <1>11, <1>12

-----------------------------------------------------------------------------
(* The relay. *)

RelaySteps == {"dialling", "sleeping", "length", "payload"}

KeptOf(e) == {Kept(d) : d \in e}

(* Where the local relay is in the stream: it is not in doubt what comes next. *)
InStep ==
  /\ ~alive => stream = <<>>
  /\ relay.pc = "payload" /\ alive =>
       stream # <<>> /\ stream[1].is = "bytes" /\ stream[1].of.len = relay.length
  /\ relay.pc # "payload" /\ stream # <<>> => stream[1].is = "length"

RelayTypes ==
  /\ generation \in Nat /\ alive \in BOOLEAN /\ clients \subseteq 1..generation
  /\ relay \in [pc : RelaySteps, length : Nat]
  /\ Len(stream) <= 2 * StreamRoom + 1

RelayInv ==
  /\ RelayTypes
  /\ StreamFits(stream)
  /\ \A i \in DOMAIN stream : stream[i].of \in KeptOf(emitted)
  /\ downlink \subseteq emitted \union KeptOf(emitted)
  /\ InStep

MetricsRecords ==
  [packetsSent : Nat, packetsLost : Nat, framesDropped : Nat, packetsReceived : Nat,
   receivedSeqNums : SUBSET (0..(SequenceSpace - 1)), expectedSeq : Nat, seqWrap : Nat]

ReceiverInv == rx \in MetricsRecords

IInv == SenderInv /\ RelayInv /\ ReceiverInv

LEMMA EmittedGrows ==
  ASSUME RelayInv, emitted \subseteq emitted', UNCHANGED relayVars
  PROVE  RelayInv'
<1>1. KeptOf(emitted) \subseteq KeptOf(emitted')
  BY DEF KeptOf
<1>2. /\ generation' = generation /\ alive' = alive /\ clients' = clients
      /\ stream' = stream /\ relay' = relay /\ downlink' = downlink
  BY DEF relayVars
<1>3. RelayTypes' /\ StreamFits(stream') /\ InStep'
  BY <1>2 DEF RelayInv, RelayTypes, StreamFits, InStep
<1>4. \A i \in DOMAIN stream : stream[i].of \in KeptOf(emitted')
  BY <1>1 DEF RelayInv
<1>5. downlink \subseteq emitted' \union KeptOf(emitted')
  BY <1>1 DEF RelayInv
<1>6. QED
  BY <1>2, <1>3, <1>4, <1>5 DEF RelayInv

(* The stream and the receiver's socket are left alone. *)
LEMMA Elsewhere ==
  ASSUME RelayInv, RelayTypes', InStep', UNCHANGED <<stream, emitted, downlink>>
  PROVE  RelayInv'
BY DEF RelayInv, StreamFits, KeptOf

(* The socket takes a datagram or drops it. *)
LEMMA Socket ==
  ASSUME RelayInv, NEW d \in emitted \union KeptOf(emitted), downlink' = Delivered(d)
  PROVE  downlink' \subseteq emitted \union KeptOf(emitted)
BY DEF RelayInv, Delivered

LEMMA AcceptKeeps ==
  ASSUME RelayInv, Accept, UNCHANGED emitted
  PROVE  RelayInv'
<1>1. generation \in 1..generation
  BY DEF RelayInv, RelayTypes, Accept
<1>2. RelayTypes'
  BY <1>1 DEF RelayInv, RelayTypes, Accept
<1>3. InStep'
  BY DEF RelayInv, InStep, Accept
<1>4. QED
  BY <1>2, <1>3, Elsewhere DEF Accept

LEMMA DialFailsKeeps ==
  ASSUME RelayInv, DialFails \/ Wake \/ ReadFails, UNCHANGED emitted
  PROVE  RelayInv'
<1>1. /\ UNCHANGED <<generation, alive, clients, stream, downlink>>
      /\ relay' \in [pc : RelaySteps, length : Nat] /\ relay'.pc # "payload"
  BY DEF RelayInv, RelayTypes, RelaySteps, DialFails, Wake, ReadFails
<1>2. RelayTypes'
  BY <1>1 DEF RelayInv, RelayTypes
<1>3. relay.pc # "payload" \/ ~alive
  BY DEF DialFails, Wake, ReadFails
<1>4. InStep'
  BY <1>1, <1>3 DEF RelayInv, InStep
<1>5. QED
  BY <1>1, <1>2, <1>4, Elsewhere

LEMMA NewStream ==
  ASSUME RelayInv, stream' = <<>>, UNCHANGED <<emitted, downlink>>, RelayTypes', InStep'
  PROVE  RelayInv'
<1>1. StreamFits(<<>>)
  BY DEF StreamFits
<1>2. QED
  BY <1>1 DEF RelayInv, KeptOf

LEMMA DialKeeps ==
  ASSUME RelayInv, Dial, UNCHANGED emitted
  PROVE  RelayInv'
<1>1. /\ generation' = generation + 1 /\ alive' = TRUE /\ stream' = <<>> /\ clients' = clients
      /\ downlink' = downlink
      /\ relay' = [relay EXCEPT !.pc = "length"]
  BY DEF Dial
<1>2. relay' \in [pc : RelaySteps, length : Nat] /\ relay'.pc = "length"
  BY <1>1 DEF RelayInv, RelayTypes, RelaySteps
<1>3. generation' \in Nat /\ clients' \subseteq 1..generation'
  BY <1>1 DEF RelayInv, RelayTypes
<1>4. Len(stream') <= 2 * StreamRoom + 1
  BY <1>1, RelayAssumption
<1>5. RelayTypes'
  BY <1>1, <1>2, <1>3, <1>4 DEF RelayTypes
<1>6. InStep'
  BY <1>1, <1>2 DEF InStep
<1>7. QED
  BY <1>1, <1>5, <1>6, NewStream

LEMMA BreakKeeps ==
  ASSUME RelayInv, Break, UNCHANGED emitted
  PROVE  RelayInv'
<1>1. /\ alive' = FALSE /\ stream' = <<>>
      /\ UNCHANGED <<generation, clients, relay, downlink>>
  BY DEF Break
<1>2. Len(stream') <= 2 * StreamRoom + 1
  BY <1>1, RelayAssumption
<1>3. RelayTypes'
  BY <1>1, <1>2 DEF RelayInv, RelayTypes
<1>4. InStep'
  BY <1>1 DEF InStep
<1>5. QED
  BY <1>1, <1>3, <1>4, NewStream

LEMMA ForwardKeeps ==
  ASSUME SenderInv, RelayInv, Forward, UNCHANGED emitted
  PROVE  RelayInv'
<1>1. PICK d \in wire :
        /\ IF alive /\ generation \in clients
             THEN Len(stream) < 2 * StreamRoom /\ stream' = stream \o Framed(Truncate(d, Buffer))
             ELSE UNCHANGED stream
        /\ \E noticed \in SUBSET {c \in clients : c # generation \/ ~alive} : clients' = clients \ noticed
        /\ UNCHANGED <<generation, alive, relay, downlink>>
  BY DEF Forward
<1>2. clients' \subseteq clients
  BY <1>1
<1>3. CASE alive /\ generation \in clients
  <2>1. PICK c : c = Truncate(d, Buffer)
    OBVIOUS
  <2>2. c \in KeptDatagrams /\ c \in KeptOf(emitted)
    BY <2>1 DEF SenderInv, SenderTypes, KeptOf, KeptDatagrams, Kept
  <2>3. stream' = stream \o Framed(c) /\ Len(stream) < 2 * StreamRoom
    BY <1>1, <1>3, <2>1
  <2>4. StreamFits(stream)
    BY DEF RelayInv
  <2>5. /\ StreamFits(stream') /\ Len(stream') = Len(stream) + 2
        /\ stream # <<>> => stream' # <<>> /\ stream'[1] = stream[1]
        /\ stream = <<>> => stream'[1].is = "length"
        /\ \A i \in DOMAIN stream' : (i \in DOMAIN stream /\ stream'[i] = stream[i]) \/ stream'[i].of = c
    <3>1. Appended(stream \o Framed(c), stream, c)
      BY <2>2, <2>4, FrameAppended
    <3>2. Appended(stream', stream, c)
      BY <2>3, <3>1
    <3>3. QED
      BY <3>2 DEF Appended
  <2>6. Len(stream') <= 2 * StreamRoom + 1
    <3>1. Len(stream) \in Nat
      BY <2>4 DEF StreamFits
    <3>2. QED
      BY <2>3, <2>5, <3>1, RelayAssumption
  <2>7. RelayTypes'
    BY <1>1, <1>2, <2>6 DEF RelayInv, RelayTypes
  <2>8. InStep'
    BY <1>1, <1>3, <2>5 DEF RelayInv, InStep
  <2>9. \A i \in DOMAIN stream' : stream'[i].of \in KeptOf(emitted)
    BY <2>2, <2>5 DEF RelayInv
  <2>10. QED
    BY <1>1, <2>5, <2>7, <2>8, <2>9 DEF RelayInv, KeptOf
<1>4. CASE ~ (alive /\ generation \in clients)
  <2>1. UNCHANGED <<generation, alive, relay, downlink, stream>>
    BY <1>1, <1>4
  <2>2. RelayTypes' /\ InStep'
    BY <1>2, <2>1 DEF RelayInv, RelayTypes, InStep
  <2>3. QED
    BY <2>1, <2>2, Elsewhere
<1>5. QED
  BY <1>3, <1>4

(* What is left of the stream after a read. *)
LEMMA StreamRead ==
  ASSUME RelayInv, stream # <<>>, stream' = Tail(stream), UNCHANGED emitted
  PROVE  /\ StreamFits(stream') /\ Len(stream') <= 2 * StreamRoom + 1
         /\ \A i \in DOMAIN stream' : stream'[i].of \in KeptOf(emitted')
         /\ alive /\ Head(stream) = stream[1] /\ stream[1].of \in KeptDatagrams
         /\ stream[1].of \in KeptOf(emitted)
         /\ stream[1].is = "length" =>
              stream' # <<>> /\ stream'[1].is = "bytes" /\ stream'[1].of = stream[1].of
         /\ stream[1].is = "bytes" /\ stream' # <<>> => stream'[1].is = "length"
<1>1. StreamFits(stream)
  BY DEF RelayInv
<1>2. /\ StreamFits(Tail(stream)) /\ Len(Tail(stream)) = Len(stream) - 1 /\ Len(stream) \in Nat
      /\ Head(stream) = stream[1] /\ 1 \in DOMAIN stream /\ stream[1] \in Parts
      /\ stream[1].is = "length" =>
           Tail(stream) # <<>> /\ Tail(stream)[1].is = "bytes" /\ Tail(stream)[1].of = stream[1].of
      /\ stream[1].is = "bytes" /\ Tail(stream) # <<>> => Tail(stream)[1].is = "length"
      /\ \A i \in DOMAIN Tail(stream) : i + 1 \in DOMAIN stream /\ Tail(stream)[i] = stream[i + 1]
  BY <1>1, PartRead
<1>3. Len(stream') <= 2 * StreamRoom + 1
  BY <1>2, RelayAssumption DEF RelayInv, RelayTypes
<1>4. \A i \in DOMAIN stream' : stream'[i].of \in KeptOf(emitted)
  BY <1>2 DEF RelayInv
<1>5. KeptOf(emitted') = KeptOf(emitted)
  BY DEF KeptOf
<1>6. alive
  BY DEF RelayInv, InStep
<1>7. stream[1].of \in KeptDatagrams /\ stream[1].of \in KeptOf(emitted)
  BY <1>2 DEF RelayInv, Parts
<1>8. QED
  BY <1>2, <1>3, <1>4, <1>5, <1>6, <1>7

LEMMA ReadLengthKeeps ==
  ASSUME RelayInv, ReadLength, UNCHANGED emitted
  PROVE  RelayInv'
<1>1. /\ relay.pc = "length" /\ stream # <<>> /\ stream' = Tail(stream)
      /\ UNCHANGED <<generation, alive, clients, downlink>>
      /\ relay' = IF Head(stream).of.len = 0 THEN relay
                    ELSE [pc |-> "payload", length |-> Head(stream).of.len]
  BY DEF ReadLength
<1>2. /\ StreamFits(stream') /\ Len(stream') <= 2 * StreamRoom + 1
      /\ \A i \in DOMAIN stream' : stream'[i].of \in KeptOf(emitted')
      /\ alive /\ Head(stream) = stream[1] /\ stream[1].of \in KeptDatagrams
      /\ stream[1].is = "length" =>
           stream' # <<>> /\ stream'[1].is = "bytes" /\ stream'[1].of = stream[1].of
  BY <1>1, StreamRead
<1>3. stream[1].is = "length"
  BY <1>1 DEF RelayInv, InStep
<1>4. stream[1].of.len \in Nat /\ stream[1].of.len > 0
  BY <1>2, KeptShape
<1>5. relay' = [pc |-> "payload", length |-> stream[1].of.len]
  BY <1>1, <1>2, <1>4
<1>6. relay' \in [pc : RelaySteps, length : Nat] /\ relay'.pc = "payload"
      /\ relay'.length = stream[1].of.len
  BY <1>4, <1>5 DEF RelaySteps
<1>7. RelayTypes'
  BY <1>1, <1>2, <1>6 DEF RelayInv, RelayTypes
<1>8. InStep'
  BY <1>1, <1>2, <1>3, <1>6 DEF InStep
<1>9. downlink' \subseteq emitted' \union KeptOf(emitted')
  BY <1>1 DEF RelayInv, KeptOf
<1>10. QED
  BY <1>2, <1>7, <1>8, <1>9 DEF RelayInv

LEMMA ReadPayloadKeeps ==
  ASSUME RelayInv, ReadPayload, UNCHANGED emitted
  PROVE  RelayInv'
<1>1. /\ relay.pc = "payload" /\ stream # <<>> /\ stream' = Tail(stream)
      /\ UNCHANGED <<generation, alive, clients>>
      /\ relay' = [pc |-> "length", length |-> 0]
      /\ downlink' = Delivered(IF Head(stream).is = "bytes" THEN Truncate(Head(stream).of, relay.length)
                                 ELSE [Head(stream).of EXCEPT !.x = FALSE])
  BY DEF ReadPayload
<1>2. /\ StreamFits(stream') /\ Len(stream') <= 2 * StreamRoom + 1
      /\ \A i \in DOMAIN stream' : stream'[i].of \in KeptOf(emitted')
      /\ alive /\ Head(stream) = stream[1] /\ stream[1].of \in KeptDatagrams
      /\ stream[1].of \in KeptOf(emitted)
      /\ stream[1].is = "bytes" /\ stream' # <<>> => stream'[1].is = "length"
  BY <1>1, StreamRead
<1>3. stream[1].is = "bytes" /\ stream[1].of.len = relay.length
  BY <1>1, <1>2 DEF RelayInv, InStep
<1>4. Truncate(stream[1].of, stream[1].of.len) = stream[1].of
  BY <1>2, KeptShape
<1>5. downlink' = Delivered(stream[1].of)
  BY <1>1, <1>2, <1>3, <1>4
<1>6. downlink' \subseteq emitted \union KeptOf(emitted)
  BY <1>2, <1>5, Socket
<1>7. relay' \in [pc : RelaySteps, length : Nat] /\ relay'.pc = "length"
  BY <1>1 DEF RelaySteps
<1>8. RelayTypes'
  BY <1>1, <1>2, <1>7 DEF RelayInv, RelayTypes
<1>9. InStep'
  BY <1>1, <1>2, <1>3, <1>7 DEF InStep
<1>10. QED
  BY <1>2, <1>6, <1>8, <1>9 DEF RelayInv, KeptOf

LEMMA RelayKeeps ==
  ASSUME SenderInv, RelayInv, RelayNext, UNCHANGED emitted
  PROVE  RelayInv'
BY AcceptKeeps, ForwardKeeps, DialKeeps, DialFailsKeeps, ReadLengthKeeps, ReadPayloadKeeps, BreakKeeps
   DEF RelayNext

-----------------------------------------------------------------------------
(* The whole path. *)

LEMMA ReceiverKeeps ==
  ASSUME SenderInv, RelayInv, ReceiverInv, NEW d \in downlink,
         ReceivePackets(Truncate(d, Buffer)) \/ ExampleReceives(Truncate(d, Buffer))
  PROVE  ReceiverInv'
<1>1. d \in Datagrams \union KeptDatagrams
  BY DEF SenderInv, SenderTypes, RelayInv, KeptOf, KeptDatagrams
<1>2. PICK seq \in 0..(SequenceSpace - 1) : seq = Truncate(d, Buffer).header.seq
  BY <1>1, HeaderArrives
<1>3. rx' = rx \/ rx' = RecordPacketReceived(rx, seq)
  BY <1>2 DEF ReceivePackets, ExampleReceives
<1>4. seq \in Nat /\ seq + 1 \in Nat
  BY <1>2, RtpPacketAssumption
<1>5. (seq + 1) % SequenceSpace \in Nat
  <2>1. (seq + 1) % SequenceSpace \in 0..(SequenceSpace - 1)
    BY <1>4, SeqReduced
  <2>2. QED
    BY <2>1, RtpPacketAssumption
<1>6. PICK next \in Nat : next = (seq + 1) % SequenceSpace
  BY <1>5
<1>7. PICK wraps \in Nat :
        wraps = IF rx.expectedSeq > 0 /\ seq < LowSeq /\ rx.expectedSeq > HighSeq THEN 1 ELSE 0
  OBVIOUS
<1>8. RecordPacketReceived(rx, seq) =
        [rx EXCEPT !.packetsReceived = @ + 1, !.receivedSeqNums = @ \union {seq},
                   !.seqWrap = @ + wraps, !.expectedSeq = next]
  BY <1>6, <1>7 DEF RecordPacketReceived
<1>9. rx.receivedSeqNums \union {seq} \in SUBSET (0..(SequenceSpace - 1))
  BY DEF ReceiverInv, MetricsRecords
<1>10. CASE rx' = RecordPacketReceived(rx, seq)
  <2>1. PICK seqs \in SUBSET (0..(SequenceSpace - 1)) : seqs = rx.receivedSeqNums \union {seq}
    BY <1>9
  <2>2. PICK received \in Nat : received = rx.packetsReceived + 1
    BY DEF ReceiverInv, MetricsRecords
  <2>3. PICK wrapped \in Nat : wrapped = rx.seqWrap + wraps
    BY DEF ReceiverInv, MetricsRecords
  <2>4. rx' = [rx EXCEPT !.packetsReceived = received, !.receivedSeqNums = seqs,
                        !.seqWrap = wrapped, !.expectedSeq = next]
    BY <1>8, <1>10, <2>1, <2>2, <2>3
  <2>5. QED
    BY <2>4 DEF ReceiverInv, MetricsRecords
<1>11. QED
  BY <1>3, <1>10 DEF ReceiverInv, MetricsRecords

LEMMA SocketChanges ==
  ASSUME SenderInv, RelayInv, UNCHANGED <<kind, source, active, socket, loop, emitted>>,
         UNCHANGED <<generation, alive, clients, stream, relay>>,
         wire' \subseteq wire, downlink' \subseteq emitted \union KeptOf(emitted)
  PROVE  SenderInv' /\ RelayInv'
<1>1. SenderInv'
  BY DEF SenderInv, SenderTypes, LoopInv
<1>2. RelayTypes' /\ StreamFits(stream') /\ InStep'
  BY DEF RelayInv, RelayTypes, InStep
<1>3. KeptOf(emitted') = KeptOf(emitted)
  BY DEF KeptOf
<1>4. \A i \in DOMAIN stream' : stream'[i].of \in KeptOf(emitted')
  BY <1>3 DEF RelayInv
<1>5. downlink' \subseteq emitted' \union KeptOf(emitted')
  BY <1>3
<1>6. QED
  BY <1>1, <1>2, <1>4, <1>5 DEF RelayInv

LEMMA Begins ==
  ASSUME Init
  PROVE  IInv
<1>1. SenderInv
  BY SenderBegins DEF Init
<1>2. StreamFits(<<>>)
  BY DEF StreamFits
<1>3. RelayInv
  <2>1. /\ generation = 0 /\ alive = FALSE /\ clients = {} /\ stream = <<>> /\ downlink = {}
        /\ relay = [pc |-> "dialling", length |-> 0]
    BY DEF Init, RelayInit
  <2>2. Len(stream) <= 2 * StreamRoom + 1
    BY <2>1, RelayAssumption
  <2>3. RelayTypes
    BY <2>1, <2>2 DEF RelayTypes, RelaySteps
  <2>4. InStep
    BY <2>1 DEF InStep
  <2>5. QED
    BY <1>2, <2>1, <2>3, <2>4 DEF RelayInv
<1>4. ReceiverInv
  BY DEF Init, NewRTPMetrics, ReceiverInv, MetricsRecords
<1>5. QED
  BY <1>1, <1>3, <1>4 DEF IInv

LEMMA Keeps ==
  ASSUME IInv, [Next]_vars
  PROVE  IInv'
<1>1. SenderInv /\ RelayInv /\ ReceiverInv
  BY DEF IInv
<1>2. CASE Sender
  <2>1. SenderInv' /\ emitted \subseteq emitted' /\ RelayInv'
    BY <1>1, <1>2, SenderKeeps, EmittedGrows DEF Sender
  <2>2. ReceiverInv'
    BY <1>1, <1>2 DEF Sender, receiverVars, ReceiverInv, MetricsRecords
  <2>3. QED
    BY <2>1, <2>2 DEF IInv
<1>3. CASE Arrive
  <2>1. PICK d \in wire : wire' = wire \ {d} /\ downlink' = Delivered(d)
    BY <1>3 DEF Arrive
  <2>2. d \in emitted \union KeptOf(emitted)
    BY <1>1 DEF SenderInv, SenderTypes
  <2>3. downlink' \subseteq emitted \union KeptOf(emitted)
    BY <1>1, <2>1, <2>2, Socket
  <2>4. SenderInv' /\ RelayInv'
    BY <1>1, <1>3, <2>1, <2>3, SocketChanges DEF Arrive
  <2>5. ReceiverInv'
    BY <1>1, <1>3 DEF Arrive, receiverVars, ReceiverInv, MetricsRecords
  <2>6. QED
    BY <2>4, <2>5 DEF IInv
<1>4. CASE Lose
  <2>1. wire' \subseteq wire /\ downlink' \subseteq downlink
    BY <1>4 DEF Lose
  <2>2. downlink' \subseteq emitted \union KeptOf(emitted)
    BY <1>1, <2>1 DEF RelayInv
  <2>3. SenderInv' /\ RelayInv'
    BY <1>1, <1>4, <2>1, <2>2, SocketChanges DEF Lose
  <2>4. ReceiverInv'
    BY <1>1, <1>4 DEF Lose, receiverVars, ReceiverInv, MetricsRecords
  <2>5. QED
    BY <2>3, <2>4 DEF IInv
<1>5. CASE Receive
  <2>1. PICK d \in downlink :
          /\ downlink' = downlink \ {d}
          /\ ReceivePackets(Truncate(d, Buffer)) \/ ExampleReceives(Truncate(d, Buffer))
          /\ UNCHANGED <<senderVars, route, program, generation, alive, clients, stream, relay>>
    BY <1>5 DEF Receive
  <2>2. downlink' \subseteq emitted \union KeptOf(emitted)
    BY <1>1, <2>1 DEF RelayInv
  <2>3. SenderInv' /\ RelayInv'
    BY <1>1, <2>1, <2>2, SocketChanges DEF senderVars
  <2>4. ReceiverInv'
    BY <1>1, <2>1, ReceiverKeeps
  <2>5. QED
    BY <2>3, <2>4 DEF IInv
<1>6. CASE Relayed
  <2>1. RelayNext /\ UNCHANGED <<kind, source, active, socket, loop, emitted, rx>>
    BY <1>6 DEF Relayed, receiverVars
  <2>2. RelayInv'
    BY <1>1, <2>1, RelayKeeps
  <2>3. wire' \subseteq wire
    BY <2>1 DEF RelayNext, Accept, Forward, Dial, DialFails, Wake, ReadLength, ReadPayload, ReadFails, Break
  <2>4. SenderInv'
    BY <1>1, <2>1, <2>3 DEF SenderInv, SenderTypes, LoopInv
  <2>5. ReceiverInv'
    BY <1>1, <2>1 DEF ReceiverInv, MetricsRecords
  <2>6. QED
    BY <2>2, <2>4, <2>5 DEF IInv
<1>7. CASE UNCHANGED vars
  <2>1. /\ UNCHANGED <<kind, source, active, socket, loop, emitted, wire>>
        /\ UNCHANGED relayVars /\ rx' = rx
    BY <1>7 DEF vars, senderVars, receiverVars
  <2>2. SenderInv'
    BY <1>1, <2>1 DEF SenderInv, SenderTypes, LoopInv
  <2>3. RelayInv'
    BY <1>1, <2>1, EmittedGrows
  <2>4. QED
    BY <1>1, <2>1, <2>2, <2>3 DEF IInv, ReceiverInv, MetricsRecords
<1>8. QED
  BY <1>2, <1>3, <1>4, <1>5, <1>6, <1>7 DEF Next

LEMMA Invariant == Spec => []IInv
<1>1. Init => IInv
  BY Begins
<1>2. IInv /\ [Next]_vars => IInv'
  BY Keeps
<1>3. QED
  BY <1>1, <1>2, PTL DEF Spec

(* Every loop has its turn in its batch, and every variable of the path its     *)
(* type, for any media, buffers and bounds.                                     *)
THEOREM Typing == Spec => []TypeOK
<1>1. IInv => TypeOK
  <2> SUFFICES ASSUME IInv PROVE TypeOK
    OBVIOUS
  <2>1. SenderInv /\ RelayInv /\ ReceiverInv
    BY DEF IInv
  <2>2. active \in BOOLEAN /\ socket \in {"open", "closed"}
    BY <2>1 DEF SenderInv, SenderTypes
  <2>3. ASSUME NEW t \in Tracks
        PROVE  /\ loop[t].mode \in {"off", "file", "synthetic"}
               /\ loop[t].seq \in 0..(SequenceSpace - 1)
               /\ loop[t].next \in 1..(Len(loop[t].batch) + 1)
               /\ loop[t].counted => loop[t].batch # <<>>
    BY <2>1, EntryType DEF LoopRecords, LoopFits, Modes
  <2>4. /\ clients \subseteq 1..generation
        /\ relay.pc \in {"dialling", "sleeping", "length", "payload"} /\ relay.length \in Nat
        /\ Len(stream) <= 2 * StreamRoom + 1
    BY <2>1 DEF RelayInv, RelayTypes, RelaySteps
  <2>5. rx.receivedSeqNums \subseteq 0..(SequenceSpace - 1)
    BY <2>1 DEF ReceiverInv, MetricsRecords
  <2>6. QED
    BY <2>2, <2>3, <2>4, <2>5 DEF TypeOK
<1>2. QED
  BY <1>1, Invariant, PTL

(* The frame in hand of the video loop can always be put together again, for    *)
(* units of any size, either packetizer and any MTU.                            *)
THEOREM FramesStayWhole == Spec => []WholeFrames
<1>1. IInv => WholeFrames
  <2> SUFFICES ASSUME IInv PROVE WholeFrames
    OBVIOUS
  <2>1. PICK v : v = loop["video"]
    OBVIOUS
  <2>2. VideoFits(v, kind)
    BY <2>1 DEF IInv, SenderInv, LoopInv
  <2>3. v.batch # <<>> =>
          /\ Reassembles(v.batch, v.size)
          /\ InOneFrame(v.batch, v.produced - Len(v.batch), v.ts - 1)
          /\ \A i \in DOMAIN v.batch :
               Marshal(v.batch[i]).len <= MTU + IF kind = "udp" THEN 8 ELSE FixedHeader
    BY <2>2 DEF VideoFits, FrameOf, Limit
  <2>4. QED
    BY <2>1, <2>3 DEF WholeFrames
<1>2. QED
  BY <1>1, Invariant, PTL

(* Whatever breaks and whenever, the relay passes on only what the participant  *)
(* wrote, cut at most to its buffer.                                            *)
THEOREM RelayKeepsApart == Spec => []RelayNeverMixes
<1>1. IInv => RelayNeverMixes
  BY DEF IInv, RelayInv, KeptOf, Kept, RelayNeverMixes
<1>2. QED
  BY <1>1, Invariant, PTL

-----------------------------------------------------------------------------
(* The packets of a frame are told apart by their payloads, frames by their     *)
(* timestamps and tracks by their payload types.                               *)

LEMMA SmallestOf ==
  ASSUME NEW T, T \subseteq Nat, T # {}
  PROVE  \E x \in T : \A y \in T : x <= y
<1> DEFINE R == OpToRel(<, Nat)
<1>1. IsWellFoundedOn(R, Nat)
  BY NatLessThanWellFounded
<1> HIDE DEF R
<1>2. PICK x \in T : \A y \in T : ~ (<<y, x>> \in R)
  BY <1>1, WFMin
<1>3. \A y \in T : ~ (y < x)
  BY <1>2 DEF R, OpToRel
<1>4. QED
  BY <1>3

(* No two fragments of a unit begin at the same byte.                          *)
LEMMA FragmentsApart ==
  ASSUME NEW packets \in Seq(Packets), NEW size, Reassembles(packets, size),
         NEW i \in DOMAIN packets, NEW j \in DOMAIN packets, i < j
  PROVE  packets[i].payload # packets[j].payload
<1>1. PICK n \in Nat : n = Len(packets) /\ DOMAIN packets = 1..n
  OBVIOUS
<1>2. PICK from \in [1..n -> Nat], to \in [1..n -> Nat] :
        /\ \A k \in 1..n : from[k] = packets[k].payload.data.from /\ to[k] = packets[k].payload.data.to
        /\ \A k \in 2..n : from[k] = to[k - 1]
        /\ \A k \in 1..n : to[k] > from[k]
  <2>1. Len(packets) > 1
    BY <1>1
  <2>2. \A k \in 1..n : /\ packets[k].payload.data.from =
                             (IF k = 1 THEN 1 ELSE packets[k - 1].payload.data.to)
                        /\ Size(packets[k].payload.data) > 0
    BY <1>1, <2>1 DEF Reassembles
  <2>3. ASSUME NEW k \in 1..n
        PROVE  /\ packets[k].payload.data.from \in Nat /\ packets[k].payload.data.to \in Nat
               /\ packets[k].payload.data.to > packets[k].payload.data.from
    <3>1. packets[k] \in Packets
      BY <1>1
    <3>2. packets[k].payload.data \in Stretches
      BY <3>1 DEF Packets, Payloads
    <3>3. QED
      BY <2>2, <3>2 DEF Stretches, Size
  <2> DEFINE from == [k \in 1..n |-> packets[k].payload.data.from]
             to == [k \in 1..n |-> packets[k].payload.data.to]
  <2>4. from \in [1..n -> Nat] /\ to \in [1..n -> Nat]
    BY <2>3
  <2>5. \A k \in 1..n : from[k] = packets[k].payload.data.from /\ to[k] = packets[k].payload.data.to
    OBVIOUS
  <2> HIDE DEF from, to
  <2>6. ASSUME NEW k \in 2..n PROVE from[k] = to[k - 1]
    <3>1. k \in 1..n /\ k - 1 \in 1..n /\ k # 1
      BY <1>1
    <3>2. QED
      BY <2>2, <2>5, <3>1
  <2>7. \A k \in 1..n : to[k] > from[k]
    BY <2>3, <2>5
  <2>8. QED
    BY <2>4, <2>5, <2>6, <2>7
<1> DEFINE T == {k \in 1..n : i < k /\ from[k] <= from[i]}
<1>3. T = {}
  <2> SUFFICES ASSUME T # {} PROVE FALSE
    OBVIOUS
  <2>1. T \subseteq Nat
    OBVIOUS
  <2>2. PICK k \in T : \A l \in T : k <= l
    BY <2>1, SmallestOf
  <2>3. k \in 2..n /\ k - 1 \in 1..n /\ i \in 1..n
    BY <1>1
  <2>4. from[k] = to[k - 1] /\ to[k - 1] > from[k - 1]
    BY <1>2, <2>3
  <2>5. from[k] \in Nat /\ from[k - 1] \in Nat /\ to[k - 1] \in Nat /\ from[i] \in Nat
    BY <1>2, <2>3
  <2>6. CASE k - 1 = i
    BY <2>4, <2>5, <2>6
  <2>7. CASE k - 1 # i
    <3>1. k - 1 \in T
      BY <2>3, <2>4, <2>5, <2>7
    <3>2. QED
      BY <2>2, <2>3, <3>1
  <2>8. QED
    BY <2>6, <2>7
<1>4. from[j] > from[i]
  <2>1. i \in 1..n /\ j \in 1..n
    BY <1>1
  <2>2. from[i] \in Nat /\ from[j] \in Nat /\ j \notin T
    BY <1>2, <1>3, <2>1
  <2>3. QED
    BY <2>1, <2>2
<1>5. /\ from[i] = packets[i].payload.data.from /\ from[j] = packets[j].payload.data.from
      /\ from[i] \in Nat /\ from[j] \in Nat
  BY <1>1, <1>2
<1>6. QED
  BY <1>4, <1>5

(* Which track a packet is of, and which of its frames.                        *)
TypeOf(t) == IF t = "video" THEN VideoType ELSE AudioType
Stamped(packets, t, ts) ==
  \A i \in DOMAIN packets : packets[i].header.pt = TypeOf(t) /\ packets[i].header.ts = ts

LEMMA UdpStamped ==
  ASSUME NEW id, NEW size, NEW seq, NEW ts
  PROVE  Stamped(H264Packetize(id, size, seq, ts), "video", ts)
<1>1. CASE size <= MTU - FixedHeader
  <2>1. PICK h : h = Packet(id, VideoType, id * 1000, seq, ts, TRUE)
    OBVIOUS
  <2>2. h.pt = VideoType /\ h.ts = ts
    BY <2>1 DEF Packet
  <2>3. H264Packetize(id, size, seq, ts) = <<Carry(h, Whole(size))>>
    BY ONLY <1>1, <2>1 DEF H264Packetize
  <2>4. PICK p : p = Carry(h, Whole(size))
    OBVIOUS
  <2>5. p.header = h
    BY <2>4 DEF Carry
  <2>6. Stamped(<<p>>, "video", ts)
    BY <2>2, <2>5 DEF Stamped, TypeOf
  <2>7. QED
    BY <2>3, <2>4, <2>6
<1>2. CASE ~ (size <= MTU - FixedHeader)
  <2> DEFINE f == fragmentNALU(size, MTU - FixedHeader - 2)
  <2>1. H264Packetize(id, size, seq, ts)
          = [i \in 1..Len(f) |-> Carry(HeaderAt(id, seq, ts, Len(f), i), FragmentAt(f, i))]
    BY <1>2 DEF H264Packetize, HeaderAt
  <2> HIDE DEF f
  <2>2. ASSUME NEW i \in 1..Len(f)
        PROVE  HeaderAt(id, seq, ts, Len(f), i).pt = VideoType /\ HeaderAt(id, seq, ts, Len(f), i).ts = ts
    BY DEF Packet, HeaderAt
  <2>3. ASSUME NEW i \in 1..Len(f)
        PROVE  H264Packetize(id, size, seq, ts)[i].header = HeaderAt(id, seq, ts, Len(f), i)
    BY <2>1 DEF Carry
  <2>4. DOMAIN H264Packetize(id, size, seq, ts) = 1..Len(f)
    BY <2>1
  <2>5. QED
    BY <2>2, <2>3, <2>4 DEF Stamped, TypeOf
<1>3. QED
  BY <1>1, <1>2

LEMMA TrackStamped ==
  ASSUME NEW id, NEW size, NEW seq, NEW ts
  PROVE  Stamped(packetizeH264(id, size, seq, ts), "video", ts)
<1>1. CASE size <= MTU
  <2>1. PICK h : h = [Packet(id, VideoType, id * 1000, seq + 0, ts, TRUE) EXCEPT !.extension = FALSE]
    OBVIOUS
  <2>2. h.pt = VideoType /\ h.ts = ts
    BY <2>1 DEF Packet
  <2>3. packetizeH264(id, size, seq, ts) = <<Carry(h, Whole(size))>>
    BY ONLY <1>1, <2>1 DEF packetizeH264
  <2>4. PICK p : p = Carry(h, Whole(size))
    OBVIOUS
  <2>5. p.header = h
    BY <2>4 DEF Carry
  <2>6. Stamped(<<p>>, "video", ts)
    BY <2>2, <2>5 DEF Stamped, TypeOf
  <2>7. QED
    BY <2>3, <2>4, <2>6
<1>2. CASE ~ (size <= MTU)
  <2> DEFINE f == fragmentNALU(size, MTU - 2)
  <2>1. packetizeH264(id, size, seq, ts)
          = [i \in 1..Len(f) |-> Carry(TrackHeaderAt(id, seq, ts, Len(f), i), FragmentAt(f, i))]
    BY <1>2 DEF packetizeH264, TrackHeaderAt
  <2> HIDE DEF f
  <2>2. ASSUME NEW i \in 1..Len(f)
        PROVE  TrackHeaderAt(id, seq, ts, Len(f), i).pt = VideoType /\ TrackHeaderAt(id, seq, ts, Len(f), i).ts = ts
    BY DEF Packet, TrackHeaderAt
  <2>3. ASSUME NEW i \in 1..Len(f)
        PROVE  packetizeH264(id, size, seq, ts)[i].header = TrackHeaderAt(id, seq, ts, Len(f), i)
    BY <2>1 DEF Carry
  <2>4. DOMAIN packetizeH264(id, size, seq, ts) = 1..Len(f)
    BY <2>1
  <2>5. QED
    BY <2>2, <2>3, <2>4 DEF Stamped, TypeOf
<1>3. QED
  BY <1>1, <1>2

LEMMA OpusStamped ==
  ASSUME NEW size, NEW seq, NEW ts, NEW p,
         p = OpusPacketize(Id, size, seq, ts) \/ p = SilentPacket(size, seq, ts)
  PROVE  Stamped(<<p>>, "audio", ts)
<1>1. p.header.pt = AudioType /\ p.header.ts = ts
  BY DEF OpusPacketize, SilentPacket, Packet, Carry
<1>2. QED
  BY <1>1 DEF Stamped, TypeOf

-----------------------------------------------------------------------------
(* The sender's steps as its packets see them: a loop rests, takes up a frame,  *)
(* counts the packet in hand or is through with it.                            *)

Rests(t) == SameBatch(loop'[t], loop[t])

TakesUp(t) ==
  /\ loop[t].batch = <<>> /\ loop'[t].batch # <<>>
  /\ Stamped(loop'[t].batch, t, loop[t].ts)
  /\ t = "audio" => Len(loop'[t].batch) = 1
  /\ loop'[t].next = 1 /\ loop'[t].ts = loop[t].ts + 1 /\ loop'[t].counted = loop[t].counted
  /\ loop'[t].produced = loop[t].produced + Len(loop'[t].batch)

IsThrough(t) ==
  /\ loop[t].batch # <<>>
  /\ loop'[t].ts = loop[t].ts /\ loop'[t].produced = loop[t].produced
  /\ loop'[t].counted = FALSE
  /\ \/ loop'[t].batch = <<>>
     \/ loop'[t].batch = loop[t].batch /\ loop'[t].next = loop[t].next + 1

OthersRest(t) == \A u \in Tracks \ {t} : Rests(u)

Unsent ==
  /\ UNCHANGED <<kind, emitted>>
  /\ metrics' = metrics \/ metrics' = RecordFrameDropped(metrics)

Still == Unsent /\ \A t \in Tracks : Rests(t)
Starts(t) == Unsent /\ TakesUp(t) /\ OthersRest(t)

LEMMA PlaceRests ==
  ASSUME SenderInv, NEW t \in Tracks, NEW mode, NEW idx, NEW ticks,
         \/ loop' = [loop EXCEPT ![t].mode = mode]
         \/ loop' = [loop EXCEPT ![t].mode = mode, ![t].idx = idx]
         \/ loop' = [loop EXCEPT ![t].ticks = ticks, ![t].idx = idx]
  PROVE  \A u \in Tracks : Rests(u)
<1>1. loop \in [Tracks -> LoopRecords]
  BY EntryType
<1>2. ASSUME NEW u \in Tracks
      PROVE  Rests(u)
  <2>1. loop[u] \in LoopRecords
    BY <1>1
  <2>2. \/ loop'[u] = loop[u]
        \/ loop'[u] = [loop[u] EXCEPT !.mode = mode]
        \/ loop'[u] = [loop[u] EXCEPT !.mode = mode, !.idx = idx]
        \/ loop'[u] = [loop[u] EXCEPT !.ticks = ticks, !.idx = idx]
    BY <1>1
  <2>3. QED
    BY <2>1, <2>2 DEF Rests, SameBatch, LoopRecords
<1>3. QED
  BY <1>2

LEMMA CutTakesUp ==
  ASSUME SenderInv, NEW t \in Tracks, Waiting(t), NEW size \in Nat, NEW idx \in Nat,
         NEW packets \in Seq(Packets), packets # <<>>, Cut(t, size, idx, packets),
         Stamped(packets, t, loop[t].ts), t = "audio" => Len(packets) = 1
  PROVE  TakesUp(t) /\ OthersRest(t)
<1>1. loop \in [Tracks -> LoopRecords]
  BY EntryType
<1>2. /\ \A u \in Tracks \ {t} : loop'[u] = loop[u]
      /\ loop'[t].batch = packets /\ loop'[t].next = 1
      /\ loop'[t].produced = loop[t].produced + Len(packets)
      /\ loop'[t].ts = loop[t].ts + 1 /\ loop'[t].counted = loop[t].counted
  BY <1>1, CutEntry
<1>3. TakesUp(t)
  BY <1>2 DEF TakesUp, Waiting
<1>4. OthersRest(t)
  BY <1>2 DEF OthersRest, Rests, SameBatch
<1>5. QED
  BY <1>3, <1>4

LEMMA DropFrameRests ==
  ASSUME SenderInv, DropFrame
  PROVE  Still
<1>1. "video" \in Tracks
  BY DEF Tracks
<1>2. loop' = [loop EXCEPT !["video"].ticks = loop["video"].ticks + 1,
                           !["video"].idx = IF kind = "udp" /\ loop["video"].mode = "synthetic"
                                              THEN loop["video"].idx ELSE loop["video"].idx + 1]
  BY <1>1, EntryType DEF DropFrame
<1>3. \A t \in Tracks : Rests(t)
  BY <1>1, <1>2, PlaceRests
<1>4. Unsent
  BY DEF DropFrame, Unsent
<1>5. QED
  BY <1>3, <1>4 DEF Still

LEMMA StartRests ==
  ASSUME SenderInv, Start \/ Stop \/ \E t \in Tracks : LoopEnds(t)
  PROVE  Still
<1>1. Unsent
  BY DEF Start, Stop, LoopEnds, Unsent
<1>2. CASE Start
  <2>1. loop \in [Tracks -> LoopRecords]
    BY DEF SenderInv, LoopInv
  <2>2. ASSUME NEW u \in Tracks
        PROVE  Rests(u)
    <3>1. loop[u] \in LoopRecords
      BY <2>1
    <3>2. \E mode : loop'[u] = [loop[u] EXCEPT !.mode = mode]
      BY <1>2, <2>1 DEF Start, Tracks
    <3>3. QED
      BY <3>1, <3>2 DEF Rests, SameBatch, LoopRecords
  <2>3. QED
    BY <1>1, <2>2 DEF Still
<1>3. CASE Stop
  BY <1>1, <1>3 DEF Stop, Still, Rests, SameBatch
<1>4. ASSUME NEW t \in Tracks, LoopEnds(t)
      PROVE  Still
  <2>1. loop' = [loop EXCEPT ![t].mode = "off"]
    BY <1>4 DEF LoopEnds
  <2>2. QED
    BY <1>1, <2>1, PlaceRests DEF Still
<1>5. QED
  BY <1>2, <1>3, <1>4

LEMMA VideoStarts ==
  ASSUME SenderInv, runVideoLoop \/ runFrameLoop \/ streamVideo
  PROVE  Still \/ Starts("video")
<1>1. "video" \in Tracks /\ "video" # "audio" /\ Unsent /\ Waiting("video")
  BY DEF Tracks, runVideoLoop, runFrameLoop, streamVideo, Tick, Unsent
<1>2. ASSUME NEW size \in Nat, NEW idx \in Nat, NEW packets, Cut("video", size, idx, packets),
             \/ kind = "udp" /\ packets = H264Packetize(Id, size, loop["video"].seq, loop["video"].ts)
             \/ kind = "webrtc" /\ packets = packetizeH264(Id, size, loop["video"].seq, loop["video"].ts)
      PROVE  Starts("video")
  <2>1. packets \in Seq(Packets) /\ packets # <<>>
    BY <1>2, UdpFrame, TrackFrame
  <2>2. Stamped(packets, "video", loop["video"].ts)
    BY <1>2, UdpStamped, TrackStamped
  <2>3. TakesUp("video") /\ OthersRest("video")
    BY <1>1, <1>2, <2>1, <2>2, CutTakesUp
  <2>4. QED
    BY <1>1, <2>3 DEF Starts
<1>3. PICK unitSize \in Nat, unitIdx \in Nat :
        unitSize = NextUnit("video").size /\ unitIdx = NextUnit("video").idx
  BY <1>1, UnitType
<1>4. loop["video"].idx \in Nat /\ unitIdx + 1 \in Nat
  BY <1>1, EntryType
<1>5. CASE runVideoLoop
  <2>1. CASE unitSize > 0
    <3>1. /\ kind = "udp"
          /\ Cut("video", unitSize, unitIdx + 1,
                 H264Packetize(Id, unitSize, loop["video"].seq, loop["video"].ts))
      BY <1>3, <1>5, <2>1 DEF runVideoLoop
    <3>2. QED
      BY <1>2, <1>4, <3>1
  <2>2. CASE ~ (unitSize > 0)
    <3>1. loop' = [loop EXCEPT !["video"].mode = "synthetic", !["video"].idx = 0]
      BY <1>3, <1>5, <2>2 DEF runVideoLoop
    <3>2. QED
      BY <1>1, <3>1, PlaceRests DEF Still
  <2>3. QED
    BY <2>1, <2>2
<1>6. CASE runFrameLoop
  <2>1. PICK kbps \in Bitrates :
          Cut("video", generateSyntheticFrame(kbps), loop["video"].idx,
              H264Packetize(Id, generateSyntheticFrame(kbps), loop["video"].seq, loop["video"].ts))
    BY <1>6 DEF runFrameLoop
  <2>2. kind = "udp"
    BY <1>6 DEF runFrameLoop
  <2>3. QED
    BY <1>2, <1>4, <2>1, <2>2, FrameSize
<1>7. CASE streamVideo
  <2>1. PICK kbps \in Bitrates :
          LET v == loop["video"]
              unit == NextUnit("video")
              size == IF v.mode = "file" /\ unit.size > 0 THEN unit.size
                                                          ELSE generateSyntheticFrame(kbps)
              idx == IF v.mode = "file" THEN unit.idx + 1 ELSE v.idx
          IN Cut("video", size, idx, packetizeH264(Id, size, v.seq, v.ts))
    BY <1>7 DEF streamVideo
  <2>2. PICK size \in Nat :
          size = IF loop["video"].mode = "file" /\ unitSize > 0 THEN unitSize ELSE generateSyntheticFrame(kbps)
    BY FrameSize
  <2>3. PICK idx \in Nat : idx = IF loop["video"].mode = "file" THEN unitIdx + 1 ELSE loop["video"].idx
    BY <1>4
  <2>4. Cut("video", size, idx, packetizeH264(Id, size, loop["video"].seq, loop["video"].ts))
    BY <1>3, <2>1, <2>2, <2>3
  <2>5. kind = "webrtc"
    BY <1>7 DEF streamVideo
  <2>6. QED
    BY <1>2, <2>4, <2>5
<1>8. QED
  BY <1>5, <1>6, <1>7

LEMMA AudioStarts ==
  ASSUME SenderInv, runAudioLoop \/ streamAudio
  PROVE  Still \/ Starts("audio")
<1>1. "audio" \in Tracks /\ Unsent /\ Waiting("audio")
  BY DEF Tracks, runAudioLoop, streamAudio, Tick, Unsent
<1>2. PICK seq \in Nat, ts \in Nat : seq = loop["audio"].seq /\ ts = loop["audio"].ts
  BY <1>1, EntryType
<1>3. ASSUME NEW size \in Nat, NEW idx \in Nat, NEW p, Cut("audio", size, idx, <<p>>),
             p = OpusPacketize(Id, size, seq, ts) \/ p = SilentPacket(size, seq, ts)
      PROVE  Starts("audio")
  <2>1. p \in Packets
    BY <1>3, OpusType, SilentType
  <2>2. Stamped(<<p>>, "audio", loop["audio"].ts)
    BY <1>2, <1>3, OpusStamped
  <2>3. <<p>> \in Seq(Packets) /\ <<p>> # <<>> /\ Len(<<p>>) = 1
    BY <2>1
  <2>4. TakesUp("audio") /\ OthersRest("audio")
    BY <1>1, <1>3, <2>2, <2>3, CutTakesUp
  <2>5. QED
    BY <1>1, <2>4 DEF Starts
<1>4. PICK unitSize \in Nat, unitIdx \in Nat :
        unitSize = NextUnit("audio").size /\ unitIdx = NextUnit("audio").idx
  BY <1>1, UnitType
<1>5. loop["audio"].idx \in Nat /\ unitIdx + 1 \in Nat
  BY <1>1, EntryType
<1>6. CASE runAudioLoop
  <2>1. CASE unitSize > 0
    <3>1. Cut("audio", unitSize, unitIdx + 1, <<OpusPacketize(Id, unitSize, seq, ts)>>)
      BY <1>2, <1>4, <1>6, <2>1 DEF runAudioLoop
    <3>2. QED
      BY <1>3, <1>5, <3>1
  <2>2. CASE ~ (unitSize > 0)
    <3>1. loop' = [loop EXCEPT !["audio"].mode = "off", !["audio"].idx = 0]
      BY <1>4, <1>6, <2>2 DEF runAudioLoop
    <3>2. QED
      BY <1>1, <3>1, PlaceRests DEF Still
  <2>3. QED
    BY <2>1, <2>2
<1>7. CASE streamAudio
  <2>1. PICK real \in Nat : real = IF loop["audio"].mode = "file" /\ unitSize > 0 THEN unitSize ELSE generateOpusFrame
    BY DEF generateOpusFrame
  <2>2. PICK idx \in Nat : idx = IF loop["audio"].mode = "file" THEN unitIdx + 1 ELSE loop["audio"].idx
    BY <1>5
  <2>3. \/ Cut("audio", real, idx, <<SilentPacket(real, seq, ts)>>)
        \/ Cut("audio", SilenceFrame, loop["audio"].idx, <<SilentPacket(SilenceFrame, seq, ts)>>)
    BY <1>2, <1>4, <1>7, <2>1, <2>2 DEF streamAudio, SilentPacket
  <2>4. SilenceFrame \in Nat
    BY DEF SilenceFrame
  <2>5. QED
    BY <1>3, <1>5, <2>3, <2>4
<1>8. QED
  BY <1>6, <1>7

LEMMA AdvancedIsThrough ==
  ASSUME SenderInv, NEW t \in Tracks, loop[t].batch # <<>>, loop' = Advanced(t)
  PROVE  IsThrough(t) /\ OthersRest(t)
<1>1. loop[t] \in LoopRecords /\ loop \in [Tracks -> LoopRecords]
  BY EntryType
<1>2. \A u \in Tracks \ {t} : loop'[u] = loop[u]
  BY <1>1 DEF Advanced
<1>3. \/ loop'[t] = [loop[t] EXCEPT !.next = loop[t].next + 1, !.counted = FALSE]
      \/ loop'[t] = [loop[t] EXCEPT !.next = 1, !.counted = FALSE, !.batch = <<>>, !.size = 0]
  BY <1>1 DEF Advanced
<1>4. IsThrough(t)
  BY <1>1, <1>3 DEF IsThrough, LoopRecords
<1>5. QED
  BY <1>2, <1>4 DEF OthersRest, Rests, SameBatch

LEMMA CountRests ==
  ASSUME SenderInv, NEW t \in Tracks, CountPacket(t)
  PROVE  /\ OthersRest(t)
         /\ loop'[t].batch = loop[t].batch /\ loop'[t].next = loop[t].next /\ loop'[t].ts = loop[t].ts
         /\ loop'[t].produced = loop[t].produced /\ loop'[t].counted = TRUE
<1>1. loop[t] \in LoopRecords /\ loop \in [Tracks -> LoopRecords]
  BY EntryType
<1>2. \A u \in Tracks \ {t} : loop'[u] = loop[u]
  BY <1>1 DEF CountPacket
<1>3. loop'[t] = [loop[t] EXCEPT !.counted = TRUE]
  BY <1>1 DEF CountPacket
<1>4. QED
  BY <1>1, <1>2, <1>3 DEF OthersRest, Rests, SameBatch, LoopRecords

-----------------------------------------------------------------------------
(* No packet is written twice, and the counters add up.                        *)

(* What was written of a track is of an earlier frame, or was in hand before    *)
(* the packet that is in hand now.                                             *)
Apart(t) ==
  LET l == loop[t] IN
  /\ Stamped(l.batch, t, l.ts - 1)
  /\ t = "audio" => Len(l.batch) <= 1
  /\ Len(l.batch) <= l.produced
  /\ \A d \in emitted : d.header.pt = TypeOf(t) =>
       /\ d.header.ts < l.ts
       /\ l.batch # <<>> /\ d.header.ts = l.ts - 1 =>
            \E i \in 1..(l.next - 1) : d = Marshal(l.batch[i])

Held(t) == IF loop[t].counted THEN 1 ELSE 0

Balance ==
  /\ metrics \in MetricsRecords /\ IsFiniteSet(emitted)
  /\ kind = "udp" =>
       metrics.packetsSent = metrics.packetsLost + Cardinality(emitted) + Held("video") + Held("audio")

WritingInv == Apart("video") /\ Apart("audio") /\ Balance

LEMMA StampType ==
  ASSUME SenderInv, NEW d \in emitted
  PROVE  d.header.ts \in Nat
<1>1. PICK p \in Packets : d = Marshal(p)
  BY DEF SenderInv, SenderTypes, Datagrams
<1>2. d.header = p.header
  BY <1>1 DEF Marshal
<1>3. QED
  BY <1>2 DEF Packets, Headers

LEMMA InHandIsNew ==
  ASSUME SenderInv, NEW t \in Tracks, Apart(t), loop[t].batch # <<>>
  PROVE  /\ Marshal(InHand(t)) \notin emitted
         /\ Marshal(InHand(t)).header.pt = TypeOf(t) /\ Marshal(InHand(t)).header.ts = loop[t].ts - 1
         /\ Marshal(InHand(t)) = Marshal(loop[t].batch[loop[t].next])
         /\ loop[t].next \in 1..Len(loop[t].batch)
<1>1. PICK batch \in Seq(Packets), next \in {loop[t].next} : batch = loop[t].batch /\ next = loop[t].next
  BY EntryType
<1>2. next \in 1..Len(batch) /\ next \in DOMAIN batch /\ InHand(t) = batch[next]
  BY <1>1, EntryType DEF LoopFits, InHand
<1>3. batch[next].header.pt = TypeOf(t) /\ batch[next].header.ts = loop[t].ts - 1
  BY <1>1, <1>2 DEF Apart, Stamped
<1>4. \A i \in DOMAIN batch : batch[i] \in Packets
  OBVIOUS
<1>5. /\ Marshal(InHand(t)).header.pt = TypeOf(t) /\ Marshal(InHand(t)).header.ts = loop[t].ts - 1
  BY <1>2, <1>3, <1>4, MarshalLength
<1>6. ASSUME Marshal(InHand(t)) \in emitted
      PROVE  FALSE
  <2>1. PICK i \in 1..(next - 1) : Marshal(batch[next]) = Marshal(batch[i])
    BY <1>1, <1>2, <1>5, <1>6 DEF Apart
  <2>2. i \in DOMAIN batch /\ i < next
    BY <1>2
  <2>3. batch[next].payload = batch[i].payload
    BY <1>2, <1>4, <2>1, <2>2, MarshalLength
  <2>4. t = "video"
    <3>1. t = "audio" => Len(batch) <= 1
      BY <1>1 DEF Apart
    <3>2. QED
      BY <1>2, <2>2, <3>1 DEF Tracks
  <2>5. Reassembles(batch, loop[t].size)
    BY <1>1, <2>4 DEF SenderInv, LoopInv, VideoFits, FrameOf
  <2>6. QED
    BY <1>2, <2>2, <2>3, <2>5, FragmentsApart
<1>7. QED
  BY <1>1, <1>2, <1>5, <1>6

LEMMA ApartRests ==
  ASSUME NEW t, Apart(t), Rests(t),
         \A d \in emitted' \ emitted : d.header.pt # TypeOf(t)
  PROVE  Apart(t)'
<1>1. /\ loop'[t].batch = loop[t].batch /\ loop'[t].ts = loop[t].ts /\ loop'[t].next = loop[t].next
      /\ loop'[t].produced = loop[t].produced
  BY DEF Rests, SameBatch
<1>2. Stamped(loop'[t].batch, t, loop'[t].ts - 1)
  BY <1>1 DEF Apart
<1>3. (t = "audio" => Len(loop'[t].batch) <= 1) /\ Len(loop'[t].batch) <= loop'[t].produced
  BY <1>1 DEF Apart
<1>4. ASSUME NEW d \in emitted', d.header.pt = TypeOf(t)
      PROVE  /\ d.header.ts < loop'[t].ts
             /\ loop'[t].batch # <<>> /\ d.header.ts = loop'[t].ts - 1 =>
                  \E i \in 1..(loop'[t].next - 1) : d = Marshal(loop'[t].batch[i])
  <2>1. d \in emitted
    BY <1>4
  <2>2. QED
    BY <1>1, <1>4, <2>1 DEF Apart
<1>5. QED
  BY <1>2, <1>3, <1>4 DEF Apart

LEMMA ApartTakesUp ==
  ASSUME SenderInv, NEW t \in Tracks, Apart(t), TakesUp(t), emitted' = emitted,
         loop'[t].batch \in Seq(Packets)
  PROVE  Apart(t)'
<1>1. loop[t].ts \in Nat /\ loop[t].produced \in Nat /\ Len(loop'[t].batch) \in Nat
  BY EntryType DEF LoopRecords
<1>2. /\ Stamped(loop'[t].batch, t, loop[t].ts) /\ loop'[t].ts = loop[t].ts + 1 /\ loop'[t].next = 1
      /\ loop'[t].produced = loop[t].produced + Len(loop'[t].batch)
      /\ (t = "audio" => Len(loop'[t].batch) = 1)
  BY DEF TakesUp
<1>3. loop'[t].ts - 1 = loop[t].ts
  BY <1>1, <1>2
<1>4. Stamped(loop'[t].batch, t, loop'[t].ts - 1)
  BY <1>2, <1>3
<1>5. (t = "audio" => Len(loop'[t].batch) <= 1) /\ Len(loop'[t].batch) <= loop'[t].produced
  <2>1. PICK len \in Nat, made \in Nat : len = Len(loop'[t].batch) /\ made = loop[t].produced
    BY <1>1
  <2>2. loop'[t].produced = made + len /\ (t = "audio" => len = 1)
    BY <1>2, <2>1
  <2>3. made + len >= len
    OBVIOUS
  <2>4. Len(loop'[t].batch) <= loop'[t].produced
    BY <2>1, <2>2, <2>3
  <2>5. t = "audio" => Len(loop'[t].batch) <= 1
    <3> SUFFICES ASSUME t = "audio" PROVE Len(loop'[t].batch) <= 1
      OBVIOUS
    <3>1. Len(loop'[t].batch) = 1
      BY <1>2
    <3>2. QED
      BY <3>1
  <2>6. QED
    BY <2>4, <2>5
<1>6. ASSUME NEW d \in emitted, d.header.pt = TypeOf(t)
      PROVE  d.header.ts < loop'[t].ts /\ d.header.ts # loop'[t].ts - 1
  <2>1. d.header.ts < loop[t].ts
    BY <1>6 DEF Apart
  <2>2. d.header.ts \in Nat
    BY StampType
  <2>3. QED
    BY <1>1, <1>2, <1>3, <2>1, <2>2
<1>7. QED
  BY <1>4, <1>5, <1>6 DEF Apart

LEMMA ApartIsThrough ==
  ASSUME SenderInv, NEW t \in Tracks, Apart(t), IsThrough(t),
         emitted' = emitted \/ emitted' = emitted \union {Marshal(InHand(t))}
  PROVE  Apart(t)'
<1>1. loop[t].ts \in Nat /\ loop[t].produced \in Nat /\ loop[t].next \in Nat
  BY EntryType DEF LoopRecords
<1>2. /\ loop'[t].ts = loop[t].ts /\ loop'[t].produced = loop[t].produced /\ loop[t].batch # <<>>
      /\ \/ loop'[t].batch = <<>>
         \/ loop'[t].batch = loop[t].batch /\ loop'[t].next = loop[t].next + 1
  BY DEF IsThrough
<1>3. /\ Marshal(InHand(t)).header.ts = loop[t].ts - 1
      /\ Marshal(InHand(t)) = Marshal(loop[t].batch[loop[t].next])
      /\ loop[t].next \in 1..Len(loop[t].batch)
  BY <1>2, InHandIsNew
<1>4. Stamped(loop'[t].batch, t, loop'[t].ts - 1)
  BY <1>2 DEF Apart, Stamped
<1>5. (t = "audio" => Len(loop'[t].batch) <= 1) /\ Len(loop'[t].batch) <= loop'[t].produced
  <2>1. Len(<<>>) = 0
    OBVIOUS
  <2>2. QED
    BY <1>1, <1>2, <2>1 DEF Apart
<1>6. ASSUME NEW d \in emitted', d.header.pt = TypeOf(t)
      PROVE  /\ d.header.ts < loop'[t].ts
             /\ loop'[t].batch # <<>> /\ d.header.ts = loop'[t].ts - 1 =>
                  \E i \in 1..(loop'[t].next - 1) : d = Marshal(loop'[t].batch[i])
  <2>1. CASE d \in emitted
    <3>1. /\ d.header.ts < loop[t].ts
          /\ d.header.ts = loop[t].ts - 1 => \E i \in 1..(loop[t].next - 1) : d = Marshal(loop[t].batch[i])
      BY <1>2, <1>6, <2>1 DEF Apart
    <3>2. 1..(loop[t].next - 1) \subseteq 1..(loop[t].next + 1 - 1)
      BY <1>1
    <3>3. d.header.ts < loop'[t].ts
      BY <1>2, <3>1
    <3>4. ASSUME loop'[t].batch # <<>>, d.header.ts = loop'[t].ts - 1
          PROVE  \E i \in 1..(loop'[t].next - 1) : d = Marshal(loop'[t].batch[i])
      <4>1. PICK i \in 1..(loop[t].next - 1) : d = Marshal(loop[t].batch[i])
        BY <1>2, <3>1, <3>4
      <4>2. loop'[t].next = loop[t].next + 1 /\ loop'[t].batch = loop[t].batch
        BY <1>2, <3>4
      <4>3. i \in 1..(loop'[t].next - 1)
        <5>1. PICK n \in Nat : n = loop[t].next
          BY <1>1
        <5>2. i \in 1..(n - 1) /\ loop'[t].next = n + 1
          BY <4>2, <5>1
        <5>3. i \in 1..(n + 1 - 1)
          BY <5>2
        <5>4. QED
          BY <5>2, <5>3
      <4>4. QED
        BY <4>1, <4>2, <4>3
    <3>5. QED
      BY <3>3, <3>4
  <2>2. CASE d = Marshal(InHand(t))
    <3>1. d.header.ts = loop[t].ts - 1 /\ d = Marshal(loop[t].batch[loop[t].next])
      BY <1>3, <2>2
    <3>2. loop[t].next \in 1..(loop[t].next + 1 - 1)
      BY <1>1, <1>3
    <3>3. d.header.ts < loop'[t].ts
      BY <1>1, <1>2, <3>1
    <3>4. QED
      BY <1>2, <3>1, <3>2, <3>3
  <2>3. QED
    BY <1>6, <2>1, <2>2
<1>7. QED
  BY <1>4, <1>5, <1>6 DEF Apart

LEMMA OtherTrack ==
  ASSUME NEW t \in Tracks, NEW u \in Tracks \ {t}
  PROVE  TypeOf(t) # TypeOf(u) /\ Tracks = {t, u} /\ {t, u} = {"video", "audio"}
BY DEF Tracks, TypeOf, VideoType, AudioType

LEMMA HeldIs ==
  ASSUME NEW t \in Tracks, NEW u \in Tracks \ {t}
  PROVE  Held("video") + Held("audio") = Held(t) + Held(u) /\ Held(t) \in 0..1 /\ Held(u) \in 0..1
BY DEF Tracks, Held

(* The packet in hand is written.                                              *)
LEMMA Written ==
  ASSUME SenderInv, NEW t \in Tracks, Apart(t), loop[t].batch # <<>>, IsFiniteSet(emitted)
  PROVE  /\ IsFiniteSet(emitted \union {Marshal(InHand(t))})
         /\ Cardinality(emitted \union {Marshal(InHand(t))}) = Cardinality(emitted) + 1
BY InHandIsNew, FS_AddElement

LEMMA MetricsCount ==
  ASSUME NEW m \in MetricsRecords
  PROVE  /\ m.packetsSent \in Nat /\ m.packetsLost \in Nat
         /\ RecordPacketSent(m) \in MetricsRecords /\ RecordPacketLost(m) \in MetricsRecords
         /\ RecordFrameDropped(m) \in MetricsRecords
         /\ RecordPacketSent(m).packetsSent = m.packetsSent + 1
         /\ RecordPacketSent(m).packetsLost = m.packetsLost
         /\ RecordPacketLost(m).packetsSent = m.packetsSent
         /\ RecordPacketLost(m).packetsLost = m.packetsLost + 1
         /\ RecordFrameDropped(m).packetsSent = m.packetsSent
         /\ RecordFrameDropped(m).packetsLost = m.packetsLost
BY DEF MetricsRecords, RecordPacketSent, RecordPacketLost, RecordFrameDropped

(* A step that writes nothing keeps the balance.                               *)
LEMMA UnsentBalance ==
  ASSUME Balance, Unsent, \A t \in Tracks : loop'[t].counted = loop[t].counted
  PROVE  Balance'
<1>1. metrics' \in MetricsRecords
      /\ metrics'.packetsSent = metrics.packetsSent /\ metrics'.packetsLost = metrics.packetsLost
  BY MetricsCount DEF Balance, Unsent
<1>2. Held("video")' = Held("video") /\ Held("audio")' = Held("audio")
  BY DEF Held, Tracks
<1>3. QED
  BY <1>1, <1>2 DEF Balance, Unsent

LEMMA BothApart ==
  ASSUME NEW t \in Tracks, Apart(t)', \A u \in Tracks \ {t} : Apart(u)'
  PROVE  Apart("video")' /\ Apart("audio")'
BY DEF Tracks

LEMMA StillWriting ==
  ASSUME WritingInv, Still
  PROVE  WritingInv'
<1>1. Rests("video") /\ Rests("audio") /\ emitted' = emitted
  BY DEF Still, Unsent, Tracks
<1>2. Apart("video")' /\ Apart("audio")'
  BY <1>1, ApartRests DEF WritingInv
<1>3. \A t \in Tracks : loop'[t].counted = loop[t].counted
  BY DEF Still, Rests, SameBatch
<1>4. Balance'
  BY <1>3, UnsentBalance DEF WritingInv, Still
<1>5. QED
  BY <1>2, <1>4 DEF WritingInv

LEMMA StartsWriting ==
  ASSUME SenderInv, SenderInv', WritingInv, NEW t \in Tracks, Starts(t)
  PROVE  WritingInv'
<1>1. TakesUp(t) /\ OthersRest(t) /\ emitted' = emitted
  BY DEF Starts, Unsent
<1>2. \A u \in Tracks : Apart(u)
  BY DEF WritingInv, Tracks
<1>3. loop'[t].batch \in Seq(Packets)
  BY DEF SenderInv, LoopInv, LoopRecords
<1>4. Apart(t)'
  BY <1>1, <1>2, <1>3, ApartTakesUp
<1>5. ASSUME NEW u \in Tracks \ {t} PROVE Apart(u)'
  BY <1>1, <1>2, ApartRests DEF OthersRest
<1>6. \A u \in Tracks : loop'[u].counted = loop[u].counted
  BY <1>1 DEF TakesUp, OthersRest, Rests, SameBatch
<1>7. Balance'
  BY <1>6, UnsentBalance DEF WritingInv, Starts
<1>8. QED
  BY <1>4, <1>5, <1>7, BothApart DEF WritingInv

LEMMA CountWriting ==
  ASSUME SenderInv, WritingInv, NEW t \in Tracks, CountPacket(t)
  PROVE  WritingInv'
<1>1. /\ OthersRest(t)
      /\ loop'[t].batch = loop[t].batch /\ loop'[t].next = loop[t].next /\ loop'[t].ts = loop[t].ts
      /\ loop'[t].produced = loop[t].produced /\ loop'[t].counted = TRUE
  BY CountRests
<1>2. /\ UNCHANGED <<kind, emitted>> /\ metrics' = RecordPacketSent(metrics) /\ ~loop[t].counted
  BY DEF CountPacket
<1>3. \A u \in Tracks : Apart(u)
  BY DEF WritingInv, Tracks
<1>4. Apart(t)'
  BY <1>1, <1>2, <1>3 DEF Apart
<1>5. ASSUME NEW u \in Tracks \ {t} PROVE Apart(u)'
  BY <1>1, <1>2, <1>3, ApartRests DEF OthersRest
<1>6. PICK u \in Tracks : u \in Tracks \ {t}
  BY DEF Tracks
<1>7. /\ Held("video") + Held("audio") = Held(t) + Held(u) /\ Held(t) \in 0..1 /\ Held(u) \in 0..1
      /\ Held("video")' + Held("audio")' = Held(t)' + Held(u)'
  <2>1. Tracks = {t, u}
    BY <1>6, OtherTrack
  <2>2. QED
    BY <1>6, HeldIs DEF Held, Tracks
<1>8. Held(t) = 0 /\ Held(t)' = 1 /\ Held(u)' = Held(u)
  BY <1>1, <1>2, <1>6 DEF Held, OthersRest, Rests, SameBatch
<1>9. metrics \in MetricsRecords /\ IsFiniteSet(emitted) /\ Cardinality(emitted) \in Nat
  BY FS_CardinalityType DEF WritingInv, Balance
<1>10. /\ metrics' \in MetricsRecords /\ metrics'.packetsSent = metrics.packetsSent + 1
       /\ metrics'.packetsLost = metrics.packetsLost
       /\ metrics.packetsSent \in Nat /\ metrics.packetsLost \in Nat
  BY <1>2, <1>9, MetricsCount
<1>11. Balance'
  <2>1. ASSUME kind = "udp"
        PROVE  metrics'.packetsSent
                 = metrics'.packetsLost + Cardinality(emitted) + Held("video")' + Held("audio")'
    <3>1. metrics.packetsSent = metrics.packetsLost + Cardinality(emitted) + Held("video") + Held("audio")
      BY <2>1 DEF WritingInv, Balance
    <3>2. Held("video") \in 0..1 /\ Held("audio") \in 0..1 /\ Held("video")' \in 0..1 /\ Held("audio")' \in 0..1
      BY DEF Held
    <3>3. QED
      BY <1>7, <1>8, <1>9, <1>10, <3>1, <3>2
  <2>2. QED
    BY <1>2, <1>9, <1>10, <2>1 DEF Balance
<1>12. QED
  BY <1>4, <1>5, <1>11, BothApart DEF WritingInv

(* The loop is through with its packet: dropped, lost or written.              *)
LEMMA ThroughWriting ==
  ASSUME SenderInv, WritingInv, NEW t \in Tracks, DropPacket(t) \/ WriteToUDP(t) \/ WriteRTP(t)
  PROVE  WritingInv'
<1>1. loop[t].batch # <<>> /\ loop' = Advanced(t) /\ kind' = kind /\ kind \in {"udp", "webrtc"}
  BY DEF DropPacket, WriteToUDP, WriteRTP, SenderInv, SenderTypes
<1>2. IsThrough(t) /\ OthersRest(t)
  BY <1>1, AdvancedIsThrough
<1>3. /\ emitted' = emitted \/ emitted' = emitted \union {Marshal(InHand(t))}
      /\ metrics' \in {metrics, RecordPacketLost(metrics), RecordPacketSent(metrics)}
  BY DEF DropPacket, WriteToUDP, WriteRTP
<1>4. ASSUME kind = "udp"
      PROVE  /\ loop[t].counted
             /\ \/ emitted' = emitted /\ metrics' = RecordPacketLost(metrics)
                \/ emitted' = emitted \union {Marshal(InHand(t))} /\ metrics' = metrics
  BY <1>4 DEF DropPacket, WriteToUDP, WriteRTP
<1>5. \A u \in Tracks : Apart(u)
  BY DEF WritingInv, Tracks
<1>6. Apart(t)'
  BY <1>2, <1>3, <1>5, ApartIsThrough
<1>7. ASSUME NEW u \in Tracks \ {t} PROVE Apart(u)'
  <2>1. \A d \in emitted' \ emitted : d.header.pt = TypeOf(t)
    BY <1>1, <1>3, <1>5, InHandIsNew
  <2>2. \A d \in emitted' \ emitted : d.header.pt # TypeOf(u)
    BY <1>7, <2>1, OtherTrack
  <2>3. QED
    BY <1>2, <1>5, <1>7, <2>2, ApartRests DEF OthersRest
<1>8. PICK u \in Tracks : u \in Tracks \ {t}
  BY DEF Tracks
<1>9. /\ Held("video") + Held("audio") = Held(t) + Held(u) /\ Held(t) \in 0..1 /\ Held(u) \in 0..1
      /\ Held("video")' + Held("audio")' = Held(t)' + Held(u)'
  <2>1. Tracks = {t, u}
    BY <1>8, OtherTrack
  <2>2. QED
    BY <1>8, HeldIs DEF Held, Tracks
<1>10. Held(t)' = 0 /\ Held(u)' = Held(u)
  BY <1>2, <1>8 DEF Held, IsThrough, OthersRest, Rests, SameBatch
<1>11. metrics \in MetricsRecords /\ IsFiniteSet(emitted) /\ Cardinality(emitted) \in Nat
  BY FS_CardinalityType DEF WritingInv, Balance
<1>12. metrics' \in MetricsRecords /\ metrics.packetsSent \in Nat /\ metrics.packetsLost \in Nat
  BY <1>3, <1>11, MetricsCount
<1>13. /\ IsFiniteSet(emitted \union {Marshal(InHand(t))})
       /\ Cardinality(emitted \union {Marshal(InHand(t))}) = Cardinality(emitted) + 1
  BY <1>1, <1>5, <1>11, Written
<1>14. Balance'
  <2>1. ASSUME kind = "udp"
        PROVE  metrics'.packetsSent
                 = metrics'.packetsLost + Cardinality(emitted') + Held("video")' + Held("audio")'
    <3>1. metrics.packetsSent = metrics.packetsLost + Cardinality(emitted) + Held("video") + Held("audio")
      BY <2>1 DEF WritingInv, Balance
    <3>2. Held("video") \in 0..1 /\ Held("audio") \in 0..1 /\ Held("video")' \in 0..1 /\ Held("audio")' \in 0..1
      BY DEF Held
    <3>3. Held(t) = 1
      BY <1>4, <2>1 DEF Held
    <3>4. CASE emitted' = emitted /\ metrics' = RecordPacketLost(metrics)
      <4>1. metrics'.packetsSent = metrics.packetsSent /\ metrics'.packetsLost = metrics.packetsLost + 1
        BY <1>11, <3>4, MetricsCount
      <4>2. QED
        BY <1>9, <1>10, <1>11, <1>12, <3>1, <3>2, <3>3, <3>4, <4>1
    <3>5. CASE emitted' = emitted \union {Marshal(InHand(t))} /\ metrics' = metrics
      BY <1>9, <1>10, <1>11, <1>12, <1>13, <3>1, <3>2, <3>3, <3>5
    <3>6. QED
      BY <1>4, <2>1, <3>4, <3>5
  <2>2. IsFiniteSet(emitted')
    BY <1>3, <1>11, <1>13
  <2>3. QED
    BY <1>1, <1>12, <2>1, <2>2 DEF Balance
<1>15. QED
  BY <1>6, <1>7, <1>14, BothApart DEF WritingInv

LEMMA WritingKeeps ==
  ASSUME SenderInv, SenderInv', WritingInv, SenderNext
  PROVE  WritingInv'
<1>1. "video" \in Tracks /\ "audio" \in Tracks
  BY DEF Tracks
<1>2. CASE Start \/ Stop \/ DropFrame \/ \E t \in Tracks : LoopEnds(t)
  BY <1>2, StartRests, DropFrameRests, StillWriting
<1>3. CASE runVideoLoop \/ runFrameLoop \/ streamVideo
  BY <1>1, <1>3, VideoStarts, StillWriting, StartsWriting
<1>4. CASE runAudioLoop \/ streamAudio
  BY <1>1, <1>4, AudioStarts, StillWriting, StartsWriting
<1>5. CASE \E t \in Tracks : CountPacket(t) \/ DropPacket(t) \/ WriteToUDP(t) \/ WriteRTP(t)
  BY <1>5, CountWriting, ThroughWriting
<1>6. QED
  BY <1>2, <1>3, <1>4, <1>5 DEF SenderNext

LEMMA WritingBegins ==
  ASSUME Init
  PROVE  WritingInv
<1>1. /\ loop = [t \in Tracks |-> IdleLoop] /\ emitted = {} /\ metrics = NewRTPMetrics
      /\ "video" \in Tracks /\ "audio" \in Tracks
  BY DEF Init, SenderInit, Tracks
<1>2. loop["video"] = IdleLoop /\ loop["audio"] = IdleLoop
  BY <1>1
<1>3. /\ IdleLoop.batch = <<>> /\ IdleLoop.ts = 0 /\ IdleLoop.next = 1 /\ IdleLoop.produced = 0
      /\ IdleLoop.counted = FALSE
  BY DEF IdleLoop
<1>4. DOMAIN <<>> = {} /\ Len(<<>>) = 0
  OBVIOUS
<1>5. Apart("video") /\ Apart("audio")
  BY <1>1, <1>2, <1>3, <1>4 DEF Apart, Stamped
<1>6. metrics \in MetricsRecords /\ metrics.packetsSent = 0 /\ metrics.packetsLost = 0
  BY <1>1 DEF NewRTPMetrics, MetricsRecords
<1>7. Balance
  BY <1>1, <1>2, <1>3, <1>6, FS_EmptySet DEF Balance, Held
<1>8. QED
  BY <1>5, <1>7 DEF WritingInv

-----------------------------------------------------------------------------
(* What the receiver makes of the sequence numbers.                            *)

NumbersTo(n) == {i % SequenceSpace : i \in 0..(n - 1)}

(* Only numbers given out arrive, and the one expected follows one of them.    *)
SeenInv ==
  LET sent == loop["video"].produced IN
  /\ \A d \in emitted : d.header.pt = VideoType => d.header.seq \in NumbersTo(sent)
  /\ rx.receivedSeqNums \subseteq NumbersTo(sent)
  /\ rx.expectedSeq = 0 \/ \E s \in rx.receivedSeqNums : rx.expectedSeq = (s + 1) % SequenceSpace
  /\ rx.receivedSeqNums = {} => rx.seqWrap = 0 /\ rx.expectedSeq = 0
  /\ sent <= HighSeq => rx.seqWrap = 0

LEMMA NumbersGrow ==
  ASSUME NEW n \in Nat, NEW m \in Nat, n <= m
  PROVE  NumbersTo(n) \subseteq NumbersTo(m)
BY DEF NumbersTo

(* Before the first wrap a number is its own remainder.                        *)
LEMMA NumbersBelow ==
  ASSUME NEW n \in Nat, n <= SequenceSpace
  PROVE  NumbersTo(n) \subseteq 0..(n - 1)
<1>1. ASSUME NEW i \in 0..(n - 1)
      PROVE  i % SequenceSpace = i
  <2>1. SequenceSpace \in Nat \ {0} /\ i \in 0..(SequenceSpace - 1) /\ 0 \in Nat
    BY RtpPacketAssumption
  <2>2. PICK q \in Nat, r \in 0..(SequenceSpace - 1) : i = SequenceSpace * q + r /\ i % SequenceSpace = r
    BY <2>1, DivMod
  <2>3. SequenceSpace * q + r = SequenceSpace * 0 + i
    BY <2>1, <2>2
  <2>4. QED
    BY <2>1, <2>2, <2>3, DivModUnique
<1>2. QED
  BY <1>1 DEF NumbersTo

LEMMA ModBelow ==
  ASSUME NEW n \in Nat
  PROVE  n % SequenceSpace \in Nat /\ n % SequenceSpace <= n
<1>1. SequenceSpace \in Nat \ {0}
  BY RtpPacketAssumption
<1>2. PICK q \in Nat, r \in 0..(SequenceSpace - 1) : n = SequenceSpace * q + r /\ n % SequenceSpace = r
  BY <1>1, DivMod
<1>3. SequenceSpace * q \in Nat
  BY <1>1
<1>4. QED
  BY <1>1, <1>2, <1>3

LEMMA ProducedType ==
  ASSUME SenderInv
  PROVE  loop["video"].produced \in Nat /\ "video" \in Tracks
<1>1. "video" \in Tracks
  BY DEF Tracks
<1>2. QED
  BY <1>1, EntryType DEF LoopRecords

(* What the sender writes next is one of its numbers.                          *)
LEMMA InHandNumbered ==
  ASSUME SenderInv, Apart("video"), loop["video"].batch # <<>>
  PROVE  Marshal(InHand("video")).header.seq \in NumbersTo(loop["video"].produced)
<1>1. PICK v : v = loop["video"]
  OBVIOUS
<1>2. v.produced \in Nat /\ "video" \in Tracks
  BY <1>1, ProducedType
<1>3. PICK batch \in Seq(Packets), next \in {v.next} : batch = v.batch
  BY <1>1, <1>2, EntryType
<1>4. next \in 1..Len(batch) /\ next \in DOMAIN batch /\ Len(batch) \in Nat
  BY <1>1, <1>2, <1>3, InHandIsNew
<1>5. Len(batch) <= v.produced
  BY <1>1, <1>3 DEF Apart
<1>6. InOneFrame(batch, v.produced - Len(batch), v.ts - 1)
  BY <1>1, <1>3 DEF SenderInv, LoopInv, VideoFits, FrameOf
<1>7. batch[next].header.seq = (v.produced - Len(batch) + next - 1) % SequenceSpace
  BY <1>4, <1>6 DEF InOneFrame
<1>8. v.produced - Len(batch) + next - 1 \in 0..(v.produced - 1)
  BY <1>2, <1>4, <1>5
<1>9. batch[next] \in Packets /\ InHand("video") = batch[next]
  BY <1>1, <1>3, <1>4 DEF InHand
<1>10. Marshal(InHand("video")).header.seq = batch[next].header.seq
  BY <1>9, MarshalLength
<1>11. QED
  BY <1>1, <1>7, <1>8, <1>10 DEF NumbersTo

LEMMA SeenSends ==
  ASSUME SenderInv, SenderInv', WritingInv, SeenInv, SenderNext, rx' = rx
  PROVE  SeenInv'
<1>1. PICK sent \in Nat : sent = loop["video"].produced
  BY ProducedType
<1>2. "video" \in Tracks /\ "audio" \in Tracks /\ "video" # "audio" /\ Apart("video") /\ Apart("audio")
      /\ Tracks = {"video", "audio"}
  BY DEF Tracks, WritingInv
<1>3. loop'["video"].produced \in Nat
  BY <1>2 DEF SenderInv, LoopInv, LoopRecords
<1>4. PICK now \in Nat : now = loop'["video"].produced
  BY <1>3
<1>5. /\ sent <= now
      /\ \/ emitted' = emitted
         \/ \E t \in Tracks : loop[t].batch # <<>> /\ emitted' = emitted \union {Marshal(InHand(t))}
  <2>1. CASE Still
    BY <1>1, <1>2, <1>4, <2>1 DEF Still, Unsent, Rests, SameBatch
  <2>2. ASSUME NEW t \in Tracks, Starts(t)
        PROVE  sent <= now /\ emitted' = emitted
    <3>1. emitted' = emitted
      BY <2>2 DEF Starts, Unsent
    <3>2. CASE t = "video"
      <4>1. PICK batch \in Seq(Packets) : batch = loop'["video"].batch
        BY <1>2 DEF SenderInv, LoopInv, LoopRecords
      <4>2. now = sent + Len(batch) /\ Len(batch) \in Nat
        BY <1>1, <1>4, <2>2, <3>2, <4>1 DEF Starts, TakesUp
      <4>3. QED
        BY <3>1, <4>2
    <3>3. CASE t # "video"
      BY <1>1, <1>2, <1>4, <2>2, <3>1, <3>3 DEF Starts, OthersRest, Rests, SameBatch
    <3>4. QED
      BY <3>2, <3>3
  <2>3. ASSUME NEW t \in Tracks, CountPacket(t)
        PROVE  sent <= now /\ emitted' = emitted
    <3>1. loop'["video"].produced = loop["video"].produced
      BY <1>2, <2>3, CountRests DEF OthersRest, Rests, SameBatch
    <3>2. QED
      BY <1>1, <1>4, <2>3, <3>1 DEF CountPacket
  <2>4. ASSUME NEW t \in Tracks, DropPacket(t) \/ WriteToUDP(t) \/ WriteRTP(t)
        PROVE  /\ sent <= now
               /\ loop[t].batch # <<>>
               /\ emitted' = emitted \/ emitted' = emitted \union {Marshal(InHand(t))}
    <3>1. loop[t].batch # <<>> /\ loop' = Advanced(t)
      BY <2>4 DEF DropPacket, WriteToUDP, WriteRTP
    <3>2. IsThrough(t) /\ OthersRest(t)
      BY <3>1, AdvancedIsThrough
    <3>3. loop'["video"].produced = loop["video"].produced
      BY <1>2, <3>2 DEF IsThrough, OthersRest, Rests, SameBatch
    <3>4. QED
      BY <1>1, <1>4, <2>4, <3>1, <3>3 DEF DropPacket, WriteToUDP, WriteRTP
  <2>5. CASE Start \/ Stop \/ DropFrame \/ \E t \in Tracks : LoopEnds(t)
    BY <2>1, <2>5, StartRests, DropFrameRests
  <2>6. CASE runVideoLoop \/ runFrameLoop \/ streamVideo \/ runAudioLoop \/ streamAudio
    BY <1>2, <2>1, <2>2, <2>6, VideoStarts, AudioStarts
  <2>7. QED
    BY <2>3, <2>4, <2>5, <2>6 DEF SenderNext
<1>6. NumbersTo(sent) \subseteq NumbersTo(now)
  BY <1>5, NumbersGrow
<1>7. ASSUME NEW d \in emitted', d.header.pt = VideoType
      PROVE  d.header.seq \in NumbersTo(now)
  <2>1. CASE d \in emitted
    BY <1>1, <1>6, <1>7, <2>1 DEF SeenInv
  <2>2. ASSUME NEW t \in Tracks, loop[t].batch # <<>>, d = Marshal(InHand(t))
        PROVE  d.header.seq \in NumbersTo(now)
    <3>1. t = "video"
      <4>1. d.header.pt = TypeOf(t)
        BY <1>2, <2>2, InHandIsNew
      <4>2. QED
        BY <1>2, <1>7, <4>1 DEF TypeOf, VideoType, AudioType
    <3>2. QED
      BY <1>1, <1>2, <1>6, <2>2, <3>1, InHandNumbered
  <2>3. QED
    BY <1>5, <2>1, <2>2
<1>8. now <= HighSeq => sent <= HighSeq
  BY <1>1, <1>4, <1>5, RtpMetricsAssumption, RtpPacketAssumption
<1>9. QED
  BY <1>1, <1>4, <1>6, <1>7, <1>8 DEF SeenInv

(* The header survives the buffers of the relay and of the receiver.           *)
LEMMA HeaderKept ==
  ASSUME SenderInv, RelayInv, NEW d \in downlink
  PROVE  \E c \in emitted : Truncate(d, Buffer).header = c.header
<1>1. PICK c \in emitted : d = c \/ d = Kept(c)
  BY DEF RelayInv, KeptOf
<1>2. PICK p \in Packets : c = Marshal(p)
  BY DEF SenderInv, SenderTypes, Datagrams
<1>3. c = [x |-> c.x, extId |-> 1, extWords |-> 1, csrcs |-> 0, padding |-> 0,
           header |-> c.header, payload |-> c.payload, len |-> c.len]
  BY <1>2 DEF Marshal
<1>4. PICK n : d = [c EXCEPT !.len = n]
  <2>1. c = [c EXCEPT !.len = c.len]
    BY <1>3
  <2>2. QED
    BY <1>1, <2>1 DEF Kept, Truncate
<1>5. PICK m : Truncate(d, Buffer) = [d EXCEPT !.len = m]
  BY DEF Truncate
<1>6. Truncate(d, Buffer).header = c.header
  BY <1>3, <1>4, <1>5
<1>7. QED
  BY <1>6

LEMMA SeenReceives ==
  ASSUME SenderInv, RelayInv, ReceiverInv, SeenInv, NEW d \in downlink,
         ReceivePackets(Truncate(d, Buffer)) \/ ExampleReceives(Truncate(d, Buffer)),
         UNCHANGED <<loop, emitted>>
  PROVE  SeenInv'
<1>1. PICK sent \in Nat : sent = loop["video"].produced
  BY ProducedType
<1>2. PICK h : h = Truncate(d, Buffer).header
  OBVIOUS
<1>3. rx' = rx \/ (rx' = RecordPacketReceived(rx, h.seq) /\ h.pt = VideoType)
  BY <1>2 DEF ReceivePackets, ExampleReceives
<1>4. CASE rx' = rx
  BY <1>4 DEF SeenInv
<1>5. CASE rx' = RecordPacketReceived(rx, h.seq) /\ h.pt = VideoType
  <2>1. h.seq \in NumbersTo(sent)
    <3>1. PICK c \in emitted : h = c.header
      BY <1>2, HeaderKept
    <3>2. QED
      BY <1>1, <1>5, <3>1 DEF SeenInv
  <2>2. PICK wraps : wraps = IF rx.expectedSeq > 0 /\ h.seq < LowSeq /\ rx.expectedSeq > HighSeq THEN 1 ELSE 0
    OBVIOUS
  <2>3. /\ rx'.receivedSeqNums = rx.receivedSeqNums \union {h.seq}
        /\ rx'.expectedSeq = (h.seq + 1) % SequenceSpace
        /\ rx'.seqWrap = rx.seqWrap + wraps
    BY <1>5, <2>2 DEF RecordPacketReceived, ReceiverInv, MetricsRecords
  <2>4. sent <= HighSeq => rx'.seqWrap = 0
    <3> SUFFICES ASSUME sent <= HighSeq PROVE rx'.seqWrap = 0
      OBVIOUS
    <3>1. sent <= SequenceSpace /\ HighSeq \in Nat
      BY <1>1, RtpMetricsAssumption, RtpPacketAssumption
    <3>2. rx.seqWrap = 0
      BY <1>1 DEF SeenInv
    <3>3. rx.expectedSeq = 0 \/ \E s \in 0..(sent - 1) : rx.expectedSeq = (s + 1) % SequenceSpace
      BY <1>1, <3>1, NumbersBelow DEF SeenInv
    <3>4. ~ (rx.expectedSeq > HighSeq)
      <4>1. CASE rx.expectedSeq = 0
        BY <3>1, <4>1
      <4>2. ASSUME NEW s \in 0..(sent - 1), rx.expectedSeq = (s + 1) % SequenceSpace
            PROVE  ~ (rx.expectedSeq > HighSeq)
        <5>1. s + 1 \in Nat /\ s + 1 <= sent
          BY <1>1
        <5>2. rx.expectedSeq \in Nat /\ rx.expectedSeq <= s + 1
          BY <4>2, <5>1, ModBelow
        <5>3. QED
          BY <3>1, <5>1, <5>2
      <4>3. QED
        BY <3>3, <4>1, <4>2
    <3>5. wraps = 0
      BY <2>2, <3>4
    <3>6. QED
      BY <2>3, <3>2, <3>5
  <2>5. QED
    BY <1>1, <2>1, <2>3, <2>4 DEF SeenInv
<1>6. QED
  BY <1>3, <1>4, <1>5

LEMMA SeenStays ==
  ASSUME SeenInv, UNCHANGED <<loop, emitted, rx>>
  PROVE  SeenInv'
BY DEF SeenInv

LEMMA WritingStays ==
  ASSUME WritingInv, UNCHANGED <<kind, loop, emitted, metrics>>
  PROVE  WritingInv'
BY DEF WritingInv, Apart, Balance, Held

-----------------------------------------------------------------------------
(* Both through every step of the path.                                        *)

CountingInv == IInv /\ WritingInv /\ SeenInv

LEMMA CountingBegins ==
  ASSUME Init
  PROVE  CountingInv
<1>1. IInv
  BY Begins
<1>2. WritingInv
  BY WritingBegins
<1>3. SeenInv
  BY DEF Init, SenderInit, NewRTPMetrics, SeenInv
<1>4. QED
  BY <1>1, <1>2, <1>3 DEF CountingInv

LEMMA CountingKeeps ==
  ASSUME CountingInv, [Next]_vars
  PROVE  CountingInv'
<1>1. /\ IInv /\ IInv' /\ WritingInv /\ SeenInv
      /\ SenderInv /\ SenderInv' /\ RelayInv /\ ReceiverInv
  BY Keeps DEF CountingInv, IInv
<1>2. CASE Sender
  <2>1. WritingInv'
    BY <1>1, <1>2, WritingKeeps DEF Sender
  <2>2. SeenInv'
    BY <1>1, <1>2, SeenSends DEF Sender, receiverVars
  <2>3. QED
    BY <1>1, <2>1, <2>2 DEF CountingInv
<1>3. CASE Receive
  <2>1. PICK d \in downlink :
          /\ ReceivePackets(Truncate(d, Buffer)) \/ ExampleReceives(Truncate(d, Buffer))
          /\ UNCHANGED senderVars
    BY <1>3 DEF Receive
  <2>2. UNCHANGED <<kind, loop, emitted, metrics>>
    BY <2>1 DEF senderVars
  <2>3. QED
    BY <1>1, <2>1, <2>2, WritingStays, SeenReceives DEF CountingInv
<1>4. CASE Arrive \/ Lose \/ Relayed \/ UNCHANGED vars
  <2>1. UNCHANGED <<kind, loop, emitted, metrics, rx>>
    BY <1>4 DEF Arrive, Lose, Relayed, vars, senderVars, receiverVars
  <2>2. QED
    BY <1>1, <2>1, WritingStays, SeenStays DEF CountingInv
<1>5. QED
  BY <1>2, <1>3, <1>4 DEF Next

LEMMA CountingInvariant == Spec => []CountingInv
<1>1. Init => CountingInv
  BY CountingBegins
<1>2. CountingInv /\ [Next]_vars => CountingInv'
  BY CountingKeeps
<1>3. QED
  BY <1>1, <1>2, PTL DEF Spec

(* The counters of a UDP participant add up at every moment, for any media,     *)
(* spikes and interleaving of its loops with Stop: no datagram is written       *)
(* twice, so the history of what was written can be counted.                   *)
THEOREM CountersAddUp == Spec => []Accounted
<1>1. WritingInv => Accounted
  <2> SUFFICES ASSUME WritingInv PROVE Accounted
    OBVIOUS
  <2>1. PICK C : C = {t \in Tracks : loop[t].counted}
    OBVIOUS
  <2>2. Cardinality(C) = Held("video") + Held("audio")
    <3>1. CASE loop["video"].counted /\ loop["audio"].counted
      <4>1. C = {"video"} \union {"audio"} /\ "audio" \notin {"video"}
        BY <2>1, <3>1 DEF Tracks
      <4>2. Cardinality(C) = 2
        <5>1. PICK one : one = {"video"}
          OBVIOUS
        <5>2. IsFiniteSet(one) /\ Cardinality(one) = 1
          BY <5>1, FS_Singleton
        <5>3. Cardinality(one \union {"audio"}) = Cardinality(one) + 1
          BY <4>1, <5>1, <5>2, FS_AddElement
        <5>4. QED
          BY <4>1, <5>1, <5>2, <5>3
      <4>3. QED
        BY <3>1, <4>2 DEF Held
    <3>2. CASE loop["video"].counted /\ ~loop["audio"].counted
      <4>1. C = {"video"}
        BY <2>1, <3>2 DEF Tracks
      <4>2. QED
        BY <3>2, <4>1, FS_Singleton DEF Held
    <3>3. CASE ~loop["video"].counted /\ loop["audio"].counted
      <4>1. C = {"audio"}
        BY <2>1, <3>3 DEF Tracks
      <4>2. QED
        BY <3>3, <4>1, FS_Singleton DEF Held
    <3>4. CASE ~loop["video"].counted /\ ~loop["audio"].counted
      <4>1. C = {}
        BY <2>1, <3>4 DEF Tracks
      <4>2. QED
        BY <3>4, <4>1, FS_EmptySet DEF Held
    <3>5. QED
      BY <3>1, <3>2, <3>3, <3>4
  <2>3. metrics.packetsLost \in Nat /\ Cardinality(emitted) \in Nat
        /\ Held("video") \in 0..1 /\ Held("audio") \in 0..1
    BY MetricsCount, FS_CardinalityType DEF WritingInv, Balance, Held
  <2>4. kind = "udp" =>
          metrics.packetsSent = metrics.packetsLost + Cardinality(emitted) + Cardinality(C)
    BY <2>2, <2>3 DEF WritingInv, Balance
  <2>5. QED
    BY <2>1, <2>4 DEF Accounted
<1>2. QED
  BY <1>1, CountingInvariant, PTL DEF CountingInv

(* Extremes of a set of numbers below n.                                       *)
LEMMA Extremes ==
  ASSUME NEW n \in Nat, NEW T, T \subseteq 0..(n - 1), T # {}
  PROVE  /\ Min(T) \in T /\ \A y \in T : Min(T) <= y
         /\ Max(T) \in T /\ \A y \in T : Max(T) >= y
<1>1. \E x \in T : \A y \in T : x =< y
  <2>1. T \subseteq Nat
    OBVIOUS
  <2>2. QED
    BY <2>1, SmallestOf
<1>2. \E x \in T : \A y \in T : x >= y
  <2> DEFINE D == {n - y : y \in T}
  <2>1. D \subseteq Nat /\ D # {}
    OBVIOUS
  <2>2. PICK z \in D : \A w \in D : z <= w
    BY <2>1, SmallestOf
  <2>3. PICK x \in T : z = n - x
    OBVIOUS
  <2>4. ASSUME NEW y \in T PROVE x >= y
    <3>1. n - y \in D
      OBVIOUS
    <3>2. n - x <= n - y
      BY <2>2, <2>3, <3>1
    <3>3. x \in Int /\ y \in Int
      OBVIOUS
    <3>4. QED
      BY <3>2, <3>3
  <2>5. QED
    BY <2>4
<1>3. QED
  BY <1>1, <1>2 DEF Min, Max

(* In whatever order the packets of a stream arrive, and whichever are lost,    *)
(* the estimate errs by nothing but the late packets it takes for a wrap.      *)
THEOREM LossIsEstimated == Spec => []LossEstimateSound
<1>1. CountingInv => LossEstimateSound
  <2> SUFFICES ASSUME CountingInv PROVE LossEstimateSound
    OBVIOUS
  <2>1. SenderInv /\ ReceiverInv /\ SeenInv
    BY DEF CountingInv, IInv
  <2>2. PICK sent \in Nat : sent = loop["video"].produced
    BY <2>1, ProducedType
  <2>3. sent <= HighSeq => rx.seqWrap = 0
    BY <2>1, <2>2 DEF SeenInv
  <2>4. ASSUME sent <= SequenceSpace
        PROVE  GetPacketLossFromSequence(rx) - rx.seqWrap * SequenceSpace
                 \in 0..(sent - Cardinality(rx.receivedSeqNums))
    <3>1. PICK S : S = rx.receivedSeqNums
      OBVIOUS
    <3>2. S \subseteq 0..(sent - 1)
      BY <2>1, <2>2, <2>4, <3>1, NumbersBelow DEF SeenInv
    <3>3. rx.seqWrap \in Nat /\ SequenceSpace \in Nat
      BY <2>1, RtpPacketAssumption DEF ReceiverInv, MetricsRecords
    <3>4. PICK w \in Nat : w = rx.seqWrap * SequenceSpace
      BY <3>3
    <3>5. CASE S = {}
      <4>1. rx.seqWrap = 0
        BY <2>1, <3>1, <3>5 DEF SeenInv
      <4>2. w = 0
        BY <3>3, <3>4, <4>1
      <4>3. Cardinality(S) = 0
        BY <3>5, FS_EmptySet
      <4>4. GetPacketLossFromSequence(rx) = 0
        BY <3>1, <3>5, <4>3 DEF GetPacketLossFromSequence, ExpectedFromSequence
      <4>5. QED
        BY <3>1, <3>4, <4>2, <4>3, <4>4
    <3>6. CASE S # {}
      <4>1. PICK low \in S, high \in S : low = Min(S) /\ high = Max(S) /\ \A y \in S : low <= y /\ high >= y
        BY <3>2, <3>6, Extremes
      <4>2. low \in 0..(sent - 1) /\ high \in 0..(sent - 1) /\ low <= high
        BY <3>2, <4>1
      <4>3. S \subseteq low..high
        BY <3>2, <4>1, <4>2
      <4>4. IsFiniteSet(low..high) /\ Cardinality(low..high) = high - low + 1
        BY <4>2, FS_Interval
      <4>5. Cardinality(S) <= high - low + 1 /\ IsFiniteSet(S)
        BY <4>3, <4>4, FS_Subset
      <4>6. Cardinality(S) \in Nat
        BY <4>5, FS_CardinalityType
      <4>7. GetPacketLossFromSequence(rx) = high - low + 1 + w - Cardinality(S)
        <5>1. ExpectedFromSequence(rx) = high - low + 1 + rx.seqWrap * SequenceSpace
          BY <3>1, <3>6, <4>1 DEF ExpectedFromSequence
        <5>2. ExpectedFromSequence(rx) = high - low + 1 + w
          BY <3>4, <5>1
        <5>3. GetPacketLossFromSequence(rx) = ExpectedFromSequence(rx) - Cardinality(S)
          BY <3>1 DEF GetPacketLossFromSequence
        <5>4. QED
          BY <4>2, <4>6, <5>2, <5>3
      <4>8. QED
        BY <3>1, <3>4, <4>2, <4>5, <4>6, <4>7
    <3>7. QED
      BY <3>5, <3>6
  <2>5. QED
    BY <2>2, <2>3, <2>4 DEF LossEstimateSound
<1>2. QED
  BY <1>1, CountingInvariant, PTL
=============================================================================
