------------------------------- MODULE RtpMetrics -------------------------------
(***************************************************************************)
(* pkg/metrics: the counters a participant keeps of what it sent and a       *)
(* receiver of what arrived.  Jitter, rates and times are left out.          *)
(***************************************************************************)
EXTENDS RtpPacket, FiniteSets, FiniteSetsExt

CONSTANTS
  LowSeq,    \* below this a number counts as "just after the wrap", 1000 in the code
  HighSeq    \* above this as "just before it", 65000 in the code

ASSUME RtpMetricsAssumption == LowSeq \in 0..SequenceSpace /\ HighSeq \in 0..SequenceSpace

NewRTPMetrics ==
  [packetsSent |-> 0, packetsLost |-> 0, framesDropped |-> 0, packetsReceived |-> 0,
   receivedSeqNums |-> {}, expectedSeq |-> 0, seqWrap |-> 0]

RecordPacketSent(m) == [m EXCEPT !.packetsSent = @ + 1]
RecordPacketLost(m) == [m EXCEPT !.packetsLost = @ + 1]
RecordFrameDropped(m) == [m EXCEPT !.framesDropped = @ + 1]

\* Variant: any small number after the first counts as a wrap.
RecordAnySmall(m, seqNum) ==
  [m EXCEPT !.packetsReceived = @ + 1,
            !.receivedSeqNums = @ \union {seqNum},
            !.seqWrap = @ + IF m.expectedSeq > 0 /\ seqNum < LowSeq THEN 1 ELSE 0,
            !.expectedSeq = (seqNum + 1) % SequenceSpace]

\* The number expected next is a uint16 and 0 after the highest one, which the
\* condition takes for "nothing received yet".
RecordPacketReceived(m, seqNum) ==
  [m EXCEPT !.packetsReceived = @ + 1,
            !.receivedSeqNums = @ \union {seqNum},
            !.seqWrap = @ + IF m.expectedSeq > 0 /\ seqNum < LowSeq /\ m.expectedSeq > HighSeq
                              THEN 1 ELSE 0,
            !.expectedSeq = (seqNum + 1) % SequenceSpace]

\* GetPacketLossFromSequence: the packets it takes for missing, of how many.
ExpectedFromSequence(m) ==
  IF m.receivedSeqNums = {} THEN 0
    ELSE Max(m.receivedSeqNums) - Min(m.receivedSeqNums) + 1 + m.seqWrap * SequenceSpace

GetPacketLossFromSequence(m) == ExpectedFromSequence(m) - Cardinality(m.receivedSeqNums)
=============================================================================
