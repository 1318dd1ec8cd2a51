------------------------------ MODULE H264Reader ------------------------------
(***************************************************************************)
(* internal/media/h264_reader.go and the loop of loadVideo around it        *)
(* (source.go): how the NAL units of an Annex B stream get into memory.     *)
(* A stream is a sequence of tokens, a start code or a byte of a unit, and  *)
(* the position is that of the bufio.Reader.                                *)
(***************************************************************************)
EXTENDS Naturals, Sequences, FiniteSets

CONSTANTS
  Bytes,     \* the bytes of units
  START,     \* a start code
  MaxTokens  \* bound: length of a stream

Tokens == Bytes \cup {START}

\* What an encoder writes: a start code before each unit, and no empty unit.
Streams == {s \in UNION {[1..n -> Tokens] : n \in 2..MaxTokens} :
              /\ s[1] = START
              /\ s[Len(s)] # START
              /\ \A k \in 1..(Len(s) - 1) : s[k] = START => s[k + 1] # START}

VARIABLES
  stream,    \* the file
  pos,       \* tokens read so far
  pc,        \* skipToStartCode, the read of a unit, or the end of loadVideo
  nalBuffer, \* the unit being read
  videoNALs  \* what loadVideo has collected

vars == <<stream, pos, pc, nalBuffer, videoNALs>>

Init ==
  /\ stream \in Streams
  /\ pos = 0
  /\ pc = "skip"
  /\ nalBuffer = <<>>
  /\ videoNALs = <<>>

AtEOF == pos = Len(stream)
ReadByte(b) == ~AtEOF /\ b = stream[pos + 1] /\ pos' = pos + 1

\* loadVideo keeps what is not empty.
Collect(nal) == videoNALs' = IF nal = <<>> THEN videoNALs ELSE Append(videoNALs, nal)

(* NextNAL first looks for a start code... *)
skipToStartCode ==
  /\ pc = "skip"
  /\ \E b \in Tokens : ReadByte(b) /\ pc' = IF b = START THEN "read" ELSE "skip"
  /\ UNCHANGED <<stream, nalBuffer, videoNALs>>

(* ...then reads on, and returns at the start code of the next unit, which it  *)
(* has read as well.                                                           *)
ReadNAL ==
  /\ pc = "read"
  /\ \E b \in Tokens :
       /\ ReadByte(b)
       /\ \/ /\ b # START
             /\ nalBuffer' = Append(nalBuffer, b)
             /\ UNCHANGED <<pc, videoNALs>>
          \/ /\ b = START
             /\ Collect(nalBuffer)
             /\ nalBuffer' = <<>>
             /\ pc' = "skip"
  /\ UNCHANGED stream

(* The last unit is returned first and EOF comes with the next call. *)
EndOfFile ==
  /\ pc \in {"skip", "read"}
  /\ AtEOF
  /\ Collect(nalBuffer)
  /\ nalBuffer' = <<>>
  /\ pc' = "loaded"
  /\ UNCHANGED <<stream, pos>>

Next == skipToStartCode \/ ReadNAL \/ EndOfFile

Spec == Init /\ [][Next]_vars

-----------------------------------------------------------------------------
StartCodes == {k \in DOMAIN stream : stream[k] = START}

(* h264_reader.go:45: "NextNAL reads the next NAL unit from the H.264 stream". *)
(* When the whole file is loaded, every unit of it is there; the start code    *)
(* that ended one unit is not found again for the next.                        *)
EveryUnitLoaded == pc = "loaded" => Len(videoNALs) = Cardinality(StartCodes)
=============================================================================
