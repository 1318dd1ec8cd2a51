------------------------------- MODULE MediaSource -------------------------------
(***************************************************************************)
(* internal/media: what the global media source holds once the server is    *)
(* up.  A NAL unit or an audio packet is its size.  Files that must be      *)
(* converted first are the ones ffmpeg wrote, or a failure of it.           *)
(***************************************************************************)
EXTENDS Integers, Sequences, SequencesExt

\* An Ogg page: granule position, segment sizes, whether its magic is right and
\* whether the file ends inside it.
Page(granule, segments, magic, cut) ==
  [granule |-> granule, segments |-> segments, magic |-> magic, cut |-> cut]

PageSize(page) == FoldSeq(LAMBDA s, sum : s + sum, 0, page.segments)

PageReadable(page) == page.magic /\ page.segments # <<>> /\ ~page.cut

ChunkSize == 960

\* OggReader: one packet for each page with a granule position, up to the first
\* page it cannot read, however many Opus packets the page holds.
OggPackets(pages) ==
  LET readable == {n \in 0..Len(pages) : \A i \in 1..n : PageReadable(pages[i])}
      prefix == SubSeq(pages, 1, CHOOSE n \in readable : \A m \in readable : m <= n)
      audible == SelectSeq(prefix, LAMBDA p : p.granule # 0 /\ PageSize(p) > 0)
  IN [i \in DOMAIN audible |-> PageSize(audible[i])]

\* SimpleOpusReader: the file in chunks.
SimplePackets(size) ==
  [i \in 1..((size + ChunkSize - 1) \div ChunkSize) |->
     IF i * ChunkSize <= size THEN ChunkSize ELSE size % ChunkSize]

\* NewOggReader only looks at the magic of the first page.
loadAudio(file) ==
  IF file.pages # <<>> /\ file.pages[1].magic
    THEN OggPackets(file.pages)
    ELSE SimplePackets(file.size)

\* A failure while the units are read keeps those read so far.
loadVideo(file) == SelectSeq(file.units, LAMBDA size : size > 0)

Uninitialized ==
  [videoEnabled |-> FALSE, audioEnabled |-> FALSE, video |-> <<>>, audio |-> <<>>,
   fps |-> 60, duration |-> 0]

LongerOf(a, b) == IF a > b THEN a ELSE b

\* config names the tracks that are wanted; converted and the "broken" of a file
\* say what ffmpeg and the readers made of it.
Initialize(config, videoFile, audioFile) ==
  LET video == IF config.video /\ videoFile.converted THEN loadVideo(videoFile) ELSE <<>>
      audio == IF config.audio /\ audioFile.converted THEN loadAudio(audioFile) ELSE <<>>
  IN [Uninitialized EXCEPT
        !.videoEnabled = config.video /\ videoFile.converted /\ ~videoFile.broken,
        !.audioEnabled = config.audio /\ audioFile.converted,
        !.video = video,
        !.audio = audio,
        !.duration = LongerOf((Len(video) * 1000) \div 60, Len(audio) * 20)]

SetStreamingFPS(source, fps) ==
  [source EXCEPT !.fps = fps,
                 !.duration = IF Len(source.video) > 0 THEN (Len(source.video) * 1000) \div fps
                                                       ELSE @]

\* initMediaSource: one file for both tracks, a file each, or no media at all.
Configs == [video : BOOLEAN, audio : BOOLEAN]
initMediaSource(config, videoFile, audioFile) ==
  IF config.video \/ config.audio
    THEN SetStreamingFPS(Initialize(config, videoFile, audioFile), 60)
    ELSE Uninitialized

-----------------------------------------------------------------------------
(* What the participants ask.  Indices count from 0. *)
IsVideoEnabled(source) == source.videoEnabled /\ source.video # <<>>
IsAudioEnabled(source) == source.audioEnabled /\ source.audio # <<>>
GetTotalVideoFrames(source) == Len(source.video)
GetTotalAudioFrames(source) == Len(source.audio)

\* The size of the unit, or 0 past the end.
GetVideoNAL(source, index) == IF index < Len(source.video) THEN source.video[index + 1] ELSE 0
GetAudioPacket(source, index) == IF index < Len(source.audio) THEN source.audio[index + 1] ELSE 0
=============================================================================
