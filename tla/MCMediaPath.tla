------------------------------- MODULE MCMediaPath -------------------------------
\* One participant, UDP or WebRTC, and the media sources a server may start with.
EXTENDS MediaPath

Video(converted, broken, units) == [converted |-> converted, broken |-> broken, units |-> units]
Audio(converted, pages, size) == [converted |-> converted, pages |-> pages, size |-> size]

Both == [video |-> TRUE, audio |-> TRUE]
VideoOnly == [video |-> TRUE, audio |-> FALSE]
Nothing == [video |-> FALSE, audio |-> FALSE]

Headers == Page(0, <<5>>, TRUE, FALSE)
Ogg == <<Headers, Page(960, <<7, 9>>, TRUE, FALSE), Page(1920, <<2>>, TRUE, TRUE)>>

\* Two units, of one packet and of three, and an Ogg file cut short; the same units
\* the other way round; a video file that breaks after its first unit; no media.
Film == initMediaSource(Both, Video(TRUE, FALSE, <<5, 0, 10>>), Audio(TRUE, Ogg, 30))
Reversed == initMediaSource(Both, Video(TRUE, FALSE, <<10, 0, 5>>), Audio(TRUE, Ogg, 30))
Broken == initMediaSource(VideoOnly, Video(TRUE, TRUE, <<6>>), Audio(FALSE, <<>>, 0))
Chunks == initMediaSource([video |-> FALSE, audio |-> TRUE], Video(TRUE, FALSE, <<>>), Audio(TRUE, <<>>, 970))
NoMedia == initMediaSource(Nothing, Video(FALSE, FALSE, <<>>), Audio(FALSE, <<>>, 0))

Setup(k, s, sp, n, r, p) ==
  [kind |-> k, source |-> s, spikes |-> sp, room |-> n, route |-> r, program |-> p]

Drops == {"frame_drop", "rtp_packet_loss"}

MCSetups ==
  {Setup("udp", Reversed, {}, 2, "direct", "example"),
   Setup("udp", Film, {}, 1, "relay", "client")}
  \union {Setup("udp", s, Drops, 0, "direct", "client") : s \in {Broken, Chunks, NoMedia}}
  \union {Setup("webrtc", s, Drops \union {"audio_silence"}, 0, "direct", "client") :
            s \in {Film, Broken, NoMedia}}

MCMaxTicks == [video |-> 3, audio |-> 1]
=============================================================================
