-------------------------- MODULE MCParticipantSpikes --------------------------
EXTENDS ParticipantSpikes

Spike(id, type, targets, timed, kbps) ==
  [id |-> id, type |-> type, targets |-> targets, timed |-> timed, bitrate |-> kbps]

\* One id used twice, for everybody and for one participant; a reduction.
MCEvents == {
  Spike("s1", "other", {}, TRUE, 0),
  Spike("s1", "other", {1001}, FALSE, 0),
  Spike("s2", "bitrate_reduce", {1002}, TRUE, 300)}
=============================================================================
