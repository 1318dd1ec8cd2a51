---------------------------- MODULE MCWebRTCReceiver ----------------------------
\* One receiver against one server that has a few participants of the test.
EXTENDS WebRTCReceiver

Setup(mode, participants, partition, partitions, wanted, retries, t) ==
  [mode |-> mode, participants |-> participants, partition |-> partition,
   partitions |-> partitions, wanted |-> wanted, retries |-> retries, test |-> t]

MCIds == 1001..1004

\* Two participants at once; one of several, from a metrics sample or probed; a
\* partition of every second participant; a stopped test, and one nobody
\* knows; the local mode with retries, and with DefaultConfig, which has none.
MCSetups ==
  {Setup("batch", 2, 0, 1, -1, 0, "live"),
   Setup("batch", 4, 0, 1, 1, 0, "live"),
   Setup("batch", 4, 1, 2, 1, 0, "live"),
   Setup("batch", 2, 0, 2, 2, 0, "live"),
   Setup("batch", 1, 0, 1, 1, 0, "stopped"),
   Setup("batch", 2, 0, 1, 1, 0, "unknown"),
   Setup("local", 1, 0, 1, -1, 2, "live"),
   Setup("local", 2, 0, 1, 1, 2, "live"),
   Setup("local", 2, 0, 1, -1, 0, "live")}
=============================================================================
