---------------------------- MODULE MCSpikeScheduler ----------------------------
EXTENDS SpikeScheduler

MCEvents == {"e1", "e2"}
MCStartOffset == [e \in MCEvents |-> IF e = "e1" THEN 0 ELSE 2]
=============================================================================
