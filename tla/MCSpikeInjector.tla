---------------------------- MODULE MCSpikeInjector ----------------------------
(***************************************************************************)
(* SpikeInjector on a small instance: two ids, reused freely, and enough    *)
(* registrations for an id to be stopped and injected again while the       *)
(* cleanup goroutine of its first life is still asleep.                     *)
(***************************************************************************)
EXTENDS SpikeInjector

(* A host where applying may fail at every command but removing works, and *)
(* one where every command may fail.                                        *)
MCFaultSets == {{"root", "shape", "pipe"}, Commands}
=============================================================================
