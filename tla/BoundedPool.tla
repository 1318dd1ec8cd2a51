------------------------------ MODULE BoundedPool ------------------------------
(***************************************************************************)
(* What a caller may rely on when it hands work items to an Executor        *)
(* (internal/scheduler/scheduler.go): each item is begun at most once, no   *)
(* more than Limit at a time, and the call comes back once, when nothing is *)
(* running and never to run anything again.                                 *)
(***************************************************************************)
EXTENDS Naturals, FiniteSets

CONSTANTS
  Items,  \* the indices of the items
  Limit   \* maxConcurrent

VARIABLES
  waiting,  \* items not begun
  busy,     \* items whose work function runs
  over      \* the call is back

poolVars == <<waiting, busy, over>>

PoolInit ==
  /\ waiting = Items
  /\ busy = {}
  /\ over = FALSE

Begin(i) ==
  /\ ~over
  /\ i \in waiting
  /\ Cardinality(busy) < Limit
  /\ waiting' = waiting \ {i}
  /\ busy' = busy \cup {i}
  /\ UNCHANGED over

Finish(i) ==
  /\ i \in busy
  /\ busy' = busy \ {i}
  /\ UNCHANGED <<waiting, over>>

Return ==
  /\ ~over
  /\ busy = {}
  /\ over' = TRUE
  /\ UNCHANGED <<waiting, busy>>

PoolNext ==
  \/ \E i \in Items : Begin(i) \/ Finish(i)
  \/ Return

PoolSpec == PoolInit /\ [][PoolNext]_poolVars
=============================================================================
