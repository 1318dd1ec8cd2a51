-------------------------------- MODULE Executor --------------------------------
(***************************************************************************)
(* internal/scheduler/scheduler.go: one call of Executor.Execute.  A        *)
(* strategy emits the indices of the items on a channel, the caller takes   *)
(* them off and starts a goroutine for each as soon as the semaphore has    *)
(* room, and a goroutine that fails leaves its error for the caller.        *)
(***************************************************************************)
EXTENDS Naturals, Sequences, FiniteSets

CONSTANTS
  TotalItems,     \* items of the call
  MaxConcurrent,  \* capacity of the semaphore
  Buffers         \* capacities a channel may have (config.MaxConcurrent)

ASSUME ExecutorAssumption ==
  /\ TotalItems \in Nat
  /\ MaxConcurrent \in Nat \ {0}
  /\ Buffers \subseteq Nat

Items == 1..TotalItems

VARIABLES
  strategy,   \* which Schedule runs
  buffer,     \* the capacity of its channel, 0 where each index is handed over
  ctxDone,    \* the context is cancelled
  producer,   \* the goroutine of Schedule: at its send, in its pause, or gone
  unsent,     \* the indices it has not sent
  channel,    \* the indices sent and not yet received
  caller,     \* where Execute stands, and with which index
  workers,    \* the goroutine of each item
  sem,        \* tokens in the semaphore
  errCh,      \* an error waits in errCh
  result      \* what Execute is going to return

vars == <<strategy, buffer, ctxDone, producer, unsent, channel, caller, workers, sem, errCh, result>>

Strategies == {"linear_ramp", "staggered", "burst_control"}
ProducerPcs == {"pause", "send", "closed"}
CallerPcs == {"receive", "select", "wait", "returned"}
WorkerPcs == {"none", "working", "release", "signal", "done"}
Results == {"none", "nil", "error", "cancelled"}

Init ==
  /\ strategy \in Strategies
  /\ buffer \in Buffers
  /\ ctxDone = FALSE
  /\ producer = IF strategy = "staggered" THEN "pause" ELSE "send"
  /\ unsent = Items
  /\ channel = <<>>
  /\ caller = [pc |-> "receive", index |-> 0]
  /\ workers = [i \in Items |-> "none"]
  /\ sem = 0
  /\ errCh = FALSE
  /\ result = "none"

Cancel ==
  /\ ~ctxDone
  /\ ctxDone' = TRUE
  /\ UNCHANGED <<strategy, buffer, producer, unsent, channel, caller, workers, sem, errCh, result>>

-----------------------------------------------------------------------------
(* Schedule. *)

\* Staggered sends in the order of its random delays, the others in that of
\* the items.
NextIndex(i) == i \in unsent /\ (strategy # "staggered" => \A j \in unsent : i <= j)

Send(i) ==
  /\ producer = "send"
  /\ NextIndex(i)
  /\ Len(channel) < buffer
  /\ channel' = Append(channel, i)
  /\ unsent' = unsent \ {i}
  /\ producer' = "pause"
  /\ UNCHANGED <<strategy, buffer, ctxDone, caller, workers, sem, errCh, result>>

\* The send and the receive of a channel without a buffer are one step of both.
Meets == buffer = 0 /\ caller.pc = "receive"

HandOver(i) ==
  /\ producer = "send"
  /\ NextIndex(i)
  /\ Meets
  /\ caller' = [pc |-> "select", index |-> i]
  /\ unsent' = unsent \ {i}
  /\ producer' = "pause"
  /\ UNCHANGED <<strategy, buffer, ctxDone, channel, workers, sem, errCh, result>>

PauseEnds ==
  /\ producer = "pause"
  /\ unsent # {}
  /\ producer' = "send"
  /\ UNCHANGED <<strategy, buffer, ctxDone, unsent, channel, caller, workers, sem, errCh, result>>

(* Variant: burst_control does not close its channel. *)
AllSentUnclosed ==
  /\ producer # "closed"
  /\ unsent = {}
  /\ strategy # "burst_control"
  /\ producer' = "closed"
  /\ UNCHANGED <<strategy, buffer, ctxDone, unsent, channel, caller, workers, sem, errCh, result>>

AllSent ==
  /\ producer # "closed"
  /\ unsent = {}
  /\ producer' = "closed"
  /\ UNCHANGED <<strategy, buffer, ctxDone, unsent, channel, caller, workers, sem, errCh, result>>

(* Variant: the send itself does not look at the context. *)
ScheduleCancelledInPause ==
  /\ ctxDone
  /\ producer = "pause" /\ strategy # "burst_control"
  /\ unsent # {}
  /\ producer' = "closed"
  /\ UNCHANGED <<strategy, buffer, ctxDone, unsent, channel, caller, workers, sem, errCh, result>>

(* The interval inside a burst is slept through; every other wait is a select, *)
(* that between two bursts being as good as the send after it.                 *)
ScheduleCancelled ==
  /\ ctxDone
  /\ (producer = "send") \/ (producer = "pause" /\ strategy # "burst_control")
  /\ unsent # {}
  /\ producer' = "closed"
  /\ UNCHANGED <<strategy, buffer, ctxDone, unsent, channel, caller, workers, sem, errCh, result>>

-----------------------------------------------------------------------------
(* Execute. *)

Receive ==
  /\ caller.pc = "receive"
  /\ channel # <<>>
  /\ caller' = [pc |-> "select", index |-> Head(channel)]
  /\ channel' = Tail(channel)
  /\ UNCHANGED <<strategy, buffer, ctxDone, producer, unsent, workers, sem, errCh, result>>

(* Variant: the range over the channel ends when the channel is empty. *)
RangeEndsWhenEmpty ==
  /\ caller.pc = "receive"
  /\ channel = <<>>
  /\ caller' = [pc |-> "wait", index |-> 0]
  /\ result' = "nil"
  /\ UNCHANGED <<strategy, buffer, ctxDone, producer, unsent, channel, workers, sem, errCh>>

(* The channel is closed and drained. *)
RangeEnds ==
  /\ caller.pc = "receive"
  /\ channel = <<>>
  /\ producer = "closed"
  /\ caller' = [pc |-> "wait", index |-> 0]
  /\ result' = "nil"
  /\ UNCHANGED <<strategy, buffer, ctxDone, producer, unsent, channel, workers, sem, errCh>>

\* The index just received is dropped.
GiveUp(why) ==
  /\ caller.pc = "select"
  /\ caller' = [pc |-> "wait", index |-> 0]
  /\ result' = why

SelectCancelled ==
  /\ ctxDone
  /\ GiveUp("cancelled")
  /\ UNCHANGED <<strategy, buffer, ctxDone, producer, unsent, channel, workers, sem, errCh>>

SelectError ==
  /\ errCh
  /\ GiveUp("error")
  /\ errCh' = FALSE
  /\ UNCHANGED <<strategy, buffer, ctxDone, producer, unsent, channel, workers, sem>>

(* Variant: the semaphore is not looked at. *)
SelectTokenAnyway ==
  /\ caller.pc = "select"
  /\ sem' = sem + 1
  /\ workers' = [workers EXCEPT ![caller.index] = "working"]
  /\ caller' = [pc |-> "receive", index |-> 0]
  /\ UNCHANGED <<strategy, buffer, ctxDone, producer, unsent, channel, errCh, result>>

SelectToken ==
  /\ caller.pc = "select"
  /\ sem < MaxConcurrent
  /\ sem' = sem + 1
  /\ workers' = [workers EXCEPT ![caller.index] = "working"]
  /\ caller' = [pc |-> "receive", index |-> 0]
  /\ UNCHANGED <<strategy, buffer, ctxDone, producer, unsent, channel, errCh, result>>

(* Variant: wg.Add is left to the goroutine, and Wait misses one at work. *)
WaitForSome ==
  /\ caller.pc = "wait"
  /\ \A i \in Items : workers[i] \in {"none", "working", "done"}
  /\ caller' = [pc |-> "returned", index |-> 0]
  /\ UNCHANGED <<strategy, buffer, ctxDone, producer, unsent, channel, workers, sem, errCh, result>>

(* wg.Wait, and the return. *)
WaitForAll ==
  /\ caller.pc = "wait"
  /\ \A i \in Items : workers[i] \in {"none", "done"}
  /\ caller' = [pc |-> "returned", index |-> 0]
  /\ UNCHANGED <<strategy, buffer, ctxDone, producer, unsent, channel, workers, sem, errCh, result>>

-----------------------------------------------------------------------------
(* The goroutine of an item: work, then the deferred calls, last one first. *)

\* Only the first error finds room in errCh.
WorkReturns(i, fails) ==
  /\ workers[i] = "working"
  /\ workers' = [workers EXCEPT ![i] = "release"]
  /\ errCh' = (errCh \/ fails)
  /\ UNCHANGED <<strategy, buffer, ctxDone, producer, unsent, channel, caller, sem, result>>

(* Variant: a goroutine that fails keeps its token. *)
ReleaseUnlessError(i) ==
  /\ workers[i] = "release"
  /\ workers' = [workers EXCEPT ![i] = "signal"]
  /\ sem' = IF errCh THEN sem ELSE sem - 1
  /\ UNCHANGED <<strategy, buffer, ctxDone, producer, unsent, channel, caller, errCh, result>>

(* Variant: a goroutine keeps its token. *)
ReleaseForgotten(i) ==
  /\ workers[i] = "release"
  /\ workers' = [workers EXCEPT ![i] = "signal"]
  /\ UNCHANGED <<strategy, buffer, ctxDone, producer, unsent, channel, caller, sem, errCh, result>>

Release(i) ==
  /\ workers[i] = "release"
  /\ workers' = [workers EXCEPT ![i] = "signal"]
  /\ sem' = sem - 1
  /\ UNCHANGED <<strategy, buffer, ctxDone, producer, unsent, channel, caller, errCh, result>>

Done(i) ==
  /\ workers[i] = "signal"
  /\ workers' = [workers EXCEPT ![i] = "done"]
  /\ UNCHANGED <<strategy, buffer, ctxDone, producer, unsent, channel, caller, sem, errCh, result>>

ProducerNext == (\E i \in Items : Send(i) \/ HandOver(i)) \/ PauseEnds \/ AllSent \/ ScheduleCancelled
CallerNext == Receive \/ RangeEnds \/ SelectCancelled \/ SelectError \/ SelectToken \/ WaitForAll
WorkerNext(i) == (\E fails \in BOOLEAN : WorkReturns(i, fails)) \/ Release(i) \/ Done(i)

Next == Cancel \/ ProducerNext \/ CallerNext \/ \E i \in Items : WorkerNext(i)

(* Goroutines run, pauses end and work functions return; nobody has to cancel. *)
Fairness ==
  /\ WF_vars(ProducerNext)
  /\ WF_vars(CallerNext)
  /\ \A i \in Items : WF_vars(WorkerNext(i))

Spec == Init /\ [][Next]_vars
FairSpec == Spec /\ Fairness

-----------------------------------------------------------------------------
TypeOK ==
  /\ strategy \in Strategies
  /\ buffer \in Buffers
  /\ ctxDone \in BOOLEAN
  /\ producer \in ProducerPcs
  /\ unsent \subseteq Items
  /\ channel \in Seq(Items)
  /\ caller \in [pc : CallerPcs, index : Items \cup {0}]
  /\ workers \in [Items -> WorkerPcs]
  /\ sem \in 0..MaxConcurrent
  /\ errCh \in BOOLEAN
  /\ result \in Results

Begun == {i \in Items : workers[i] # "none"}
Working == {i \in Items : workers[i] = "working"}
HoldingToken == {i \in Items : workers[i] \in {"working", "release"}}
Running == {i \in Items : workers[i] \in {"working", "release", "signal"}}

(* Execute keeps the promise of a bounded pool, whatever fails or is cancelled *)
(* in whatever order (scheduler.go:258-284).                                   *)
Pool == INSTANCE BoundedPool
          WITH Limit <- MaxConcurrent, waiting <- Items \ Begun, busy <- Working,
               over <- caller.pc = "returned"
ImplementsPool == Pool!PoolSpec

(* A token is out for each goroutine that has not released it: none leaks, so *)
(* the semaphore never shrinks (scheduler.go:266, 272).                       *)
TokensMatch == sem = Cardinality(HoldingToken)

(* A call nobody cancelled returns nil only when every item has run           *)
(* (scheduler.go:250, 283).                                                   *)
NilMeansAllRan ==
  caller.pc = "returned" /\ result = "nil" /\ ~ctxDone =>
    \A i \in Items : workers[i] = "done"

\* Somebody can go on: the caller, the goroutine of Schedule, or one at work.
CallerFree ==
  \/ caller.pc = "receive" /\ (channel # <<>> \/ producer = "closed")
  \/ caller.pc = "select" /\ (sem < MaxConcurrent \/ errCh \/ ctxDone)
  \/ caller.pc = "wait" /\ Running = {}
ProducerFree ==
  \/ producer = "pause"
  \/ producer = "send" /\ (unsent = {} \/ Len(channel) < buffer \/ Meets \/ ctxDone)

(* Nobody waits in a circle: until Execute has returned, a full channel, a full *)
(* semaphore and wg.Wait each have a goroutine that can go on and that will     *)
(* empty them (scheduler.go:258-283).                                           *)
NeverStuck == caller.pc # "returned" => CallerFree \/ ProducerFree \/ Running # {}

(* Execute comes back: no order of errors, cancellation and full channels      *)
(* leaves it waiting (scheduler.go:250).                                       *)
ExecuteReturns == <>(caller.pc = "returned")

(* A cancelled context ends the goroutine of Schedule even when nobody takes   *)
(* indices off the channel any more (scheduler.go:15).                         *)
CancelEndsSchedule == ctxDone ~> producer = "closed"
=============================================================================
