----------------------------- MODULE SpikeScheduler -----------------------------
(***************************************************************************)
(* internal/scheduler/spike_scheduler.go: one SpikeScheduler.  ss.spikes is *)
(* a list that only grows; Start hands a copy of it to a goroutine that     *)
(* waits for and injects one spike after the other, and AddSpike on a       *)
(* running scheduler starts a goroutine for that spike alone.  Both kinds   *)
(* are runners here: a program counter and the spikes still to inject.      *)
(* Stop cancels the context, once and for all.                              *)
(***************************************************************************)
EXTENDS Distribution, FiniteSets

CONSTANTS
  MaxTime,      \* bound: how far the clock runs
  MaxSpikes,    \* bound: spikes scheduled or added
  MaxRunners,   \* bound: goroutines started by Start and AddSpike
  MaxStops      \* bound: calls of Stop

ASSUME SchedulerAssumption ==
  /\ MaxTime \in Nat
  /\ MaxSpikes \in Nat
  /\ MaxRunners \in Nat
  /\ MaxStops \in Nat

VARIABLES
  now,        \* the clock
  spikes,     \* ss.spikes: event and time of each
  executed,   \* their Executed flags, set through the shared pointer
  running,    \* ss.running
  cancelled,  \* ss.ctx is done
  runners,    \* the goroutines in the order they were started
  starts,     \* history: calls of Start that found the scheduler not running
  stops,      \* history: calls of Stop
  injections  \* history: how often each spike was passed to injectFunc

vars == <<now, spikes, executed, running, cancelled, runners, starts, stops, injections>>

Indices == 1..Len(spikes)
Runners == 1..Len(runners)
RunnerPcs == {"next", "waiting", "inject", "done"}

Runner(todo) == [pc |-> "next", todo |-> todo]

Init ==
  /\ now = 0
  /\ spikes = <<>>
  /\ executed = {}
  /\ running = FALSE
  /\ cancelled = FALSE
  /\ runners = <<>>
  /\ starts = 0
  /\ stops = 0
  /\ injections = [i \in 1..MaxSpikes |-> 0]

-----------------------------------------------------------------------------
(* ScheduleSpikes adds to the list only: what runs already does not see it. *)
ScheduleSpikes(strategy, events) ==
  /\ Len(spikes) + Len(events) <= MaxSpikes
  /\ \E slots \in distributeSpikes(strategy, events) :
       spikes' = spikes \o [i \in DOMAIN slots |-> [slots[i] EXCEPT !.at = now + @]]
  /\ UNCHANGED <<now, executed, running, cancelled, runners, starts, stops, injections>>

(* Variant: a second Start is not turned away. *)
StartWhileRunning ==
  /\ Len(runners) < MaxRunners
  /\ running' = TRUE
  /\ runners' = Append(runners, Runner([i \in Indices |-> i]))
  /\ starts' = IF running THEN starts ELSE starts + 1
  /\ UNCHANGED <<now, spikes, executed, cancelled, stops, injections>>

(* The copy of the list is taken under the lock that sets running. *)
Start ==
  /\ ~running
  /\ Len(runners) < MaxRunners
  /\ running' = TRUE
  /\ runners' = Append(runners, Runner([i \in Indices |-> i]))
  /\ starts' = starts + 1
  /\ UNCHANGED <<now, spikes, executed, cancelled, stops, injections>>

(* Variant: the index of the new spike is that of the last one. *)
AddSpikeOffByOne(e) ==
  /\ Len(spikes) < MaxSpikes
  /\ running => Len(runners) < MaxRunners
  /\ spikes' = Append(spikes, Slot(e, now + StartOffset[e]))
  /\ runners' = IF running THEN Append(runners, Runner(<<Len(spikes)>>)) ELSE runners
  /\ UNCHANGED <<now, executed, running, cancelled, starts, stops, injections>>

AddSpike(e) ==
  /\ Len(spikes) < MaxSpikes
  /\ running => Len(runners) < MaxRunners
  /\ spikes' = Append(spikes, Slot(e, now + StartOffset[e]))
  /\ runners' = IF running THEN Append(runners, Runner(<<Len(spikes) + 1>>)) ELSE runners
  /\ UNCHANGED <<now, executed, running, cancelled, starts, stops, injections>>

(* Stop cancels first; the flag follows under the lock, and nothing that could *)
(* come in between reads both.                                                 *)
Stop ==
  /\ stops < MaxStops
  /\ cancelled' = TRUE
  /\ running' = FALSE
  /\ stops' = stops + 1
  /\ UNCHANGED <<now, spikes, executed, runners, starts, injections>>

-----------------------------------------------------------------------------
(* runScheduler and the goroutine of AddSpike. *)

Due(g) == spikes[Head(runners[g].todo)].at <= now

Goto(g, from, to) ==
  /\ runners[g].pc = from
  /\ runners' = [runners EXCEPT ![g].pc = to]

(* Variant: the wait is taken for over when it is about to begin. *)
ComputeWaitReversed(g) ==
  /\ \/ runners[g].todo = <<>> /\ Goto(g, "next", "done")
     \/ runners[g].todo # <<>> /\ ~Due(g) /\ Goto(g, "next", "inject")
     \/ runners[g].todo # <<>> /\ Due(g) /\ Goto(g, "next", "waiting")
  /\ UNCHANGED <<now, spikes, executed, running, cancelled, starts, stops, injections>>

(* Only a spike that is still to come makes the runner look at the context. *)
ComputeWait(g) ==
  /\ \/ runners[g].todo = <<>> /\ Goto(g, "next", "done")
     \/ runners[g].todo # <<>> /\ Due(g) /\ Goto(g, "next", "inject")
     \/ runners[g].todo # <<>> /\ ~Due(g) /\ Goto(g, "next", "waiting")
  /\ UNCHANGED <<now, spikes, executed, running, cancelled, starts, stops, injections>>

WaitIsOver(g) ==
  /\ runners[g].pc = "waiting"
  /\ Due(g)
  /\ Goto(g, "waiting", "inject")
  /\ UNCHANGED <<now, spikes, executed, running, cancelled, starts, stops, injections>>

(* Variant: the wait is a sleep, and the context is looked at after it. *)
WaitCancelledAfterSleep(g) ==
  /\ cancelled
  /\ runners[g].pc = "waiting"
  /\ Due(g)
  /\ Goto(g, "waiting", "done")
  /\ UNCHANGED <<now, spikes, executed, running, cancelled, starts, stops, injections>>

WaitCancelled(g) ==
  /\ cancelled
  /\ Goto(g, "waiting", "done")
  /\ UNCHANGED <<now, spikes, executed, running, cancelled, starts, stops, injections>>

(* Variant: an error of injectFunc ends the runner. *)
InjectOrGiveUp(g, ok) ==
  LET i == Head(runners[g].todo)
  IN /\ runners[g].pc = "inject"
     /\ runners' = [runners EXCEPT ![g] =
          [pc |-> IF ok THEN "next" ELSE "done", todo |-> Tail(@.todo)]]
     /\ injections' = [injections EXCEPT ![i] = @ + 1]
     /\ executed' = IF ok THEN executed \cup {i} ELSE executed
     /\ UNCHANGED <<now, spikes, running, cancelled, starts, stops>>

(* injectFunc may fail, and the next spike is up either way. *)
Inject(g, ok) ==
  LET i == Head(runners[g].todo)
  IN /\ runners[g].pc = "inject"
     /\ runners' = [runners EXCEPT ![g] = Runner(Tail(@.todo))]
     /\ injections' = [injections EXCEPT ![i] = @ + 1]
     /\ executed' = IF ok THEN executed \cup {i} ELSE executed
     /\ UNCHANGED <<now, spikes, running, cancelled, starts, stops>>

Tick ==
  /\ now < MaxTime
  /\ now' = now + 1
  /\ UNCHANGED <<spikes, executed, running, cancelled, runners, starts, stops, injections>>

RunnerNext(g) ==
  \/ ComputeWait(g)
  \/ WaitIsOver(g)
  \/ WaitCancelled(g)
  \/ \E ok \in BOOLEAN : Inject(g, ok)

\* Batches as ScheduleSpikes gets them: an empty one changes nothing.
Batches == {b \in UNION {[1..n -> Events] : n \in 1..MaxSpikes} :
              \A i, j \in DOMAIN b : b[i] = b[j] => i = j}

Next ==
  \/ \E strategy \in Strategies, events \in Batches : ScheduleSpikes(strategy, events)
  \/ Start
  \/ \E e \in Events : AddSpike(e)
  \/ Stop
  \/ \E g \in Runners : RunnerNext(g)
  \/ Tick

(* Goroutines run, injectFunc returns and time passes; nobody has to call.    *)
(* Only ClockRuns makes a wait come to an end by itself.                      *)
RunnersProgress == \A g \in 1..MaxRunners : WF_vars(g \in Runners /\ RunnerNext(g))
ClockRuns == WF_vars(Tick)

Spec == Init /\ [][Next]_vars
FairSpec == Spec /\ RunnersProgress /\ ClockRuns

-----------------------------------------------------------------------------
TypeOK ==
  /\ now \in 0..MaxTime
  /\ spikes \in Seq([event : Events, at : Nat])
  /\ Len(spikes) <= MaxSpikes
  /\ executed \subseteq 1..MaxSpikes
  /\ running \in BOOLEAN /\ cancelled \in BOOLEAN
  /\ runners \in Seq([pc : RunnerPcs, todo : Seq(1..MaxSpikes)])
  /\ starts \in Nat /\ stops \in Nat
  /\ injections \in [1..MaxSpikes -> Nat]

Pending(g, i) == runners[g].pc # "done" /\ \E k \in DOMAIN runners[g].todo : runners[g].todo[k] = i

(* Whatever is added, stopped and started again while runners are at work, a  *)
(* spike is injected at most once for each time the scheduler was started     *)
(* (spike_scheduler.go:220-232, 289).                                         *)
OncePerStart ==
  \A i \in Indices :
    injections[i] + Cardinality({g \in Runners : Pending(g, i)}) <= starts

(* No spike is injected before its time: not by the runner of the list, not   *)
(* by that of an added spike, not after a stop (spike_scheduler.go:237-244).  *)
NeverEarly ==
  \A i \in Indices : injections[i] > 0 => spikes[i].at <= now

(* Stop ends every runner, those of a later Start as well, and those that wait *)
(* for a spike due after the last tick of the clock: none waits its timer out  *)
(* (spike_scheduler.go:239-243, 260-265).                                      *)
StopNeedsNoTime == cancelled ~> \A g \in Runners : runners[g].pc = "done"

\* Everything runner g has to inject up to spike i is due within the bound.
WithinReach(g, i) ==
  \E k \in DOMAIN runners[g].todo :
    /\ runners[g].todo[k] = i
    /\ \A j \in 1..k : spikes[runners[g].todo[j]].at <= MaxTime

(* Without a stop, every spike a runner took over is injected, whichever of    *)
(* the spikes before it fail (spike_scheduler.go:248-256).                     *)
EverySpikeRuns ==
  \A i \in 1..MaxSpikes, g \in 1..MaxRunners :
    (g \in Runners /\ Pending(g, i) /\ WithinReach(g, i)) ~> (injections[i] > 0 \/ cancelled)
=============================================================================
