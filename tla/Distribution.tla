------------------------------ MODULE Distribution ------------------------------
(***************************************************************************)
(* internal/scheduler/spike_scheduler.go: when the spikes of a test are to  *)
(* run.  Times count from the call of ScheduleSpikes, in any unit; what the *)
(* random source decides is the choice of an element of a set.              *)
(***************************************************************************)
EXTENDS Integers, Sequences

CONSTANTS
  Events,        \* the spikes of the test
  StartOffset,   \* StartOffsetSeconds of each
  TestDuration,
  MinSpacing,
  JitterPercent

ASSUME DistributionAssumption ==
  /\ StartOffset \in [Events -> Nat]
  /\ TestDuration \in Nat \ {0}
  /\ MinSpacing \in Nat
  /\ JitterPercent \in Nat

Strategies == {"even", "random", "front_loaded", "back_loaded"}

LargerOf(a, b) == IF a > b THEN a ELSE b

\* A slot of a schedule: which event, and when.
Slot(e, t) == [event |-> e, at |-> t]

(* The durations applyJitter may return; a percentage over 100 counts as 100. *)
applyJitter(d) ==
  LET percent == IF JitterPercent > 100 THEN 100 ELSE JitterPercent
      range == (d * percent) \div 100
  IN (d - range)..(d + range)

IntervalOf(window, n) == LargerOf(window \div (n + 1), MinSpacing)

(* Where the i-th event may land: an interval after the one before it, not   *)
(* before its own offset, and then shifted by a jittered quarter interval.   *)
Landings(start, interval, i, e) ==
  {LargerOf(start + interval * i, StartOffset[e]) + j : j \in applyJitter(interval \div 4)}

Spread(start, window, events) ==
  LET n == Len(events)
      interval == IntervalOf(window, n)
      times == UNION {Landings(start, interval, i, events[i]) : i \in 1..n}
  IN {[i \in 1..n |-> Slot(events[i], at[i])] :
        at \in {f \in [1..n -> times] :
                  \A i \in 1..n : f[i] \in Landings(start, interval, i, events[i])}}

distributeEven(events) == Spread(0, TestDuration, events)

\* The first 40% of the test, and the last.
distributeFrontLoaded(events) == Spread(0, (TestDuration * 40) \div 100, events)
distributeBackLoaded(events) ==
  Spread((TestDuration * 60) \div 100, (TestDuration * 40) \div 100, events)

(* Variant: the spacing is taken from the drawn times, not from the moved ones. *)
sortAndSpaceAgainstDrawn(at) ==
  [i \in DOMAIN at |-> IF i = 1 THEN at[1] ELSE LargerOf(at[i], at[i - 1] + MinSpacing)]

(* The times of sortAndSpace, once in order: each at least MinSpacing after    *)
(* the one before it as that one was moved.                                    *)
sortAndSpace(at) ==
  LET spaced[i \in DOMAIN at] ==
        IF i = 1 THEN at[1] ELSE LargerOf(at[i], spaced[i - 1] + MinSpacing)
  IN spaced

Rearrangements(n) == {p \in [1..n -> 1..n] : \A i, j \in 1..n : p[i] = p[j] => i = j}

distributeRandom(events) ==
  LET n == Len(events)
      drawn == {[i \in 1..n |-> LargerOf(r[i], StartOffset[events[i]])] :
                  r \in [1..n -> 0..(TestDuration - 1)]}
      sorted == {dp \in drawn \X Rearrangements(n) :
                  \A i \in 1..(n - 1) : dp[1][dp[2][i]] <= dp[1][dp[2][i + 1]]}
  IN {[i \in 1..n |-> Slot(events[dp[2][i]],
                           sortAndSpace([k \in 1..n |-> dp[1][dp[2][k]]])[i])] : dp \in sorted}

(* Any strategy the code does not know is "even". *)
distributeSpikes(strategy, events) ==
  CASE strategy = "random" -> distributeRandom(events)
    [] strategy = "front_loaded" -> distributeFrontLoaded(events)
    [] strategy = "back_loaded" -> distributeBackLoaded(events)
    [] OTHER -> distributeEven(events)
=============================================================================
