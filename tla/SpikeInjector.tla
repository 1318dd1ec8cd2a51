----------------------------- MODULE SpikeInjector -----------------------------
(***************************************************************************)
(* internal/spike/injector.go: the registry of active spikes of a pod.      *)
(* Inject, Remove and RemoveAll each hold inj.mu throughout, so each is one *)
(* action together with the Degrader call it makes; the goroutine that      *)
(* removes a spike when its duration is over is a pending timer.            *)
(*                                                                          *)
(* Callers (the HTTP handlers, the spike schedulers, the stop handler) may  *)
(* call Inject and RemoveAll at any moment, so both are always possible.    *)
(***************************************************************************)
EXTENDS Degrader

CONSTANTS
  SpikeIds,     \* the spike ids callers use
  MaxInjects    \* bound: spikes registered over the life of the process

ASSUME SpikeInjectorAssumption == MaxInjects \in Nat

VARIABLES
  activeSpikes, \* inj.activeSpikes: SpikeId -> registered spike, or NoSpike
  timers,       \* goroutines asleep in scheduleCleanup
  injected      \* number of spikes registered so far; names each registration

vars == <<degraderVars, activeSpikes, timers, injected>>

NetworkTypes == {"rtp_packet_loss", "network_jitter", "bandwidth_limit"}
\* The five types whose effect is left to the participants: bitrate reduction,
\* frame drop, audio silence, SRTP rekey and ICE restart.
ParticipantTypes == {"participant_level"}
Types == NetworkTypes \cup ParticipantTypes \cup {"unknown"}

\* How the parameter of the type reads: as a number in the range the tool
\* takes, as a number outside it, or as no number at all.
Params == {"valid", "out_of_range", "not_a_number"}

\* gen tells apart two registrations under one id; timed is DurationSeconds > 0;
\* wipes is TRUE when Cleanup is degrader.RemoveAll and FALSE when it is a no-op.
ActiveSpike == [gen : Nat, timed : BOOLEAN, wipes : BOOLEAN]
NoSpike == [gen |-> 0, timed |-> FALSE, wipes |-> FALSE]

IsRegistered(id) == activeSpikes[id].gen > 0
Timer(id, g) == [id |-> id, gen |-> g]

Init ==
  /\ NewDegrader
  /\ activeSpikes = [id \in SpikeIds |-> NoSpike]
  /\ timers = {}
  /\ injected = 0

-----------------------------------------------------------------------------
(* apply*: outcome is "error" when Inject must fail, "wipes" when the rule is *)
(* installed, "noop" when the degrader failed and the spike falls back to     *)
(* doing nothing on the network.                                              *)

Fallback(ok) == IF ok THEN "wipes" ELSE "noop"

applyPacketLoss(param, g, outcome) ==
  \/ /\ param = "not_a_number"
     /\ outcome = "error"
     /\ UNCHANGED degraderVars
  \/ /\ param # "not_a_number"
     /\ \E ok \in BOOLEAN : /\ ApplyPacketLoss(param = "valid", g, ok)
                            /\ outcome = Fallback(ok)

\* What is not a number counts as 0, and no range is checked.
applyJitter(param, g, outcome) ==
  \E ok \in BOOLEAN : /\ ApplyLatency(g, ok)
                      /\ outcome = Fallback(ok)

applyBandwidthLimit(param, g, outcome) ==
  \/ /\ param = "not_a_number"
     /\ outcome = "error"
     /\ UNCHANGED degraderVars
  \/ /\ param # "not_a_number"
     /\ \E ok \in BOOLEAN : /\ ApplyBandwidthLimit(g, ok)
                            /\ outcome = Fallback(ok)

Apply(type, param, g, outcome) ==
  \/ type = "rtp_packet_loss" /\ applyPacketLoss(param, g, outcome)
  \/ type = "network_jitter" /\ applyJitter(param, g, outcome)
  \/ type = "bandwidth_limit" /\ applyBandwidthLimit(param, g, outcome)
  \/ type \in ParticipantTypes /\ outcome = "noop" /\ UNCHANGED degraderVars

-----------------------------------------------------------------------------
(* Inject.  Its error returns leave everything as it was. *)

RejectDuplicate(id) ==
  /\ IsRegistered(id)
  /\ UNCHANGED vars

RejectUnknown(id, type) ==
  /\ ~IsRegistered(id)
  /\ type = "unknown"
  /\ UNCHANGED vars

RejectParameter(id, type, param) ==
  /\ ~IsRegistered(id)
  /\ Apply(type, param, injected + 1, "error")
  /\ UNCHANGED <<activeSpikes, timers, injected>>

(* Variant: one cleanup goroutine per id, as if the id named one registration. *)
RegisterOneTimerPerId(id, type, param, timed) ==
  LET g == injected + 1
  IN /\ ~IsRegistered(id)
     /\ injected < MaxInjects
     /\ \E outcome \in {"wipes", "noop"} :
          /\ Apply(type, param, g, outcome)
          /\ activeSpikes' = [activeSpikes EXCEPT ![id] =
               [gen |-> g, timed |-> timed, wipes |-> outcome = "wipes"]]
     /\ timers' = IF timed /\ ~\E t \in timers : t.id = id
                    THEN timers \cup {Timer(id, g)} ELSE timers
     /\ injected' = g

Register(id, type, param, timed) ==
  LET g == injected + 1
  IN /\ ~IsRegistered(id)
     /\ injected < MaxInjects
     /\ \E outcome \in {"wipes", "noop"} :
          /\ Apply(type, param, g, outcome)
          /\ activeSpikes' = [activeSpikes EXCEPT ![id] =
               [gen |-> g, timed |-> timed, wipes |-> outcome = "wipes"]]
     /\ timers' = IF timed THEN timers \cup {Timer(id, g)} ELSE timers
     /\ injected' = g

Inject(id, type, param, timed) ==
  \/ RejectDuplicate(id)
  \/ RejectUnknown(id, type)
  \/ RejectParameter(id, type, param)
  \/ Register(id, type, param, timed)

(* Variant: the spike is forgotten and its Cleanup never called. *)
RemoveWithoutCleanup(id) ==
  /\ UNCHANGED degraderVars
  /\ activeSpikes' = [activeSpikes EXCEPT ![id] = NoSpike]

(* Remove takes whatever is registered under the id, and runs its Cleanup. *)
Remove(id) ==
  /\ IF activeSpikes[id].wipes THEN DegraderRemoveAll ELSE UNCHANGED degraderVars
  /\ activeSpikes' = [activeSpikes EXCEPT ![id] = NoSpike]

(* Variant: only a spike that has something to undo is removed. *)
scheduleCleanupOfRulesOnly(t) ==
  /\ timers' = timers \ {t}
  /\ IF activeSpikes[t.id].wipes THEN Remove(t.id) ELSE UNCHANGED <<degraderVars, activeSpikes>>
  /\ UNCHANGED injected

(* The sleep of scheduleCleanup ends: it removes by id. *)
scheduleCleanup(t) ==
  /\ timers' = timers \ {t}
  /\ Remove(t.id)
  /\ UNCHANGED injected

(* Every Cleanup and then degrader.RemoveAll once more; no goroutine asleep in *)
(* scheduleCleanup is told.                                                    *)
RemoveAll ==
  /\ DegraderRemoveAll
  /\ activeSpikes' = [id \in SpikeIds |-> NoSpike]
  /\ UNCHANGED <<timers, injected>>

Next ==
  \/ \E id \in SpikeIds, type \in Types, param \in Params, timed \in BOOLEAN :
       Inject(id, type, param, timed)
  \/ \E t \in timers : scheduleCleanup(t)
  \/ RemoveAll

(* A sleeping goroutine wakes up; nobody is obliged to call the injector. *)
TimerFires(id, g) == \E t \in timers : t = Timer(id, g) /\ scheduleCleanup(t)

Fairness == \A id \in SpikeIds, g \in 1..MaxInjects : WF_vars(TimerFires(id, g))

Spec == Init /\ [][Next]_vars
FairSpec == Spec /\ Fairness

-----------------------------------------------------------------------------
(* Every variable has its type, and registrations are numbered up to the bound. *)
TypeOK ==
  /\ DegraderTypeOK
  /\ activeSpikes \in [SpikeIds -> ActiveSpike]
  /\ timers \subseteq [id : SpikeIds, gen : Nat \ {0}]
  /\ injected \in Nat

(* Whatever was stopped and injected again in between, a registered spike with *)
(* a duration always has a cleanup goroutine of its own still to come          *)
(* (injector.go:97): no sequence of calls leaves a timed spike active forever. *)
CleanupArmed ==
  \A id \in SpikeIds :
    activeSpikes[id].timed => Timer(id, activeSpikes[id].gen) \in timers

RemovalWorks == faults \cap {"del", "pf"} = {}

(* On a host where removing a rule works, a rule that degrades was installed  *)
(* by a spike that is still registered and whose Cleanup removes it: no        *)
(* failing apply, replacement or removal orphans a rule in the kernel          *)
(* (injector.go:169-186, degradation.go:107-134).                              *)
RuleOwned ==
  RemovalWorks /\ Degrading(rule) =>
    \E id \in SpikeIds : /\ IsRegistered(id)
                         /\ activeSpikes[id].gen = rule.by
                         /\ activeSpikes[id].wipes

(* Two registrations never share a generation, so a rule has one owner. *)
GenerationsUnique ==
  /\ \A id \in SpikeIds : activeSpikes[id].gen <= injected
  /\ \A id1, id2 \in SpikeIds :
       IsRegistered(id1) /\ activeSpikes[id1].gen = activeSpikes[id2].gen => id1 = id2

(* A spike with a duration is gone again eventually, however often its id is  *)
(* reused and whatever the tools answer (injector.go:104).                    *)
TimedSpikeExpires ==
  \A id \in SpikeIds, g \in 1..MaxInjects :
    (activeSpikes[id].gen = g /\ activeSpikes[id].timed) ~> (activeSpikes[id].gen # g)

(* The rule a timed spike put into the kernel is lifted or replaced            *)
(* eventually: the end of a spike is the end of its degradation.               *)
RuleLifted ==
  \A id \in SpikeIds, g \in 1..MaxInjects :
    (/\ RemovalWorks
     /\ activeSpikes[id].gen = g
     /\ activeSpikes[id].timed
     /\ Degrading(rule)
     /\ rule.by = g) ~> ~(Degrading(rule) /\ rule.by = g)
=============================================================================
