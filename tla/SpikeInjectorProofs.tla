-------------------------- MODULE SpikeInjectorProofs --------------------------
(***************************************************************************)
(* Theorems about SpikeInjector for any set of ids, any number of spikes    *)
(* and any host.  RuleOwned is not inductive by itself: that the owner of a *)
(* rule survives the registration of another spike needs distinct           *)
(* generations, and that a removal clears the rule needs to know that an    *)
(* unsupported platform never has one.                                      *)
(***************************************************************************)
EXTENDS SpikeInjector, TLAPS

ActiveSpikesOK == activeSpikes \in [SpikeIds -> ActiveSpike]

(* No tool runs on another platform, so no rule ever appears there. *)
NoRuleElsewhere == os = "other" => rule = NoRule

(* The inductive invariant. *)
IInv ==
  /\ TypeOK
  /\ CleanupArmed
  /\ GenerationsUnique
  /\ RuleOwned
  /\ NoRuleElsewhere

(***************************************************************************)
(* What the degrader may do to the kernel.                                  *)
(***************************************************************************)

(* Applying keeps the types; when it succeeds on a host where removal works *)
(* the rule is the caller's, and when it fails no foreign rule appears.      *)
LEMMA ApplyEffect ==
  ASSUME NEW type \in Types, NEW param \in Params, NEW g \in Nat,
         NEW outcome \in {"error", "wipes", "noop"},
         DegraderTypeOK, NoRuleElsewhere, Apply(type, param, g, outcome)
  PROVE  /\ DegraderTypeOK'
         /\ NoRuleElsewhere'
         /\ UNCHANGED host
         /\ outcome = "error" => UNCHANGED degraderVars
         /\ outcome = "wipes" /\ RemovalWorks => rule'.by = g
         /\ outcome = "noop" /\ RemovalWorks => rule' = rule \/ ~Degrading(rule')
<1> DEFINE Applied(ok) ==
      /\ DegraderTypeOK'
      /\ NoRuleElsewhere'
      /\ UNCHANGED host
      /\ ok /\ RemovalWorks => rule'.by = g
      /\ ~ok /\ RemovalWorks => rule' = rule \/ ~Degrading(rule')
<1>a. /\ Shapes = {"none", "prio", "loss", "delay", "bandwidth"}
      /\ \A shape \in Shapes : Rule(shape, g) \in [shape : Shapes, by : Nat]
      /\ \A shape \in Shapes : Rule(shape, g).by = g
      /\ ~Degrading(Rule("prio", g))
      /\ AfterDelRoot \subseteq [shape : Shapes, by : Nat]
      /\ \A r \in AfterDelRoot : r = rule \/ ~Degrading(r)
  BY DEF Rule, NoRule, Shapes, Degrading, AfterDelRoot, DegraderTypeOK
<1>1. ASSUME NEW ok \in BOOLEAN, UNCHANGED degraderVars, ~ok
      PROVE  Applied(ok)
  BY <1>1 DEF DegraderTypeOK, NoRuleElsewhere, NoRule, degraderVars, host
<1>2. ASSUME NEW ok \in BOOLEAN, NEW shape \in {"loss", "delay"},
             os = "linux", LinuxNetem(shape, g, ok)
      PROVE  Applied(ok)
  <2>1. /\ UNCHANGED <<host, pipes, pipeNum>>
        /\ active' \in BOOLEAN
        /\ ok => rule' = Rule(shape, g)
        /\ ~ok => rule' \in AfterDelRoot \cup {Rule("prio", g)}
    BY <1>2 DEF LinuxNetem, DegraderTypeOK
  <2>2. QED
    BY <1>2, <2>1, <1>a DEF DegraderTypeOK, NoRuleElsewhere, host
<1>3. ASSUME NEW ok \in BOOLEAN, os = "linux", applyLinuxBandwidth(g, ok)
      PROVE  Applied(ok)
  <2>1. /\ UNCHANGED <<host, pipes, pipeNum>>
        /\ active' \in BOOLEAN
        /\ ok => rule' = Rule("bandwidth", g)
        /\ ~ok => rule' \in AfterDelRoot
    BY <1>3 DEF applyLinuxBandwidth, DegraderTypeOK
  <2>2. QED
    BY <1>3, <2>1, <1>a DEF DegraderTypeOK, NoRuleElsewhere, host
<1>4. ASSUME NEW ok \in BOOLEAN, NEW shape \in {"loss", "delay", "bandwidth"},
             os = "darwin", DarwinPipe(shape, g, ok)
      PROVE  Applied(ok)
  <2>1. /\ UNCHANGED host
        /\ pipes' \in {pipes, pipes \cup {pipeNum}}
        /\ pipeNum' = pipeNum + 1
        /\ active' \in BOOLEAN
        /\ ok => rule' = Rule(shape, g) \/ (MayFail("pf") /\ rule' = rule)
        /\ ~ok => rule' = rule
    BY <1>4 DEF DarwinPipe, DegraderTypeOK
  <2>2. QED
    BY <1>4, <2>1, <1>a DEF DegraderTypeOK, NoRuleElsewhere, RemovalWorks, MayFail, host
<1>5. ASSUME NEW ok \in BOOLEAN, NEW inRange \in BOOLEAN, ApplyPacketLoss(inRange, g, ok)
      PROVE  Applied(ok)
  <2>1. CASE UNCHANGED degraderVars /\ ~ok
    BY <2>1, <1>1
  <2>2. CASE os = "linux" /\ LinuxNetem("loss", g, ok)
    BY <2>2, <1>2
  <2>3. CASE os = "darwin" /\ DarwinPipe("loss", g, ok)
    BY <2>3, <1>4
  <2>4. QED
    BY <1>5, <2>1, <2>2, <2>3
       DEF ApplyPacketLoss, Unsupported, applyLinuxPacketLoss, applyDarwinPacketLoss
<1>6. ASSUME NEW ok \in BOOLEAN, ApplyLatency(g, ok)
      PROVE  Applied(ok)
  <2>1. CASE Unsupported(ok)
    BY <2>1, <1>1 DEF Unsupported
  <2>2. CASE os = "linux" /\ LinuxNetem("delay", g, ok)
    BY <2>2, <1>2
  <2>3. CASE os = "darwin" /\ DarwinPipe("delay", g, ok)
    BY <2>3, <1>4
  <2>4. QED
    BY <1>6, <2>1, <2>2, <2>3 DEF ApplyLatency, applyLinuxLatency, applyDarwinLatency
<1>7. ASSUME NEW ok \in BOOLEAN, ApplyBandwidthLimit(g, ok)
      PROVE  Applied(ok)
  <2>1. CASE Unsupported(ok)
    BY <2>1, <1>1 DEF Unsupported
  <2>2. CASE os = "linux" /\ applyLinuxBandwidth(g, ok)
    BY <2>2, <1>3
  <2>3. CASE os = "darwin" /\ DarwinPipe("bandwidth", g, ok)
    BY <2>3, <1>4
  <2>4. QED
    BY <1>7, <2>1, <2>2, <2>3 DEF ApplyBandwidthLimit, applyDarwinBandwidth
<1>8. CASE outcome = "error" /\ UNCHANGED degraderVars
  BY <1>8, <1>1 DEF degraderVars
<1>9. CASE outcome = "noop" /\ UNCHANGED degraderVars
  BY <1>9, <1>1 DEF degraderVars
<1>10. ASSUME NEW ok \in BOOLEAN, outcome = Fallback(ok), Applied(ok)
       PROVE  /\ DegraderTypeOK'
              /\ NoRuleElsewhere'
              /\ UNCHANGED host
              /\ outcome = "error" => UNCHANGED degraderVars
              /\ outcome = "wipes" /\ RemovalWorks => rule'.by = g
              /\ outcome = "noop" /\ RemovalWorks => rule' = rule \/ ~Degrading(rule')
  BY <1>10 DEF Fallback
<1> HIDE DEF Applied
<1>11. CASE applyPacketLoss(param, g, outcome)
  BY <1>11, <1>5, <1>8, <1>10 DEF applyPacketLoss
<1>12. CASE applyJitter(param, g, outcome)
  BY <1>12, <1>6, <1>10 DEF applyJitter
<1>13. CASE applyBandwidthLimit(param, g, outcome)
  BY <1>13, <1>7, <1>8, <1>10 DEF applyBandwidthLimit
<1>14. QED
  BY <1>9, <1>11, <1>12, <1>13 DEF Apply

(* Where removal works it leaves no rule. *)
LEMMA RemoveEffect ==
  ASSUME DegraderTypeOK, NoRuleElsewhere, DegraderRemoveAll
  PROVE  /\ DegraderTypeOK'
         /\ NoRuleElsewhere'
         /\ UNCHANGED host
         /\ RemovalWorks => rule' = NoRule
<1>a. /\ NoRule \in [shape : Shapes, by : Nat]
      /\ AfterDelRoot \subseteq [shape : Shapes, by : Nat]
  BY DEF NoRule, Shapes, AfterDelRoot, DegraderTypeOK
<1>1. CASE os = "linux" /\ removeLinuxRules
  BY <1>1, <1>a DEF removeLinuxRules, AfterDelRoot, MayFail, RemovalWorks, DegraderTypeOK,
                    NoRuleElsewhere, host
<1>2. CASE os = "darwin" /\ removeDarwinRules
  <2>1. pipes' \subseteq Nat
    BY <1>2 DEF removeDarwinRules, DegraderTypeOK
  <2>2. RemovalWorks => rule' = NoRule
    BY <1>2 DEF removeDarwinRules, RemovalWorks, MayFail
  <2>3. rule' \in {NoRule, rule} /\ UNCHANGED host
    BY <1>2 DEF removeDarwinRules
  <2>4. pipeNum' \in Nat \ {0}
    BY <1>2 DEF removeDarwinRules
  <2>5. active' \in BOOLEAN
    BY <1>2 DEF removeDarwinRules
  <2>6. QED
    BY <1>2, <1>a, <2>1, <2>2, <2>3, <2>4, <2>5 DEF DegraderTypeOK, NoRuleElsewhere, host
<1>3. CASE os = "other" /\ UNCHANGED degraderVars
  BY <1>3 DEF DegraderTypeOK, NoRuleElsewhere, degraderVars, host
<1>4. QED
  BY <1>1, <1>2, <1>3 DEF DegraderRemoveAll

(***************************************************************************)
(* What a removal does to the registry: it can only take spikes away.       *)
(***************************************************************************)

(* Forgetting spikes keeps the invariant as long as those who own a rule are *)
(* forgotten only together with it.                                          *)
LEMMA ForgetKeepsIInv ==
  ASSUME IInv, DegraderTypeOK', NoRuleElsewhere', UNCHANGED <<host, injected>>,
         activeSpikes' \in [SpikeIds -> ActiveSpike],
         \A id \in SpikeIds : activeSpikes'[id] \in {activeSpikes[id], NoSpike},
         timers' \subseteq timers,
         \A id \in SpikeIds :
           activeSpikes'[id].timed => Timer(id, activeSpikes'[id].gen) \in timers',
         RemovalWorks =>
           \/ ~Degrading(rule')
           \/ /\ rule' = rule
              /\ \A id \in SpikeIds : activeSpikes[id].wipes => activeSpikes'[id] = activeSpikes[id]
  PROVE  IInv'
<1> USE DEF IInv
<1>1. TypeOK'
  BY DEF TypeOK
<1>2. CleanupArmed'
  BY DEF CleanupArmed, Timer
<1>3. GenerationsUnique'
  BY DEF GenerationsUnique, IsRegistered, NoSpike, TypeOK, ActiveSpike
<1>4. RuleOwned'
  BY DEF RuleOwned, IsRegistered, RemovalWorks, host
<1>5. QED
  BY <1>1, <1>2, <1>3, <1>4

(***************************************************************************)
(* The invariant, action by action.                                         *)
(***************************************************************************)

LEMMA InitIInv == Init => IInv
<1> SUFFICES ASSUME Init PROVE IInv
  OBVIOUS
<1> USE DEF Init, NewDegrader, NoRule, NoSpike
<1>1. TypeOK
  <2>1. DegraderTypeOK
    <3>1. active \in BOOLEAN
      BY Zenon
    <3>2. rule \in [shape : Shapes, by : Nat]
      BY DEF Shapes
    <3>3. QED
      BY <3>1, <3>2, DegraderAssumption DEF DegraderTypeOK
  <2>2. QED
    BY <2>1 DEF TypeOK, ActiveSpike
<1>2. CleanupArmed /\ GenerationsUnique /\ NoRuleElsewhere
  BY DEF CleanupArmed, GenerationsUnique, IsRegistered, NoRuleElsewhere
<1>3. RuleOwned
  BY DEF RuleOwned, Degrading
<1>4. QED
  BY <1>1, <1>2, <1>3 DEF IInv

LEMMA RegisterKeepsIInv ==
  ASSUME IInv, NEW id \in SpikeIds, NEW type \in Types, NEW param \in Params,
         NEW timed \in BOOLEAN, Register(id, type, param, timed)
  PROVE  IInv'
<1> DEFINE g == injected + 1
<1> USE DEF IInv
<1>1. PICK outcome \in {"wipes", "noop"} :
        /\ Apply(type, param, g, outcome)
        /\ activeSpikes' = [activeSpikes EXCEPT ![id] =
             [gen |-> g, timed |-> timed, wipes |-> outcome = "wipes"]]
  BY DEF Register
<1>2. /\ g \in Nat \ {0}
      /\ injected' = g
      /\ ~IsRegistered(id)
      /\ timers' = IF timed THEN timers \cup {Timer(id, g)} ELSE timers
  BY DEF Register, TypeOK
<1>3. /\ DegraderTypeOK'
      /\ NoRuleElsewhere'
      /\ UNCHANGED host
      /\ outcome = "wipes" /\ RemovalWorks => rule'.by = g
      /\ outcome = "noop" /\ RemovalWorks => rule' = rule \/ ~Degrading(rule')
  BY <1>1, <1>2, ApplyEffect DEF TypeOK
<1>4. /\ activeSpikes' \in [SpikeIds -> ActiveSpike]
      /\ activeSpikes'[id] = [gen |-> g, timed |-> timed, wipes |-> outcome = "wipes"]
      /\ \A i \in SpikeIds \ {id} : activeSpikes'[i] = activeSpikes[i]
  <2>1. [gen |-> g, timed |-> timed, wipes |-> outcome = "wipes"] \in ActiveSpike
    BY <1>2 DEF ActiveSpike
  <2>2. QED
    BY <1>1, <2>1 DEF TypeOK
<1> HIDE DEF g
<1>5. TypeOK'
  BY <1>2, <1>3, <1>4 DEF TypeOK, Timer
<1>6. CleanupArmed'
  BY <1>2, <1>4 DEF CleanupArmed
<1>7. GenerationsUnique'
  <2>1. \A i \in SpikeIds : activeSpikes[i].gen < g
    BY DEF g, GenerationsUnique, TypeOK, ActiveSpike
  <2>2. QED
    BY <1>2, <1>4, <2>1 DEF GenerationsUnique, IsRegistered, TypeOK, ActiveSpike, g
<1>8. RuleOwned'
  <2> SUFFICES ASSUME RemovalWorks', Degrading(rule')
               PROVE  \E i \in SpikeIds : /\ IsRegistered(i)'
                                          /\ activeSpikes'[i].gen = rule'.by
                                          /\ activeSpikes'[i].wipes
    BY DEF RuleOwned
  <2>1. RemovalWorks
    BY <1>3 DEF RemovalWorks, host
  <2>2. CASE outcome = "wipes"
    <3>1. activeSpikes'[id].gen = g
      BY <1>4
    <3>2. activeSpikes'[id].wipes
      <4>1. activeSpikes'[id].wipes = (outcome = "wipes")
        BY <1>4
      <4>2. QED
        BY <2>2, <4>1
    <3>3. rule'.by = g
      BY <1>3, <2>1, <2>2
    <3>4. IsRegistered(id)'
      BY <1>2, <3>1 DEF IsRegistered
    <3>5. QED
      BY <3>1, <3>2, <3>3, <3>4
  <2>3. CASE outcome = "noop"
    <3>1. rule' = rule
      BY <1>3, <2>1, <2>3
    <3>2. PICK owner \in SpikeIds : /\ IsRegistered(owner)
                                    /\ activeSpikes[owner].gen = rule.by
                                    /\ activeSpikes[owner].wipes
      BY <2>1, <3>1 DEF RuleOwned
    <3>3. QED
      BY <1>2, <1>4, <3>1, <3>2 DEF IsRegistered
  <2>4. outcome = "wipes" \/ outcome = "noop"
    OBVIOUS
  <2>5. QED
    BY <2>2, <2>3, <2>4
<1>9. QED
  BY <1>3, <1>5, <1>6, <1>7, <1>8

LEMMA CleanupKeepsIInv ==
  ASSUME IInv, NEW t \in timers, scheduleCleanup(t)
  PROVE  IInv'
<1> USE DEF IInv
<1>1. /\ t.id \in SpikeIds
      /\ timers' = timers \ {t}
      /\ activeSpikes' = [activeSpikes EXCEPT ![t.id] = NoSpike]
      /\ injected' = injected
      /\ NoSpike \in ActiveSpike
  BY DEF scheduleCleanup, Remove, TypeOK, NoSpike, ActiveSpike
<1>2. /\ activeSpikes' \in [SpikeIds -> ActiveSpike]
      /\ activeSpikes'[t.id] = NoSpike
      /\ \A i \in SpikeIds \ {t.id} : activeSpikes'[i] = activeSpikes[i]
  BY <1>1 DEF TypeOK
<1>3. \A i \in SpikeIds :
        activeSpikes'[i].timed => Timer(i, activeSpikes'[i].gen) \in timers'
  BY <1>1, <1>2 DEF CleanupArmed, Timer, NoSpike
<1>4. CASE activeSpikes[t.id].wipes
  <2>1. DegraderRemoveAll
    BY <1>4 DEF scheduleCleanup, Remove
  <2>2. /\ DegraderTypeOK'
        /\ NoRuleElsewhere'
        /\ UNCHANGED host
        /\ RemovalWorks => ~Degrading(rule')
    BY <2>1, RemoveEffect DEF TypeOK, Degrading, NoRule
  <2>3. QED
    BY <1>1, <1>2, <1>3, <2>2, ForgetKeepsIInv
<1>5. CASE ~activeSpikes[t.id].wipes
  <2>1. UNCHANGED degraderVars
    BY <1>5 DEF scheduleCleanup, Remove
  <2>2. DegraderTypeOK' /\ NoRuleElsewhere' /\ UNCHANGED host /\ rule' = rule
    BY <2>1 DEF degraderVars, host, TypeOK, DegraderTypeOK, NoRuleElsewhere
  <2>3. QED
    BY <1>1, <1>2, <1>3, <1>5, <2>2, ForgetKeepsIInv
<1>6. QED
  BY <1>4, <1>5

LEMMA RemoveAllKeepsIInv ==
  ASSUME IInv, RemoveAll
  PROVE  IInv'
<1> USE DEF IInv
<1>1. /\ activeSpikes' = [id \in SpikeIds |-> NoSpike]
      /\ timers' = timers /\ injected' = injected
      /\ NoSpike \in ActiveSpike /\ ~NoSpike.timed
  BY DEF RemoveAll, NoSpike, ActiveSpike
<1>2. /\ DegraderTypeOK'
      /\ NoRuleElsewhere'
      /\ UNCHANGED host
      /\ RemovalWorks => ~Degrading(rule')
  BY RemoveEffect DEF RemoveAll, TypeOK, Degrading, NoRule
<1>3. QED
  BY <1>1, <1>2, ForgetKeepsIInv

(* Every step keeps the invariant. *)
LEMMA StepKeepsIInv == IInv /\ [Next]_vars => IInv'
<1> SUFFICES ASSUME IInv, [Next]_vars PROVE IInv'
  OBVIOUS
<1>1. CASE UNCHANGED vars
  BY <1>1 DEF vars, degraderVars, IInv, TypeOK, DegraderTypeOK, CleanupArmed,
              GenerationsUnique, RuleOwned, RemovalWorks, IsRegistered, NoRuleElsewhere
<1>2. ASSUME NEW id \in SpikeIds, NEW type \in Types, NEW param \in Params,
             NEW timed \in BOOLEAN, Inject(id, type, param, timed)
      PROVE  IInv'
  <2>1. CASE RejectParameter(id, type, param)
    <3>1. injected + 1 \in Nat
      BY DEF IInv, TypeOK
    <3>2. UNCHANGED degraderVars
      BY <2>1, <3>1, ApplyEffect DEF RejectParameter, IInv, TypeOK
    <3>3. QED
      BY <2>1, <3>2, <1>1 DEF RejectParameter, vars
  <2>2. QED
    BY <1>1, <1>2, <2>1, RegisterKeepsIInv DEF Inject, RejectDuplicate, RejectUnknown
<1>3. ASSUME NEW t \in timers, scheduleCleanup(t)
      PROVE  IInv'
  BY <1>3, CleanupKeepsIInv
<1>4. CASE RemoveAll
  BY <1>4, RemoveAllKeepsIInv
<1>5. QED
  BY <1>1, <1>2, <1>3, <1>4 DEF Next

(***************************************************************************)
(* The theorems.                                                            *)
(***************************************************************************)

THEOREM InjectorInvariant == Spec => []IInv
BY InitIInv, StepKeepsIInv, PTL DEF Spec

(* Every variable keeps its type. *)
THEOREM Typing == Spec => []TypeOK
BY InjectorInvariant, PTL DEF IInv

(* A registered spike with a duration always has its own cleanup goroutine to *)
(* come, for any number of ids, registrations and stops (injector.go:97).      *)
THEOREM CleanupAlwaysArmed == Spec => []CleanupArmed
BY InjectorInvariant, PTL DEF IInv

(* Where removing a rule works, no rule that degrades traffic is ever without *)
(* a registered spike whose Cleanup removes it, however applying fails.        *)
THEOREM RulesAlwaysOwned == Spec => []RuleOwned
BY InjectorInvariant, PTL DEF IInv
=============================================================================
