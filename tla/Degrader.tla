------------------------------- MODULE Degrader -------------------------------
(***************************************************************************)
(* internal/network/degradation.go: the process-wide handle on the traffic  *)
(* shaping of the host.  Every method runs under d.mu, so each is one       *)
(* action; what the tc, dnctl and pfctl commands it runs leave in the       *)
(* kernel is the variable rule.                                             *)
(*                                                                          *)
(* A command named in faults may fail at any call (no privilege, missing    *)
(* kernel module, interface gone); every other command succeeds whenever    *)
(* the kernel allows it.  Adding a root qdisc fails when one is there.      *)
(***************************************************************************)
EXTENDS Naturals

CONSTANTS
  Platforms,  \* the values of runtime.GOOS considered
  FaultSets   \* the hosts considered: for each, the commands that may fail

Commands == {"del", "root", "shape", "pipe", "pf", "flush"}

ASSUME DegraderAssumption ==
  /\ Platforms \subseteq {"linux", "darwin", "other"}
  /\ FaultSets \subseteq SUBSET Commands

VARIABLES
  os,       \* d.os; never changes
  faults,   \* the commands this host may fail; never changes
  rule,     \* what the kernel applies, and the call ("by") that installed it
  pipes,    \* the dummynet pipes configured (darwin)
  pipeNum,  \* d.pipeNum
  active    \* d.active

degraderVars == <<os, faults, rule, pipes, pipeNum, active>>
host == <<os, faults>>

Shapes == {"none", "prio", "loss", "delay", "bandwidth"}
NoRule == [shape |-> "none", by |-> 0]
Rule(shape, by) == [shape |-> shape, by |-> by]

(* A bare prio root schedules packets but drops, delays and limits none. *)
Degrading(r) == r.shape \in {"loss", "delay", "bandwidth"}

MayFail(command) == command \in faults

NewDegrader ==
  /\ os \in Platforms
  /\ faults \in FaultSets
  /\ rule = NoRule
  /\ pipes = {}
  /\ pipeNum = 1
  /\ active = FALSE

-----------------------------------------------------------------------------
(* Linux: tc.  The result of "tc qdisc del root" is ignored. *)

AfterDelRoot == {NoRule} \cup {r \in {rule} : MayFail("del")}

(* prio root, then netem below it, then an optional filter whose failure is *)
(* only logged.  A failure in between leaves what was done so far.           *)
LinuxNetem(shape, by, ok) ==
  /\ UNCHANGED <<host, pipes, pipeNum>>
  /\ \E r \in AfterDelRoot :
       \/ /\ ok
          /\ r = NoRule
          /\ rule' = Rule(shape, by)
          /\ active' = TRUE
       \/ /\ ~ok
          /\ r # NoRule \/ MayFail("root")
          /\ rule' = r
          /\ UNCHANGED active
       \/ /\ ~ok
          /\ r = NoRule
          /\ MayFail("shape")
          /\ rule' = Rule("prio", by)
          /\ UNCHANGED active

applyLinuxPacketLoss(by, ok) == LinuxNetem("loss", by, ok)
applyLinuxLatency(by, ok) == LinuxNetem("delay", by, ok)

(* tbf is itself the root qdisc: it replaces everything below the root. *)
applyLinuxBandwidth(by, ok) ==
  /\ UNCHANGED <<host, pipes, pipeNum>>
  /\ \E r \in AfterDelRoot :
       \/ /\ ok
          /\ r = NoRule
          /\ rule' = Rule("bandwidth", by)
          /\ active' = TRUE
       \/ /\ ~ok
          /\ r # NoRule \/ MayFail("shape")
          /\ rule' = r
          /\ UNCHANGED active

removeLinuxRules ==
  /\ rule' \in AfterDelRoot
  /\ active' = FALSE
  /\ UNCHANGED <<host, pipes, pipeNum>>

-----------------------------------------------------------------------------
(* macOS: dnctl and pfctl.  A failing "dnctl pipe config" is an error, and so  *)
(* is a rules file that cannot be written, after which no rule leads into the  *)
(* new pipe; the pf ruleset is loaded (replacing the previous one) or not,    *)
(* unnoticed.                                                                 *)

DarwinPipe(shape, by, ok) ==
  /\ UNCHANGED host
  /\ pipeNum' = pipeNum + 1
  /\ \/ /\ ok
        /\ pipes' = pipes \cup {pipeNum}
        /\ \/ rule' = Rule(shape, by)
           \/ MayFail("pf") /\ rule' = rule
        /\ active' = TRUE
     \/ /\ ~ok
        /\ MayFail("pipe")
        /\ UNCHANGED <<rule, pipes, active>>

applyDarwinPacketLoss(by, ok) == DarwinPipe("loss", by, ok)
applyDarwinLatency(by, ok) == DarwinPipe("delay", by, ok)
applyDarwinBandwidth(by, ok) == DarwinPipe("bandwidth", by, ok)

(* Variant: pipe numbers start over one too early. *)
removeDarwinRulesFromZero ==
  /\ pipes' = {}
  /\ rule' = NoRule
  /\ pipeNum' = 0
  /\ active' = FALSE
  /\ UNCHANGED host

removeDarwinRules ==
  /\ pipes' \in {{}} \cup {p \in {pipes} : MayFail("flush")}
  /\ rule' \in {NoRule} \cup {r \in {rule} : MayFail("pf")}
  /\ pipeNum' = 1
  /\ UNCHANGED host
  /\ active' = FALSE

-----------------------------------------------------------------------------
(* The exported methods: ok is TRUE when the method returns a nil error. *)

Unsupported(ok) == os = "other" /\ ~ok /\ UNCHANGED degraderVars

ApplyPacketLoss(inRange, by, ok) ==
  \/ ~inRange /\ ~ok /\ UNCHANGED degraderVars
  \/ inRange /\ os = "linux" /\ applyLinuxPacketLoss(by, ok)
  \/ inRange /\ os = "darwin" /\ applyDarwinPacketLoss(by, ok)
  \/ inRange /\ Unsupported(ok)

ApplyLatency(by, ok) ==
  \/ os = "linux" /\ applyLinuxLatency(by, ok)
  \/ os = "darwin" /\ applyDarwinLatency(by, ok)
  \/ Unsupported(ok)

ApplyBandwidthLimit(by, ok) ==
  \/ os = "linux" /\ applyLinuxBandwidth(by, ok)
  \/ os = "darwin" /\ applyDarwinBandwidth(by, ok)
  \/ Unsupported(ok)

DegraderRemoveAll ==
  \/ os = "linux" /\ removeLinuxRules
  \/ os = "darwin" /\ removeDarwinRules
  \/ os = "other" /\ UNCHANGED degraderVars

DegraderTypeOK ==
  /\ os \in {"linux", "darwin", "other"}
  /\ faults \subseteq Commands
  /\ rule \in [shape : Shapes, by : Nat]
  /\ pipes \subseteq Nat
  /\ pipeNum \in Nat \ {0}
  /\ active \in BOOLEAN
=============================================================================
