---------------------------- MODULE RuntimeTarget ----------------------------
(***************************************************************************)
(* What the rest of the system is told of the recovery engine: the state   *)
(* and the open events of a finished session, as replay evidence           *)
(* (recovery/current_core_return_runtime_target_v01.py), become the target *)
(* weight the physical plan is made for (recovery/causal_runtime_inputs_   *)
(* v01.py). Both sides have rules of their own on what they accept.        *)
(*                                                                         *)
(* Dates, hashes and provider names are taken to be in order.              *)
(***************************************************************************)
EXTENDS RecoveryDispatch, FiniteSets

\* CurrentCoreReturnReplayEvidence, from the database. None is 0.
Evidence ==
  [phase |-> rec.phase, target |-> rec.target, cycle |-> rec.cycle,
   entry |-> rec.entry, exit |-> rec.exit, oldAth |-> rec.oldAth,
   recovered |-> rec.recovered, open |-> Cardinality({s \in Session : IsOpen(s)})]

\* Its __post_init__: the ladder, and what each phase must and must not have.
Consistent(e) ==
  /\ e.target \in Target
  /\ e.phase = "NORMAL" =>
       /\ e.target = 0 /\ e.open = 0 /\ e.cycle = 0 /\ e.entry = 0 /\ e.exit = 0
       /\ e.oldAth = 0 /\ ~e.recovered
  /\ e.phase = "WAIT_D40" =>
       /\ e.target = 0 /\ e.open >= 1 /\ e.cycle # 0 /\ e.oldAth # 0
       /\ e.entry = 0 /\ e.exit = 0
  /\ e.phase = "RECOVERY_ACTIVE" =>
       e.target # 0 /\ e.cycle # 0 /\ e.oldAth # 0 /\ e.entry # 0 /\ e.exit # 0
  /\ e.phase = "OLD_ATH_GUARD" =>
       e.target = 0 /\ e.open = 0 /\ e.cycle # 0 /\ e.oldAth # 0

\* Mutant: a cycle that is not over is an active target.
DirectiveOfCycle(e) == IF e.cycle # 0 THEN "ACTIVE_TARGET" ELSE "NORMAL"

\* A snapshot never proves an exit on its session, so EXIT_TO_NORMAL, which
\* the receiving side allows, is never said.
Directive(e) == IF e.phase = "RECOVERY_ACTIVE" THEN "ACTIVE_TARGET" ELSE "NORMAL"

\* RuntimeRecoveryTarget: the directive and the weight go together.
Coherent(directive, weight) ==
  /\ weight \in Target
  /\ directive \in {"NORMAL", "EXIT_TO_NORMAL"} => weight = 0
  /\ directive = "ACTIVE_TARGET" => weight # 0

RuntimeTargets(e) ==
  IF Consistent(e) /\ Coherent(Directive(e), e.target) THEN {e.target} ELSE {}

\* The weight the compiler's schedule has reached at the session.
LastScheduled ==
  LET past == {e \in FinalSchedule(closes) : e.session <= session}
      last == {e \in past : \A f \in past : f.session <= e.session}
  IN IF past = {} THEN {0} ELSE {e.target : e \in last}

\* From price history to physical target: whatever crashes came in between, the
\* state that a finished session leaves is one the runtime adapter accepts, and
\* the one weight it hands on is what the compiler's schedule last asked for.
TargetIsScheduled ==
  (At("done") /\ missed = 0) => RuntimeTargets(Evidence) = LastScheduled
=============================================================================
