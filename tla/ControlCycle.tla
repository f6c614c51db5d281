---------------------------- MODULE ControlCycle ----------------------------
(***************************************************************************)
(* The control state of one `sp1exec cycle`: the ROBUST overlay and the    *)
(* Top2 membership of machine_state, the decisions taken from the daily    *)
(* signal and the frozen month, and their promotion once a workflow is     *)
(* COMPLETE: execution/cycle_v04.py over state/transitions_v04.py, started *)
(* by scripts/sp1_demo_forward_runner_v04.py under its cycle lock or by    *)
(* hand without it.                                                        *)
(*                                                                         *)
(* A workflow is only its life cycle here (TwoPhaseWorkflow has the rest). *)
(* An action is one SQLite transaction or one read that later steps use.   *)
(***************************************************************************)
EXTENDS Integers, FiniteSets

CONSTANTS
  Proc,         \* cycle invocations that may be running at a time
  Timer,        \* those of them started by the forward runner
  Top2,         \* possible Top2 symbol sets
  Rung,         \* S&P 500 targets of the ROBUST overlay, as ranks; 0 is none
  Quotes,       \* fresh broker and quote snapshots a plan can be made from
  Batches,      \* guarded submissions a workflow may need
  LastDay,      \* bound on the IVV closes
  LastMonth,    \* bound on the frozen months
  CrashBudget,  \* bound on the process deaths of a behaviour
  NoProc, NoMember

ASSUME ConstantsAssumption ==
  /\ Timer \subseteq Proc /\ NoProc \notin Proc
  /\ 0 \in Rung /\ Rung \subseteq Nat /\ Batches \subseteq Nat \ {0}
  /\ LastDay \in Nat /\ LastMonth \in Nat \ {0} /\ CrashBudget \in Nat

VARIABLES
  \* machine_state
  strategy, overlay,  \* strategy_state, active_overlay
  member, mstate,     \* the active membership, membership_state
  mix,                \* the symbols of sp2_mix_json
  revision,
  \* state_transitions and execution_workflows
  keys,               \* event keys already applied
  candidate,          \* membership of the last REBALANCE_PENDING row
  flows,              \* decision -> its workflow
  \* the world: IVV closes, the frozen month, the positions
  signal, frozen,
  done, near,         \* target the positions implement; others in tolerance
  \* the processes
  pc, cand, prev, dec, lock, crashes

control == <<strategy, overlay, member, mstate, mix, revision>>
durable == <<control, keys, candidate, flows>>
world == <<signal, frozen, done, near>>
locals == <<cand, prev, dec>>
vars == <<durable, world, pc, locals, lock, crashes>>

-----------------------------------------------------------------------------
(* States *)

Signal == [day: 0..LastDay, mode: {"NORMAL", "CRASH", "POST_HANDOFF"}, rung: Rung]
Member == [month: 1..LastMonth, set: Top2]

\* The holdings a decision asks for.
Target(d) == [rung |-> d.signal.rung, set |-> d.member.set]

\* A decision: its seed fields, hashed into the decision ID.  A true hold has
\* neither a state revision nor a quote snapshot in its seed.
NoDecision == [event |-> "NONE"]

Unfinished == {d \in DOMAIN flows : flows[d].status # "COMPLETE"}

\* machine_state.execution_state is IDLE and no workflow is ACTIVE.
Quiet == Unfinished = {}

\* _pending_complete_workflow
PromotedOnceExecuted(d) == d.rebalance => <<"member", d>> \in keys
Promoted(d) ==
  /\ <<"strategy", d>> \in keys
  /\ d.rebalance => <<"member", d>> \in keys
Unpromoted == {d \in DOMAIN flows : flows[d].status = "COMPLETE" /\ ~Promoted(d)}

\* ALLOWED_TRANSITIONS
StrategyMoves == {<<"NORMAL", "CRASH">>, <<"CRASH", "POST_HANDOFF">>,
                  <<"POST_HANDOFF", "NORMAL">>}
MemberMoves == {<<"ACTIVE", "MONTH_END_PENDING">>, <<"MONTH_END_PENDING", "ACTIVE">>,
                <<"MONTH_END_PENDING", "REBALANCE_PENDING">>,
                <<"REBALANCE_PENDING", "ACTIVE">>}

Init ==
  \E s \in Top2 :
    /\ strategy = "NORMAL" /\ overlay = 0 /\ mix = s /\ revision = 1
    /\ member = [month |-> 1, set |-> s] /\ mstate = "ACTIVE"
    /\ keys = {} /\ candidate = NoMember /\ flows = [d \in {} |-> 0]
    /\ signal = [day |-> 0, mode |-> "NORMAL", rung |-> 0]
    /\ frozen = member /\ done = [rung |-> 0, set |-> s] /\ near = {}
    /\ pc = [p \in Proc |-> "idle"] /\ dec = [p \in Proc |-> NoDecision]
    /\ cand = [p \in Proc |-> NoMember] /\ prev = [p \in Proc |-> NoMember]
    /\ lock = NoProc /\ crashes = 0

-----------------------------------------------------------------------------
(* Helpers *)

Goto(p, label) == pc' = [pc EXCEPT ![p] = label] /\ UNCHANGED <<lock, crashes>>

\* The invocation ends, with a result or an exception; the runner unlocks.
Exit(p) ==
  /\ pc' = [pc EXCEPT ![p] = "idle"]
  /\ cand' = [cand EXCEPT ![p] = NoMember] /\ prev' = [prev EXCEPT ![p] = NoMember]
  /\ dec' = [dec EXCEPT ![p] = NoDecision]
  /\ lock' = IF lock = p THEN NoProc ELSE lock
  /\ UNCHANGED crashes

\* transition_state for a new event key: legal move, IDLE, the mix of the row
\* covers the symbols of its active membership.
AllowedAnyMix(old, new, moves, newMix, newSet) ==
  Quiet /\ (old = new \/ <<old, new>> \in moves)
AllowedMovesOnly(old, new, moves, newMix, newSet) ==
  Quiet /\ <<old, new>> \in moves /\ newMix = newSet
Allowed(old, new, moves, newMix, newSet) ==
  Quiet /\ (old = new \/ <<old, new>> \in moves) /\ newMix = newSet
Record(key) == keys' = keys \cup {key} /\ revision' = revision + 1

-----------------------------------------------------------------------------
(* One invocation: finalize what is COMPLETE, else recover, else plan *)

StartUnlocked(p) ==
  /\ pc[p] = "idle"
  /\ pc' = [pc EXCEPT ![p] = "pending"]
  /\ UNCHANGED <<durable, world, locals, lock, crashes>>

Start(p) ==
  /\ pc[p] = "idle"
  /\ p \in Timer => lock = NoProc
  /\ lock' = IF p \in Timer THEN p ELSE lock
  /\ pc' = [pc EXCEPT ![p] = "pending"]
  /\ UNCHANGED <<durable, world, locals, crashes>>

RecoverFirst(p) ==
  /\ pc[p] = "pending"
  /\ Goto(p, "recover")
  /\ UNCHANGED <<durable, world, locals>>

Pending(p) ==
  /\ pc[p] = "pending"
  /\ UNCHANGED <<durable, world>>
  /\ IF Cardinality(Unpromoted) > 1 THEN Exit(p)
     ELSE IF Unpromoted = {} THEN Goto(p, "recover") /\ UNCHANGED locals
     ELSE /\ \E d \in Unpromoted : dec' = [dec EXCEPT ![p] = d]
          /\ Goto(p, "promote") /\ UNCHANGED <<cand, prev>>

Recover(p) ==
  /\ pc[p] = "recover"
  /\ UNCHANGED <<durable, world, locals>>
  /\ Goto(p, IF Quiet THEN "member" ELSE "work")

-----------------------------------------------------------------------------
(* The workflow: guarded submissions, then a reconciled end *)

\* Outside the session, no --confirm-demo, stale quotes, nothing to do, an
\* exception: the cycle ends without an effect.
Refuse(p) ==
  /\ pc[p] \in {"work", "orders"}
  /\ Exit(p)
  /\ UNCHANGED <<durable, world>>

\* _default_submission_guard: the whole overlay snapshot must be the latest.
Submit(p) ==
  /\ pc[p] = "work"
  /\ \E d \in Unfinished :
       /\ flows[d].status = "ACTIVE" /\ flows[d].left > 0 /\ d.signal = signal
       /\ flows' = [flows EXCEPT ![d].left = @ - 1, ![d].sent = TRUE]
  /\ Exit(p)
  /\ UNCHANGED <<control, keys, candidate, world>>

Complete(p) ==
  /\ pc[p] = "work"
  /\ \E d \in Unfinished :
       /\ flows[d].status = "ACTIVE" /\ flows[d].left = 0
       /\ flows' = [flows EXCEPT ![d].status = "COMPLETE"]
       /\ done' = Target(d) /\ near' = {}
  /\ revision' = revision + 1
  /\ Exit(p)
  /\ UNCHANGED <<strategy, overlay, member, mstate, mix, keys, candidate>>
  /\ UNCHANGED <<signal, frozen>>

\* FAILED or RECONCILIATION_REQUIRED.
Stop(p) ==
  /\ pc[p] = "work"
  /\ \E d \in Unfinished :
       /\ flows[d].status = "ACTIVE" /\ flows[d].sent
       /\ flows' = [flows EXCEPT ![d].status = "STOPPED"]
  /\ revision' = revision + 1
  /\ Exit(p)
  /\ UNCHANGED <<strategy, overlay, member, mstate, mix, keys, candidate, world>>

-----------------------------------------------------------------------------
(* _prepare_membership *)

ReadMembership(p) ==
  /\ pc[p] = "member"
  /\ UNCHANGED <<durable, world, dec>>
  /\ IF \/ frozen.month < member.month
        \/ mstate = "ACTIVE" /\ frozen.month = member.month /\ frozen.set # member.set
        \/ mstate = "REBALANCE_PENDING" /\ candidate # frozen
       THEN Exit(p)
       ELSE /\ cand' = [cand EXCEPT ![p] = frozen]
            /\ prev' = [prev EXCEPT ![p] = member]
            /\ Goto(p, CASE mstate = "MONTH_END_PENDING" -> "classify"
                         [] mstate = "ACTIVE" /\ frozen.month > member.month -> "begin"
                         [] OTHER -> "plan")

BeginMonthEnd(p) ==
  /\ pc[p] = "begin"
  /\ UNCHANGED <<strategy, overlay, member, mix, candidate, flows, world>>
  /\ IF <<"begin", cand[p]>> \in keys
       THEN Goto(p, "classify") /\ UNCHANGED <<mstate, revision, keys, locals>>
     ELSE IF /\ mstate # "MONTH_END_PENDING"
             /\ Allowed(mstate, "MONTH_END_PENDING", MemberMoves, mix, member.set)
       THEN /\ mstate' = "MONTH_END_PENDING" /\ Record(<<"begin", cand[p]>>)
            /\ Goto(p, "classify") /\ UNCHANGED locals
     ELSE Exit(p) /\ UNCHANGED <<mstate, revision, keys>>

\* classify_month_end: the same set advances the month; a changed one waits.
ClassifyMonthEnd(p) ==
  /\ pc[p] = "classify"
  /\ UNCHANGED <<strategy, overlay, mix, flows, world>>
  /\ LET same == cand[p].set = member.set
         to == IF same THEN "ACTIVE" ELSE "REBALANCE_PENDING"
     IN IF <<"classify", cand[p]>> \in keys
          THEN /\ Goto(p, "settle")
               /\ UNCHANGED <<member, mstate, candidate, revision, keys, locals>>
        ELSE IF mstate # to /\ Allowed(mstate, to, MemberMoves, mix, member.set)
          THEN /\ mstate' = to /\ Record(<<"classify", cand[p]>>)
               /\ member' = IF same THEN cand[p] ELSE member
               /\ candidate' = IF same THEN candidate ELSE cand[p]
               /\ Goto(p, "settle") /\ UNCHANGED locals
        ELSE Exit(p) /\ UNCHANGED <<member, mstate, candidate, revision, keys>>

\* The state is read back: the membership before the plan and the desired one.
Settle(p) ==
  /\ pc[p] = "settle"
  /\ UNCHANGED <<durable, world, dec>>
  /\ CASE mstate = "ACTIVE" ->
            /\ cand' = [cand EXCEPT ![p] = member] /\ prev' = [prev EXCEPT ![p] = member]
            /\ Goto(p, "plan")
       [] mstate = "REBALANCE_PENDING" -> Goto(p, "plan") /\ UNCHANGED <<cand, prev>>
       [] OTHER -> Exit(p)

-----------------------------------------------------------------------------
(* _plan_new_work *)

\* The state and the signal are read; event_type.
Plan(p) ==
  /\ pc[p] = "plan"
  /\ UNCHANGED <<durable, world, cand, prev>>
  /\ IF prev[p].set = cand[p].set /\ overlay = signal.rung
       THEN /\ dec' = [dec EXCEPT ![p] =
                 [event |-> "HOLD", signal |-> signal, member |-> cand[p],
                  mix |-> mix, rebalance |-> FALSE]]
            /\ Goto(p, "promote")
       ELSE /\ \E q \in Quotes :
                 dec' = [dec EXCEPT ![p] =
                   [event |-> "TRADE", signal |-> signal, member |-> cand[p],
                    mix |-> cand[p].set, rebalance |-> prev[p].set # cand[p].set,
                    rev |-> revision, quotes |-> q]]
            /\ Goto(p, "orders")

\* make_orders on the snapshot: no order when the positions are in tolerance.
Orders(p) ==
  /\ pc[p] = "orders"
  /\ Goto(p, IF Target(dec[p]) \in {done} \cup near THEN "promote" ELSE "create")
  /\ UNCHANGED <<durable, world, locals>>

\* create_workflow: the same decision replays, another needs an idle machine.
Create(p) ==
  /\ pc[p] = "create"
  /\ IF dec[p] \notin DOMAIN flows /\ Quiet
       THEN /\ \E n \in Batches :
                 flows' = [d \in DOMAIN flows \cup {dec[p]} |->
                   IF d = dec[p] THEN [status |-> "ACTIVE", left |-> n, sent |-> FALSE]
                   ELSE flows[d]]
            /\ revision' = revision + 1
       ELSE UNCHANGED <<flows, revision>>
  /\ Exit(p)
  /\ UNCHANGED <<strategy, overlay, member, mstate, mix, keys, candidate, world>>

-----------------------------------------------------------------------------
(* _apply_control_target *)

\* The next transition of the decision that is not recorded yet: the strategy,
\* then the membership.  A step may refuse, and the invocation ends.
Promote(p) ==
  /\ pc[p] = "promote"
  /\ UNCHANGED <<candidate, flows, world>>
  /\ LET d == dec[p]
         more == d.rebalance /\ <<"member", d>> \notin keys
     IN IF <<"strategy", d>> \notin keys
          THEN IF Allowed(strategy, d.signal.mode, StrategyMoves, d.mix, member.set)
                 THEN /\ strategy' = d.signal.mode /\ overlay' = d.signal.rung
                      /\ mix' = d.mix /\ Record(<<"strategy", d>>)
                      /\ IF more THEN Goto(p, "promote") /\ UNCHANGED locals
                         ELSE Exit(p)
                      /\ UNCHANGED <<member, mstate>>
                 ELSE Exit(p) /\ UNCHANGED <<control, keys>>
        ELSE /\ Exit(p)
             /\ UNCHANGED <<strategy, overlay>>
             /\ IF /\ more /\ mstate # "ACTIVE"
                   /\ Allowed(mstate, "ACTIVE", MemberMoves, d.member.set, d.member.set)
                  THEN /\ member' = d.member /\ mstate' = "ACTIVE"
                       /\ mix' = d.member.set /\ Record(<<"member", d>>)
                  ELSE UNCHANGED <<member, mstate, mix, revision, keys>>

-----------------------------------------------------------------------------
(* The world *)

\* RobustState.observe_close on the next IVV close.
NextClose ==
  /\ signal.day < LastDay
  /\ \E m \in {"NORMAL", "CRASH", "POST_HANDOFF"}, r \in Rung :
       /\ <<signal.mode, m>> \in StrategyMoves \/ m = signal.mode
       /\ (m = "CRASH") <=> (r > 0)
       /\ m = "CRASH" => r >= signal.rung
       /\ signal' = [day |-> signal.day + 1, mode |-> m, rung |-> r]
  /\ UNCHANGED <<frozen, done, near, durable, pc, locals, lock, crashes>>

\* A later month is frozen.
Freeze ==
  /\ \E m \in Member : m.month > frozen.month /\ frozen' = m
  /\ UNCHANGED <<signal, done, near, durable, pc, locals, lock, crashes>>

\* Prices move the positions into the tolerance of another target.
Drift ==
  /\ near = {}
  /\ \E t \in [rung: Rung, set: Top2] \ {done} : near' = {t}
  /\ UNCHANGED <<signal, frozen, done, durable, pc, locals, lock, crashes>>

Crash(p) ==
  /\ pc[p] # "idle" /\ crashes < CrashBudget
  /\ crashes' = crashes + 1
  /\ pc' = [pc EXCEPT ![p] = "idle"]
  /\ cand' = [cand EXCEPT ![p] = NoMember] /\ prev' = [prev EXCEPT ![p] = NoMember]
  /\ dec' = [dec EXCEPT ![p] = NoDecision]
  /\ lock' = IF lock = p THEN NoProc ELSE lock
  /\ UNCHANGED <<durable, world>>

-----------------------------------------------------------------------------

Prepare(p) ==
  ReadMembership(p) \/ BeginMonthEnd(p) \/ ClassifyMonthEnd(p) \/ Settle(p)
Decide(p) == Plan(p) \/ Orders(p) \/ Create(p)
Cycle(p) ==
  \/ Start(p) \/ Pending(p) \/ Recover(p)
  \/ Submit(p) \/ Complete(p) \/ Stop(p)
  \/ Prepare(p) \/ Decide(p) \/ Promote(p)

Next ==
  \/ \E p \in Proc : Cycle(p) \/ Refuse(p) \/ Crash(p)
  \/ NextClose \/ Freeze \/ Drift

Spec == Init /\ [][Next]_vars

-----------------------------------------------------------------------------
(* Properties *)

Decision ==
  [event: {"HOLD"}, signal: Signal, member: Member, mix: Top2, rebalance: {FALSE}]
  \cup [event: {"TRADE"}, signal: Signal, member: Member, mix: Top2,
        rebalance: BOOLEAN, rev: Nat, quotes: Quotes]
Key == ({"begin", "classify"} \X Member) \cup ({"strategy", "member"} \X Decision)
Holding == [rung: Rung, set: Top2]

\* Every variable keeps its type; the strategy state agrees with its overlay
\* (state/v04_store.py validate_machine_state).
TypeOK ==
  /\ strategy \in {"NORMAL", "CRASH", "POST_HANDOFF"} /\ overlay \in Rung
  /\ (strategy = "CRASH") <=> (overlay > 0)
  /\ member \in Member /\ mix = member.set /\ revision \in Nat
  /\ mstate \in {"ACTIVE", "MONTH_END_PENDING", "REBALANCE_PENDING"}
  /\ keys \subseteq Key /\ candidate \in Member \cup {NoMember}
  /\ DOMAIN flows \subseteq Decision
  /\ \A d \in DOMAIN flows :
       flows[d] \in [status: {"ACTIVE", "COMPLETE", "STOPPED"},
                    left: Nat, sent: BOOLEAN]
  /\ signal \in Signal /\ frozen \in Member
  /\ done \in Holding /\ near \subseteq Holding
  /\ pc \in [Proc -> {"idle", "pending", "recover", "work", "member", "begin",
                     "classify", "settle", "plan", "orders", "create", "promote"}]
  /\ cand \in [Proc -> Member \cup {NoMember}]
  /\ prev \in [Proc -> Member \cup {NoMember}]
  /\ dec \in [Proc -> Decision \cup {NoDecision}]
  /\ lock \in Proc \cup {NoProc} /\ crashes \in 0..CrashBudget

\* "Strategy/membership truth" never moves ahead of broker truth, nor stays
\* behind it (M4): with no execution under way and nothing left to promote,
\* the durable overlay and membership are what the positions implement.
ControlMatchesHoldings ==
  Quiet /\ Unpromoted = {} =>
    [rung |-> overlay, set |-> member.set] \in {done} \cup near

\* _pending_complete_workflow raises on two COMPLETE workflows that both await
\* their promotion: nothing would ever be promoted again.  It never happens.
OneUnpromoted == Cardinality(Unpromoted) <= 1

\* A workflow is created from the machine state it was planned on: its stored
\* source_state_revision, which the code never compares, is still current.
PlansAreFresh ==
  [][\A d \in DOMAIN flows' \ DOMAIN flows : d.rev = revision]_vars
=============================================================================
