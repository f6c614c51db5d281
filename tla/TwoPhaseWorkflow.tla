-------------------------- MODULE TwoPhaseWorkflow --------------------------
(***************************************************************************)
(* One two-phase rebalance (SELL, reconcile, BUY) run against the broker   *)
(* by any number of concurrent `sp1exec cycle` processes over one SQLite   *)
(* database: execution/workflow_v04.py, execution/broker_executor_v04.py,  *)
(* execution/recovery_v04.py and the fill ledger of state/capital_v04.py.  *)
(*                                                                         *)
(* An action is one SQLite transaction, one broker call or one lock call.  *)
(* Between two of them any other process may run and the process may die.  *)
(***************************************************************************)
EXTENDS Integers, FiniteSets, FiniteSetsExt

CONSTANTS
  Proc,         \* the cycle processes
  SellLeg,      \* leg indexes a plan may use for SELL legs
  BuyLeg,       \* leg indexes a replan may use for BUY legs
  Qty,          \* fills (of one unit each) that complete an order
  Estimate,     \* planned EUR notional of one unit
  Price,        \* wallet impacts one unit may really have
  OpeningCash,  \* strategy_cash_eur before the workflow
  HistoryLag,   \* TRUE: the history page may lag behind the broker's books
  CrashBudget,  \* bound on the process deaths of a behaviour
  NoProc, NoLeg \* nobody holds the lock, no current leg

Leg == SellLeg \cup BuyLeg

ASSUME ConstantsAssumption ==
  /\ SellLeg \subseteq Nat /\ BuyLeg \subseteq Nat
  /\ \A s \in SellLeg, b \in BuyLeg : s < b
  /\ Qty \in Nat \ {0} /\ Estimate \in Nat /\ Price \subseteq Nat
  /\ OpeningCash \in Int /\ HistoryLag \in BOOLEAN /\ CrashBudget \in Nat
  /\ NoProc \notin Proc /\ NoLeg \notin Leg

VARIABLES
  \* SQLite: execution_workflows, execution_legs, machine_state, capital_ledger
  status, phase,  \* the workflow row ("ABSENT" before it is inserted)
  leg,            \* status of each leg ("ABSENT" before it is inserted)
  exec,           \* machine_state.execution_state
  keys,           \* event keys of the EXECUTION rows in state_transitions
  cash,           \* machine_state.strategy_cash_eur
  ledger,         \* fills <<leg, n>> with a row in capital_ledger
  \* the broker and the market
  posts,          \* orders the broker accepted for a leg
  order,          \* the leg's order: NONE, OPEN, FILLED or DEAD
  filled,         \* its filled units
  price,          \* wallet impact of one of its units
  hist,           \* what the history pages show of it
  stale,          \* the decision's IVV signal is no longer the latest close
  \* the processes
  pc, cand, cur,  \* control point; legs still to submit; leg being submitted
  seen,           \* what a reconciliation has read so far
  lock,           \* holder of the submission flock
  crashes

workflow == <<status, phase, leg, exec, keys>>
capital == <<cash, ledger>>
broker == <<posts, order, filled, price, hist, stale>>
procs == <<pc, cand, cur, seen, lock, crashes>>
vars == <<workflow, capital, broker, procs>>

-----------------------------------------------------------------------------
(* States *)

LegStatus == {"ABSENT", "PLANNED", "INTENT_RECORDED", "BROKER_ACCEPTED",
              "PENDING", "PARTIAL", "FILLED", "FAILED", "UNKNOWN"}
WorkflowStatus == {"ABSENT", "ACTIVE", "RECONCILIATION_REQUIRED", "FAILED",
                   "COMPLETE"}
ExecutionState == {"IDLE", "PLAN_CREATED", "SELL_PENDING", "BUY_PENDING",
                   "RECONCILING", "PARTIAL_FILL", "RECONCILIATION_REQUIRED",
                   "FAILED"}
Terminal == {"RECONCILIATION_REQUIRED", "FAILED", "COMPLETE"}

\* Statuses written only together with, or after, a durable broker order ID
\* that a later reconciliation accepts.
Reconcilable == {"BROKER_ACCEPTED", "PENDING", "PARTIAL", "FILLED"}
InFlight == {"BROKER_ACCEPTED", "PENDING", "PARTIAL"}

Blank == [phase |-> "NONE", sub |-> {}, pending |-> {}, verdict |-> "none",
          state |-> [l \in Leg |-> "NONE"], fills |-> [l \in Leg |-> 0]]

\* Legs of a side that have a row, and those of them in status S.
Rows(side) == {l \in side : leg[l] # "ABSENT"}
InStatus(side, S) == {l \in Rows(side) : leg[l] \in S}
PhaseSide == IF phase = "SELL" THEN SellLeg ELSE BuyLeg
PhasePending == IF phase = "SELL" THEN "SELL_PENDING" ELSE "BUY_PENDING"
First(S) == {l \in S : \A m \in S : l <= m}

\* A durable intent whose order ID was never recorded.
Ambiguous(side) == InStatus(side, {"INTENT_RECORDED"}) # {}

InDebt == cash < 0

Init ==
  /\ status = "ABSENT" /\ phase = "NONE" /\ leg = [l \in Leg |-> "ABSENT"]
  /\ exec = "IDLE" /\ keys = {} /\ cash = OpeningCash /\ ledger = {}
  /\ posts = [l \in Leg |-> 0] /\ order = [l \in Leg |-> "NONE"]
  /\ filled = [l \in Leg |-> 0] /\ price = [l \in Leg |-> 0]
  /\ hist = [l \in Leg |-> [st |-> "NONE", n |-> 0]] /\ stale = FALSE
  /\ pc = [p \in Proc |-> "idle"] /\ cand = [p \in Proc |-> {}]
  /\ cur = [p \in Proc |-> NoLeg] /\ seen = [p \in Proc |-> Blank]
  /\ lock = NoProc /\ crashes = 0

-----------------------------------------------------------------------------
(* Helpers that several handlers call *)

\* An execution-state write is recorded once per event key: a key that
\* already has a row returns before the state is written, whatever it is now.
SetExec(key, to) ==
  /\ exec' = IF key \in keys THEN exec ELSE to
  /\ keys' = IF exec = to THEN keys ELSE keys \cup {key}

\* The invocation ends, normally or by an exception; the flock goes with it.
Exit(p) ==
  /\ pc' = [pc EXCEPT ![p] = "idle"]
  /\ cand' = [cand EXCEPT ![p] = {}]
  /\ cur' = [cur EXCEPT ![p] = NoLeg]
  /\ seen' = [seen EXCEPT ![p] = Blank]
  /\ lock' = IF lock = p THEN NoProc ELSE lock
  /\ UNCHANGED crashes

Goto(p, label) ==
  /\ pc' = [pc EXCEPT ![p] = label]
  /\ UNCHANGED <<cand, cur, seen, lock, crashes>>

ExitWithoutEffect(p) == Exit(p) /\ UNCHANGED <<workflow, capital, broker>>

\* require_reconciliation_for_ambiguous_intent
RequireReconciliation ==
  IF status = "ACTIVE" /\ Ambiguous(Leg)
    THEN /\ status' = "RECONCILIATION_REQUIRED"
         /\ SetExec("ambiguous-intent", "RECONCILIATION_REQUIRED")
         /\ UNCHANGED <<phase, leg, capital, broker>>
    ELSE UNCHANGED <<workflow, capital, broker>>

-----------------------------------------------------------------------------
(* Recovery: what the next cycle does is decided from the database alone *)

\* classify_recovery raises RecoveryInvariantError in these states.
RecoveryError ==
  \/ status \in {"ABSENT", "COMPLETE"} /\ exec # "IDLE"
  \/ status = "FAILED" /\ exec # "FAILED"
  \/ status # "FAILED"
       /\ ~(status = "RECONCILIATION_REQUIRED"
              <=> exec = "RECONCILIATION_REQUIRED")
  \/ /\ status = "ACTIVE" /\ phase = "NONE"
     /\ exec # "PLAN_CREATED" \/ Rows(BuyLeg) # {}
  \/ /\ status = "ACTIVE" /\ phase = "RECONCILE"
     /\ \/ exec # "RECONCILING"
        \/ Rows(SellLeg) # InStatus(SellLeg, {"FILLED"})
        \/ Rows(BuyLeg) # {}
  \/ /\ status = "ACTIVE" /\ phase \in {"SELL", "BUY"}
     /\ \/ Rows(PhaseSide) = {}
        \/ /\ ~Ambiguous(PhaseSide)
           /\ \/ InStatus(PhaseSide, {"UNKNOWN", "FAILED"}) # {}
              \/ exec \notin {PhasePending, "PARTIAL_FILL"}
              \/ Rows(PhaseSide) = InStatus(PhaseSide, {"FILLED"})
              \/ /\ phase = "BUY" /\ InDebt
                 /\ InStatus(BuyLeg, InFlight) = {}
                 /\ InStatus(BuyLeg, {"PLANNED"}) # {}

RecoveryAction ==
  CASE status = "ABSENT" -> "plan"
    [] status \in Terminal -> "idle"
    [] phase = "NONE" -> "start"
    [] phase = "RECONCILE" -> "replan"
    [] Ambiguous(PhaseSide) -> "ambiguous"
    [] phase = "SELL" /\ InStatus(SellLeg, {"PLANNED"}) # {} -> "submit"
    [] InStatus(PhaseSide, InFlight) # {} -> "reconcile"
    [] OTHER -> "submit"

\* run_cycle: a new invocation classifies the durable state.
Classify(p) ==
  /\ pc[p] = "idle"
  /\ Goto(p, IF RecoveryError THEN "idle" ELSE RecoveryAction)
  /\ UNCHANGED <<workflow, capital, broker>>

\* Classification itself fails closed on an ambiguous intent.
PersistAmbiguous(p) ==
  /\ pc[p] = "ambiguous"
  /\ RequireReconciliation
  /\ Exit(p)

-----------------------------------------------------------------------------
(* Planning: the workflow and its SELL legs, then the first phase *)

\* No work, session closed, stale signal or quotes, no --confirm-demo, less cash
\* at the broker than the next BUY, a foreign pending order, a replan that still
\* wants a SELL or BUYs that do not fit the cash.
Refuse(p) ==
  /\ pc[p] \in {"plan", "submit", "replan"}
  /\ ExitWithoutEffect(p)

CreateWorkflow(p) ==
  /\ pc[p] = "plan"
  /\ IF status # "ABSENT" \/ exec # "IDLE"
       THEN \/ ExitWithoutEffect(p)             \* another decision: raise
            \/ /\ status # "ABSENT"             \* the same decision: replay
               /\ Goto(p, "start")
               /\ UNCHANGED <<workflow, capital, broker>>
       ELSE /\ \E S \in SUBSET SellLeg :
                 leg' = [l \in Leg |-> IF l \in S THEN "PLANNED" ELSE leg[l]]
            /\ status' = "ACTIVE" /\ phase' = "NONE"
            /\ SetExec("created", "PLAN_CREATED")
            /\ Goto(p, "start")
            /\ UNCHANGED <<capital, broker>>

StartWorkflow(p) ==
  /\ pc[p] = "start"
  /\ Exit(p)
  /\ UNCHANGED <<status, leg, capital, broker>>
  /\ IF status = "ACTIVE" /\ phase = "NONE" /\ exec = "PLAN_CREATED"
       THEN IF Rows(SellLeg) # {}
              THEN phase' = "SELL" /\ SetExec("start", "SELL_PENDING")
              ELSE phase' = "RECONCILE" /\ SetExec("start", "RECONCILING")
       ELSE UNCHANGED <<phase, exec, keys>>

\* replan_and_install_buys: any plan whose estimates fit the durable cash,
\* or none; legs get the next free indexes.
InstallBuys(p) ==
  /\ pc[p] = "replan"
  /\ Exit(p)
  /\ UNCHANGED <<capital, broker>>
  /\ LET allowed == /\ status = "ACTIVE" /\ phase = "RECONCILE"
                    /\ exec = "RECONCILING" /\ Rows(BuyLeg) = {}
                    /\ Rows(SellLeg) = InStatus(SellLeg, {"FILLED"})
     IN \/ /\ ~allowed
           /\ UNCHANGED workflow
        \/ /\ allowed
           /\ status' = "COMPLETE" /\ UNCHANGED <<phase, leg>>
           /\ SetExec("no-buy-complete", "IDLE")
        \/ /\ allowed /\ ~InDebt
           /\ \E B \in (SUBSET BuyLeg) \ {{}} :
                /\ \A b \in B, c \in BuyLeg \ B : b < c
                /\ Cardinality(B) * Qty * Estimate <= cash
                /\ leg' = [l \in Leg |-> IF l \in B THEN "PLANNED" ELSE leg[l]]
           /\ phase' = "BUY" /\ UNCHANGED status
           /\ SetExec("buy-installed", "BUY_PENDING")

-----------------------------------------------------------------------------
(* Submission, under a non-blocking flock on the database's lock file *)

\* Mutant: the submission lock file is opened but not locked.
AcquireNothing(p) ==
  /\ pc[p] = "submit"
  /\ Goto(p, "locked")
  /\ UNCHANGED <<workflow, capital, broker>>

\* _default_submission_guard, then the flock.
AcquireLock(p) ==
  /\ pc[p] = "submit"
  /\ IF ~stale /\ lock = NoProc
       THEN /\ lock' = p /\ pc' = [pc EXCEPT ![p] = "locked"]
            /\ UNCHANGED <<cand, cur, seen, crashes, workflow, capital, broker>>
       ELSE ExitWithoutEffect(p)

\* An order of this workflow whose ID is not durable is not ours to ignore.
UnownedPending ==
  \E l \in Leg : /\ order[l] = "OPEN"
                 /\ leg[l] \in {"ABSENT", "PLANNED", "INTENT_RECORDED"}

\* Mutant: the next BUY is not checked against the cash left by the last one.
CandidatesWithoutCash ==
  LET planned == InStatus(PhaseSide, {"PLANNED"})
  IN IF phase = "SELL" THEN planned
     ELSE IF InStatus(BuyLeg, InFlight \cup {"UNKNOWN", "FAILED"}) # {} \/ InDebt
            THEN {}
            ELSE First(planned)

\* Mutant: a BUY that needs exactly the remaining cash is held back.
CandidatesBelowCash ==
  LET planned == InStatus(PhaseSide, {"PLANNED"})
  IN IF phase = "SELL" THEN planned
     ELSE IF \/ InStatus(BuyLeg, InFlight \cup {"UNKNOWN", "FAILED"}) # {}
             \/ InDebt
             \/ Qty * Estimate >= cash
            THEN {}
            ELSE First(planned)

\* Mutant: a submitter does not look again whether a BUY is in flight.
CandidatesWhileBuying ==
  LET planned == InStatus(PhaseSide, {"PLANNED"})
  IN IF phase = "SELL" THEN planned
     ELSE IF \/ InStatus(BuyLeg, {"UNKNOWN", "FAILED"}) # {}
             \/ InDebt
             \/ Qty * Estimate > cash
            THEN {}
            ELSE First(planned)

\* SELL legs go out as a batch; BUY legs one at a time, against durable cash.
Candidates ==
  LET planned == InStatus(PhaseSide, {"PLANNED"})
  IN IF phase = "SELL" THEN planned
     ELSE IF \/ InStatus(BuyLeg, InFlight \cup {"UNKNOWN", "FAILED"}) # {}
             \/ InDebt
             \/ Qty * Estimate > cash
            THEN {}
            ELSE First(planned)

\* Mutant: submission does not look for an intent without an order ID.
ReadPastIntents(p) ==
  /\ pc[p] = "locked"
  /\ IF status # "ACTIVE" \/ phase \notin {"SELL", "BUY"}
          \/ UnownedPending \/ Candidates = {}
       THEN ExitWithoutEffect(p)
       ELSE /\ pc' = [pc EXCEPT ![p] = "intent"]
            /\ cand' = [cand EXCEPT ![p] = Candidates]
            /\ UNCHANGED <<cur, seen, lock, crashes, workflow, capital, broker>>

ReadSubmission(p) ==
  /\ pc[p] = "locked"
  /\ IF status # "ACTIVE" \/ phase \notin {"SELL", "BUY"}
       THEN ExitWithoutEffect(p)
       ELSE IF Ambiguous(PhaseSide)
       THEN Goto(p, "unsure") /\ UNCHANGED <<workflow, capital, broker>>
       ELSE IF UnownedPending \/ Candidates = {}
       THEN ExitWithoutEffect(p)
       ELSE /\ pc' = [pc EXCEPT ![p] = "intent"]
            /\ cand' = [cand EXCEPT ![p] = Candidates]
            /\ UNCHANGED <<cur, seen, lock, crashes, workflow, capital, broker>>

\* record_leg_intent: checks the phase and the leg, not the workflow status.
RecordIntent(p) ==
  /\ pc[p] = "intent"
  /\ \E l \in First(cand[p]) :
       IF /\ leg[l] \in {"PLANNED", "INTENT_RECORDED"}
          /\ phase = (IF l \in SellLeg THEN "SELL" ELSE "BUY")
         THEN /\ leg' = [leg EXCEPT ![l] = "INTENT_RECORDED"]
              /\ cur' = [cur EXCEPT ![p] = l]
              /\ pc' = [pc EXCEPT ![p] = "post"]
              /\ UNCHANGED <<status, phase, exec, keys, cand, seen, lock, crashes>>
         ELSE UNCHANGED workflow /\ Exit(p)
  /\ UNCHANGED <<capital, broker>>

\* The broker creates the order, at a price the plan only estimated.
NewOrder(l) ==
  /\ posts' = [posts EXCEPT ![l] = @ + 1]
  /\ order' = [order EXCEPT ![l] = "OPEN"]
  /\ filled' = [filled EXCEPT ![l] = 0]
  /\ \E x \in Price : price' = [price EXCEPT ![l] = x]
  /\ hist' = [hist EXCEPT ![l] = [st |-> "NONE", n |-> 0]]
  /\ UNCHANGED stale

\* market_order_demo_only returns an order ID ...
PostAccepted(p) ==
  /\ pc[p] = "post"
  /\ NewOrder(cur[p])
  /\ Goto(p, "accept")
  /\ UNCHANGED <<workflow, capital>>

\* ... or the order exists but the reply is an exception or has no ID ...
PostReplyLost(p) ==
  /\ pc[p] = "post"
  /\ NewOrder(cur[p])
  /\ Goto(p, "unsure")
  /\ UNCHANGED <<workflow, capital>>

\* ... or the request never became an order.
PostRefused(p) ==
  /\ pc[p] = "post"
  /\ Goto(p, "unsure")
  /\ UNCHANGED <<workflow, capital, broker>>

\* Mutant: the batch goes on after a POST of unknown outcome.
PostFailedGoesOn(p) ==
  /\ pc[p] = "unsure"
  /\ RequireReconciliation
  /\ IF cand[p] \ {cur[p]} = {} THEN Exit(p)
     ELSE /\ pc' = [pc EXCEPT ![p] = "intent"]
          /\ cand' = [cand EXCEPT ![p] = @ \ {cur[p]}]
          /\ cur' = [cur EXCEPT ![p] = NoLeg]
          /\ UNCHANGED <<seen, lock, crashes>>

PostFailed(p) ==
  /\ pc[p] = "unsure"
  /\ RequireReconciliation
  /\ Exit(p)

RecordAcceptance(p) ==
  /\ pc[p] = "accept"
  /\ leg' = [leg EXCEPT ![cur[p]] =
               IF @ = "INTENT_RECORDED" THEN "BROKER_ACCEPTED" ELSE @]
  /\ UNCHANGED <<status, phase, exec, keys, capital, broker>>
  /\ IF cand[p] = {cur[p]} \/ leg[cur[p]] \notin Reconcilable \cup {"INTENT_RECORDED"}
       THEN Exit(p)
       ELSE /\ cand' = [cand EXCEPT ![p] = @ \ {cur[p]}]
            /\ cur' = [cur EXCEPT ![p] = NoLeg]
            /\ pc' = [pc EXCEPT ![p] = "intent"]
            /\ UNCHANGED <<seen, lock, crashes>>

-----------------------------------------------------------------------------
(* Reconciliation: pending orders, then history, then fills, then statuses *)

\* _accepted_attempts, then the pending-orders read.
BeginReconcile(p) ==
  /\ pc[p] = "reconcile"
  /\ LET sub == Rows(PhaseSide) \ InStatus(PhaseSide, {"PLANNED"})
     IN IF \/ status # "ACTIVE" \/ phase \notin {"SELL", "BUY"}
           \/ Ambiguous(PhaseSide) \/ sub = {}
           \/ phase = "SELL" /\ sub # Rows(SellLeg)
          THEN Exit(p)
          ELSE /\ seen' = [seen EXCEPT ![p] =
                    [Blank EXCEPT !.phase = phase, !.sub = sub,
                                  !.pending = {l \in sub : order[l] = "OPEN"}]]
               /\ pc' = [pc EXCEPT ![p] = "history"]
               /\ UNCHANGED <<cand, cur, lock, crashes>>
  /\ UNCHANGED <<workflow, capital, broker>>

\* Mutants: an order that has left the pending list without a history record
\* is taken as filled; the pending list is not consulted; a rejected order
\* keeps the broker's own status word.
CanonicalGoneIsFilled(h, isPending) ==
  CASE h.st = "FILLED" -> "FILLED"
    [] h.st # "FILLED" /\ h.n > 0 -> "PARTIAL"
    [] h.st = "DEAD" /\ h.n = 0 -> "FAILED"
    [] OTHER -> IF isPending \/ h.st = "OPEN" THEN "PENDING" ELSE "FILLED"
CanonicalHistoryOnly(h, isPending) ==
  CASE h.st = "FILLED" -> "FILLED"
    [] h.st # "FILLED" /\ h.n > 0 -> "PARTIAL"
    [] h.st = "DEAD" /\ h.n = 0 -> "FAILED"
    [] OTHER -> IF h.st = "OPEN" THEN "PENDING" ELSE "UNKNOWN"
CanonicalRawStatus(h, isPending) ==
  CASE h.st = "FILLED" -> "FILLED"
    [] h.st # "FILLED" /\ h.n > 0 -> "PARTIAL"
    [] h.st = "DEAD" /\ h.n = 0 -> "REJECTED"
    [] OTHER -> IF isPending \/ h.st = "OPEN" THEN "PENDING" ELSE "UNKNOWN"

\* canonical_state of a history record, with the pending orders and then
\* UNKNOWN as the fallbacks of reconcile_accepted_attempts.
Canonical(h, isPending) ==
  CASE h.st = "FILLED" -> "FILLED"
    [] h.st # "FILLED" /\ h.n > 0 -> "PARTIAL"
    [] h.st = "DEAD" /\ h.n = 0 -> "FAILED"
    [] h.st = "OPEN" /\ h.n = 0 -> "PENDING"
    [] OTHER -> IF isPending THEN "PENDING" ELSE "UNKNOWN"

ReadHistory(p) ==
  /\ pc[p] = "history"
  /\ seen' = [seen EXCEPT
       ![p].state = [l \in Leg |-> IF l \in seen[p].sub
                       THEN Canonical(hist[l], l \in seen[p].pending)
                       ELSE "NONE"],
       ![p].fills = [l \in Leg |-> IF l \in seen[p].sub THEN hist[l].n ELSE 0]]
  /\ pc' = [pc EXCEPT ![p] = "apply"]
  /\ UNCHANGED <<cand, cur, lock, crashes, workflow, capital, broker>>

\* Mutant: the last listed fill of an order is not booked.
UnappliedButLast(p) ==
  {f \in Leg \X (1..Qty) : f[2] < seen[p].fills[f[1]] /\ f \notin ledger}

Unapplied(p) ==
  {f \in Leg \X (1..Qty) : f[2] <= seen[p].fills[f[1]] /\ f \notin ledger}

\* The signed wallet impact of one fill.
CashDelta(l) == IF l \in SellLeg THEN price[l] ELSE -price[l]

\* apply_fill_event: ledger row and cash in one transaction, once per fill.
ApplyFill(p) ==
  /\ pc[p] = "apply"
  /\ \E f \in Unapplied(p) :
       /\ ledger' = ledger \cup {f}
       /\ cash' = cash + CashDelta(f[1])
  /\ UNCHANGED <<workflow, broker, procs>>

\* Broker positions: source - every SELL leg + the BUY legs seen FILLED.
PositionsMatch(p) ==
  \A l \in Leg :
    filled[l] = IF \/ l \in Rows(SellLeg)
                   \/ /\ l \in Rows(BuyLeg) /\ seen[p].phase = "BUY"
                      /\ "FILLED" = IF l \in seen[p].sub
                                      THEN seen[p].state[l] ELSE leg[l]
                  THEN Qty ELSE 0

\* Mutant: no cash-boundary check after the real fills of a BUY.
VerdictWithoutBreach(p) ==
  LET states == {seen[p].state[l] : l \in seen[p].sub}
  IN CASE "UNKNOWN" \in states -> "unknown"
       [] "UNKNOWN" \notin states /\ "FAILED" \in states -> "failed"
       [] states \cap {"UNKNOWN", "FAILED"} = {} /\ "PARTIAL" \in states -> "partial"
       [] states = {"FILLED"} ->
            IF seen[p].phase = "SELL" THEN "filled"
            ELSE IF InStatus(BuyLeg, {"PLANNED"}) \ seen[p].sub # {} THEN "next"
            ELSE "done"
       [] OTHER -> "pending"

Verdict(p) ==
  LET states == {seen[p].state[l] : l \in seen[p].sub}
  IN CASE "UNKNOWN" \in states -> "unknown"
       [] "UNKNOWN" \notin states /\ "FAILED" \in states -> "failed"
       [] states \cap {"UNKNOWN", "FAILED"} = {} /\ "PARTIAL" \in states -> "partial"
       [] states = {"FILLED"} ->
            IF seen[p].phase = "SELL" THEN "filled"
            ELSE IF InDebt THEN "breach"
            ELSE IF InStatus(BuyLeg, {"PLANNED"}) \ seen[p].sub # {} THEN "next"
            ELSE "done"
       [] OTHER -> "pending"

\* Every listed fill is in the ledger before a status moves; a position
\* mismatch on an all-FILLED phase raises with no status changed.
Judge(p) ==
  /\ pc[p] = "apply" /\ Unapplied(p) = {}
  /\ IF Verdict(p) \in {"filled", "breach", "next", "done"} /\ ~PositionsMatch(p)
       THEN Exit(p)
       ELSE /\ seen' = [seen EXCEPT ![p].verdict = Verdict(p)]
            /\ pc' = [pc EXCEPT ![p] = "mark"]
            /\ UNCHANGED <<cand, cur, lock, crashes>>
  /\ UNCHANGED <<workflow, capital, broker>>

Stop(key, to) == status' = to /\ SetExec(key, to) /\ UNCHANGED phase
Stay(key, to) == status' = "ACTIVE" /\ SetExec(key, to) /\ UNCHANGED phase

SeenStatuses(p) ==
  [l \in Leg |-> IF l \in seen[p].sub THEN seen[p].state[l] ELSE leg[l]]

\* Mutant: SELL legs that are all accepted count as filled.
MarkSellFilledOnceAccepted(p) ==
  /\ pc[p] = "mark" /\ seen[p].phase = "SELL"
  /\ Exit(p)
  /\ UNCHANGED <<capital, broker>>
  /\ IF status # "ACTIVE" \/ phase # "SELL" \/ seen[p].sub # Rows(SellLeg)
       THEN UNCHANGED workflow
       ELSE /\ leg' = [l \in Leg |-> IF l \in seen[p].sub THEN "FILLED" ELSE leg[l]]
            /\ phase' = "RECONCILE" /\ UNCHANGED status
            /\ SetExec("sell-reconciling", "RECONCILING")

\* mark_sell_reconciliation_result
MarkSell(p) ==
  /\ pc[p] = "mark" /\ seen[p].phase = "SELL"
  /\ Exit(p)
  /\ UNCHANGED <<capital, broker>>
  /\ IF \/ status # "ACTIVE" \/ phase # "SELL" \/ seen[p].sub # Rows(SellLeg)
        \/ Rows(SellLeg) # InStatus(SellLeg, Reconcilable)
       THEN UNCHANGED workflow
       ELSE /\ leg' = SeenStatuses(p)
            /\ CASE seen[p].verdict = "unknown" ->
                      Stop("sell-unknown", "RECONCILIATION_REQUIRED")
                 [] seen[p].verdict = "failed" -> Stop("sell-failed", "FAILED")
                 [] seen[p].verdict = "partial" ->
                      Stay("sell-partial_fill", "PARTIAL_FILL")
                 [] seen[p].verdict = "filled" ->
                      /\ phase' = "RECONCILE" /\ UNCHANGED status
                      /\ SetExec("sell-reconciling", "RECONCILING")
                 [] OTHER -> Stay("sell-sell_pending", "SELL_PENDING")

\* _persist_buy_progress: checks the phase, not the workflow status.  The key
\* of the last case carries the lowest submitted leg, always the first BUY.
PersistBuyProgress(p) ==
  /\ pc[p] = "mark" /\ seen[p].phase = "BUY" /\ seen[p].verdict # "done"
  /\ Exit(p)
  /\ UNCHANGED <<capital, broker>>
  /\ IF phase # "BUY"
       THEN UNCHANGED workflow
       ELSE /\ leg' = SeenStatuses(p)
            /\ CASE seen[p].verdict = "unknown" ->
                      Stop("m5b:buy-unknown", "RECONCILIATION_REQUIRED")
                 [] seen[p].verdict = "failed" -> Stop("m5b:buy-failed", "FAILED")
                 [] seen[p].verdict = "breach" ->
                      Stop("m5b:buy-cash-boundary-breach", "RECONCILIATION_REQUIRED")
                 [] seen[p].verdict = "partial" ->
                      Stay("m5b:buy-partial", "PARTIAL_FILL")
                 [] seen[p].verdict = "next" ->
                      Stay("m5b:buy-leg-first-filled", "BUY_PENDING")
                 [] OTHER -> Stay("m5b:buy-pending", "BUY_PENDING")

\* mark_buy_reconciliation_result with every BUY leg FILLED
MarkBuyComplete(p) ==
  /\ pc[p] = "mark" /\ seen[p].verdict = "done"
  /\ Exit(p)
  /\ UNCHANGED <<capital, broker>>
  /\ IF \/ status # "ACTIVE" \/ phase # "BUY"
        \/ Rows(BuyLeg) # InStatus(BuyLeg, Reconcilable)
       THEN UNCHANGED workflow
       ELSE /\ leg' = [l \in Leg |-> IF l \in Rows(BuyLeg) THEN "FILLED" ELSE leg[l]]
            /\ status' = "COMPLETE" /\ phase' = "RECONCILE"
            /\ SetExec("buy-reconcile-idle", "IDLE")

-----------------------------------------------------------------------------
(* The broker and process death *)

Publish(l, st, n) == hist' = [hist EXCEPT ![l] = [st |-> st, n |-> n]]

\* The order executes one more unit.
FillUnit(l) ==
  LET st == IF filled[l] + 1 = Qty THEN "FILLED" ELSE "OPEN"
  IN /\ order[l] = "OPEN"
     /\ filled' = [filled EXCEPT ![l] = @ + 1]
     /\ order' = [order EXCEPT ![l] = st]
     /\ IF HistoryLag THEN UNCHANGED hist ELSE Publish(l, st, filled[l] + 1)
     /\ UNCHANGED <<posts, price, stale, workflow, capital, procs>>

\* It is cancelled, rejected or expires with what it has filled.
Kill(l) ==
  /\ order[l] = "OPEN"
  /\ order' = [order EXCEPT ![l] = "DEAD"]
  /\ IF HistoryLag THEN UNCHANGED hist ELSE Publish(l, "DEAD", filled[l])
  /\ UNCHANGED <<posts, filled, price, stale, workflow, capital, procs>>

\* The history page catches up.
ShowHistory(l) ==
  /\ order[l] # "NONE" /\ hist[l] # [st |-> order[l], n |-> filled[l]]
  /\ Publish(l, order[l], filled[l])
  /\ UNCHANGED <<posts, order, filled, price, stale, workflow, capital, procs>>

\* A new completed IVV close: the overlay snapshot of the decision never equals
\* the latest one again.
NewClose ==
  /\ status # "ABSENT" /\ ~stale
  /\ stale' = TRUE
  /\ UNCHANGED <<posts, order, filled, price, hist, workflow, capital, procs>>

\* A process dies, or a read raises, anywhere; the kernel drops its flock.
Crash(p) ==
  /\ pc[p] # "idle" /\ crashes < CrashBudget
  /\ crashes' = crashes + 1
  /\ pc' = [pc EXCEPT ![p] = "idle"] /\ cand' = [cand EXCEPT ![p] = {}]
  /\ cur' = [cur EXCEPT ![p] = NoLeg] /\ seen' = [seen EXCEPT ![p] = Blank]
  /\ lock' = IF lock = p THEN NoProc ELSE lock
  /\ UNCHANGED <<workflow, capital, broker>>

-----------------------------------------------------------------------------

Submit(p) ==
  \/ AcquireLock(p) \/ ReadSubmission(p) \/ RecordIntent(p)
  \/ PostAccepted(p) \/ PostReplyLost(p) \/ PostRefused(p)
  \/ PostFailed(p) \/ RecordAcceptance(p)

Reconcile(p) ==
  \/ BeginReconcile(p) \/ ReadHistory(p) \/ ApplyFill(p) \/ Judge(p)
  \/ MarkSell(p) \/ PersistBuyProgress(p) \/ MarkBuyComplete(p)

Cycle(p) ==
  \/ Classify(p) \/ PersistAmbiguous(p)
  \/ CreateWorkflow(p) \/ StartWorkflow(p) \/ InstallBuys(p)
  \/ Submit(p) \/ Reconcile(p)

Trade(l) == FillUnit(l) \/ Kill(l)

Next ==
  \/ \E p \in Proc : Cycle(p) \/ Refuse(p) \/ Crash(p)
  \/ \E l \in Leg : Trade(l) \/ ShowHistory(l)
  \/ NewClose

Spec == Init /\ [][Next]_vars

-----------------------------------------------------------------------------
(* Correctness *)

EventKey == {"created", "start", "sell-unknown", "sell-failed",
             "sell-partial_fill", "sell-reconciling", "sell-sell_pending",
             "buy-installed", "no-buy-complete", "ambiguous-intent",
             "m5b:buy-unknown", "m5b:buy-failed", "m5b:buy-partial",
             "m5b:buy-cash-boundary-breach", "m5b:buy-leg-first-filled",
             "m5b:buy-pending", "buy-reconcile-idle"}
Label == {"idle", "plan", "start", "replan", "ambiguous", "submit", "locked",
          "intent", "post", "accept", "unsure", "reconcile", "history", "apply",
          "mark"}
SeenState == {"NONE", "PENDING", "PARTIAL", "FILLED", "FAILED", "UNKNOWN"}
SeenVerdict == {"none", "unknown", "failed", "partial", "filled", "breach",
                "next", "done", "pending"}
SeenType ==
  [phase: {"NONE", "SELL", "BUY"}, sub: SUBSET Leg, pending: SUBSET Leg,
   verdict: SeenVerdict, state: [Leg -> SeenState], fills: [Leg -> 0..Qty]]
OrderStatus == {"NONE", "OPEN", "FILLED", "DEAD"}

WorkflowType ==
  /\ status \in WorkflowStatus /\ phase \in {"NONE", "SELL", "RECONCILE", "BUY"}
  /\ leg \in [Leg -> LegStatus] /\ exec \in ExecutionState
  /\ keys \subseteq EventKey
CapitalType == cash \in Int /\ ledger \subseteq Leg \X (1..Qty)
BrokerType ==
  /\ posts \in [Leg -> Nat] /\ order \in [Leg -> OrderStatus]
  /\ filled \in [Leg -> 0..Qty] /\ price \in [Leg -> Nat]
  /\ hist \in [Leg -> [st: OrderStatus, n: 0..Qty]] /\ stale \in BOOLEAN
ProcsType ==
  /\ pc \in [Proc -> Label] /\ cand \in [Proc -> SUBSET Leg]
  /\ cur \in [Proc -> Leg \cup {NoLeg}] /\ seen \in [Proc -> SeenType]
  /\ lock \in Proc \cup {NoProc} /\ crashes \in 0..CrashBudget

\* Every variable keeps its type: the rows, the broker's books and the locals of
\* every process.
TypeOK == WorkflowType /\ CapitalType /\ BrokerType /\ ProcsType

\* No leg is ever sent to the broker twice, whichever processes run, die or
\* race: the submission lock and the durable intent together (M9A, M9B).
AtMostOneOrderPerLeg == \A l \in Leg : posts[l] <= 1

\* A BUY order exists only once every SELL of the plan has filled at the
\* broker (M5A: SELL legs always precede BUY legs).
SellsFillBeforeBuys ==
  (\E b \in BuyLeg : posts[b] > 0) =>
     \A s \in Rows(SellLeg) : order[s] = "FILLED"

\* An order goes out only when no earlier POST of unknown outcome is on record:
\* the intent of a dead or failed submitter is never stepped over (M6).
Orphaned(l) == leg[l] = "INTENT_RECORDED" /\ \A p \in Proc : cur[p] # l
NoPostPastAnOrphan == [][posts' # posts => \A l \in Leg : ~Orphaned(l)]_vars

\* Every database state a sequence of cycles and crashes leaves behind is one
\* that recovery classifies; none raises RecoveryInvariantError (M6).
RecoveryIsDefined == ~RecoveryError

\* An order whose ID is durable is classified UNKNOWN only when it is over and
\* the history pages lag behind the broker's books: pending orders are read
\* first, so an order that moves between the lists meanwhile is in one of them.
KnownOrdersStayKnown ==
  [][\A p \in Proc, l \in Leg :
       seen[p].state[l] # "UNKNOWN" /\ seen'[p].state[l] = "UNKNOWN" =>
         order[l] # "OPEN" /\ hist[l].st # order[l]]_vars

\* A completed workflow agrees with the broker and the ledger: every leg filled
\* in full, every fill booked once, and the strategy cash is the opening cash
\* plus the wallet impact of exactly those fills.
CompleteIsReconciled ==
  status = "COMPLETE" =>
    /\ \A l \in Rows(Leg) : order[l] = "FILLED"
    /\ ledger = Rows(Leg) \X (1..Qty)
    /\ cash = OpeningCash + MapThenSumSet(LAMBDA f : CashDelta(f[1]), ledger)

\* A workflow that has ended stays as it is: no later cycle sends one of its
\* orders, moves a leg or revives it, whatever the process was doing (M6).
StoppedStaysStopped ==
  [][(status \in Terminal) => UNCHANGED <<status, leg, posts>>]_vars

-----------------------------------------------------------------------------
(* The invariants that make the safety properties inductive *)

Submitting == {"locked", "intent", "post", "accept", "unsure"}
Unsent == {"ABSENT", "PLANNED"}

OpenIsUnfinished == \A l \in Leg : order[l] = "OPEN" => filled[l] < Qty
ReadBeforeJudged ==
  \A p \in Proc : pc[p] \in {"apply", "mark"} =>
    \A l \in seen[p].sub : seen[p].state[l] # "NONE"

LockExcludes == \A p \in Proc : pc[p] \in Submitting => lock = p
BatchIsPlanned ==
  \A p \in Proc : pc[p] \in {"intent", "post", "accept"} =>
    \A l \in cand[p] \ {cur[p]} : leg[l] = "PLANNED"
IntentPrecedesPost ==
  \A p \in Proc :
    /\ pc[p] \notin {"post", "accept", "unsure"} => cur[p] = NoLeg
    /\ pc[p] = "post" => cur[p] \in Leg /\ leg[cur[p]] = "INTENT_RECORDED"
                                        /\ posts[cur[p]] = 0
UnsentHasNoOrder == \A l \in Leg : leg[l] \in Unsent => posts[l] = 0
SeenWasAccepted ==
  \A p \in Proc : \A l \in seen[p].sub :
    leg[l] \notin Unsent \cup {"INTENT_RECORDED"}
AbsentIsEmpty == status = "ABSENT" => \A l \in Leg : leg[l] = "ABSENT"

\* The submission protocol: the flock, the durable intent and the leg statuses
\* together keep every planned leg unsent and every intent's owner alone.
SubmissionInv ==
  /\ AtMostOneOrderPerLeg /\ LockExcludes /\ BatchIsPlanned /\ IntentPrecedesPost
  /\ UnsentHasNoOrder /\ SeenWasAccepted /\ AbsentIsEmpty

FilledIsStable == \A l \in Leg : posts[l] = 0 => order[l] = "NONE"
FilledIsTrue ==
  /\ \A s \in SellLeg : leg[s] = "FILLED" => order[s] = "FILLED"
  /\ \A l \in Leg : hist[l].st = "FILLED" => order[l] = "FILLED"
  /\ \A p \in Proc : \A l \in Leg :
       seen[p].state[l] = "FILLED" => order[l] = "FILLED"
BuysFollowSells ==
  (\E b \in BuyLeg : leg[b] # "ABSENT") =>
    \A s \in Rows(SellLeg) : order[s] = "FILLED"

\* What FILLED means: written only on evidence that the broker has filled the
\* order, and read before any BUY leg is installed.
FillInv == FilledIsStable /\ FilledIsTrue /\ BuysFollowSells

\* Nothing executes without an order, and the history shows no more than that.
BrokerBooks ==
  \A l \in Leg :
    /\ posts[l] = 0 => filled[l] = 0 /\ hist[l].n = 0
    /\ posts[l] > 0 => order[l] # "NONE" /\ price[l] \in Price
    /\ order[l] = "FILLED" => filled[l] = Qty
    /\ hist[l].n <= filled[l] /\ (hist[l].st = "FILLED" => hist[l].n = Qty)

\* What a process has read was so, and is booked before it is judged.
ReadingIsTrue ==
  \A p \in Proc :
    /\ pc[p] = "mark" => Unapplied(p) = {}
    /\ \A l \in Leg :
         /\ seen[p].fills[l] <= filled[l]
         /\ seen[p].state[l] = "FILLED" => seen[p].fills[l] = Qty
    /\ pc[p] = "mark" /\ seen[p].verdict = "filled" =>
         \A l \in seen[p].sub : seen[p].state[l] = "FILLED"
    /\ pc[p] = "history" =>
         \A l \in seen[p].sub \ seen[p].pending : order[l] # "OPEN"

LedgerIsTrue == \A f \in ledger : f[2] <= filled[f[1]]

\* Filled at the broker, and every fill of it booked.
Settled(l) == order[l] = "FILLED" /\ \A n \in 1..Qty : <<l, n>> \in ledger

FilledIsBooked ==
  /\ \A s \in SellLeg : leg[s] = "FILLED" => Settled(s)
  /\ status # "COMPLETE" => \A b \in BuyLeg : leg[b] = "FILLED" => Settled(b)

\* The phase and the rows go together, and a reading is of one phase.
PhaseMatchesRows ==
  /\ phase \in {"NONE", "SELL"} => \A b \in BuyLeg : leg[b] = "ABSENT"
  /\ phase \in {"RECONCILE", "BUY"} => \A s \in Rows(SellLeg) : leg[s] = "FILLED"
  /\ status = "COMPLETE" => phase = "RECONCILE"
  /\ status = "ABSENT" => phase = "NONE"
  /\ \A p \in Proc : /\ seen[p].phase = "SELL" => seen[p].sub \subseteq SellLeg
                     /\ seen[p].phase = "BUY" => seen[p].sub \subseteq BuyLeg

\* An accepted leg has its order.
AcceptedIsPosted ==
  /\ \A l \in Leg : leg[l] \notin Unsent \cup {"INTENT_RECORDED"} => posts[l] > 0
  /\ \A p \in Proc : pc[p] = "accept" => cur[p] \in Leg /\ posts[cur[p]] > 0

\* A BUY may go out: every order sent so far has filled, nothing is left that a
\* reconciler could book, and the cash covers the estimate.
BuyIsReady ==
  /\ \A s \in Rows(SellLeg) : order[s] = "FILLED"
  /\ \A b \in BuyLeg : posts[b] > 0 => order[b] = "FILLED"
  /\ \A l \in Leg : \A n \in 1..Qty : n <= filled[l] => <<l, n>> \in ledger
  /\ Qty * Estimate <= cash

\* Within the flock, an intent is the submitter's own, and what it read before a
\* BUY is still so when it posts.
SubmitterIsRight ==
  \A p \in Proc :
    /\ pc[p] \in {"post", "accept"} => cur[p] \in cand[p]
    /\ pc[p] \in {"intent", "post", "accept"} =>
         /\ \A l \in Leg : leg[l] = "INTENT_RECORDED" => cur[p] = l
         /\ \A b \in cand[p] \cap BuyLeg : cand[p] = {b}
    /\ pc[p] \in {"intent", "post"} /\ cand[p] \cap BuyLeg # {} => BuyIsReady

\* What the contract rests on: the books of the broker, of the readers and of
\* the ledger agree, and a submitter acts on what is still true.
ContractInv ==
  /\ FillInv /\ BrokerBooks /\ ReadingIsTrue /\ LedgerIsTrue /\ FilledIsBooked
  /\ PhaseMatchesRows /\ AcceptedIsPosted /\ SubmitterIsRight

-----------------------------------------------------------------------------
\* The workflow keeps the promises of the execution layer: what the broker and
\* the ledger see of it is a behaviour of the contract (M5A, M5B).
Contract == INSTANCE RebalanceContract WITH
  plan <- Rows(SellLeg), sent <- posts, booked <- ledger,
  closed <- {l \in Leg : order[l] \in {"FILLED", "DEAD"}}
ImplementsContract == Contract!Spec
=============================================================================
