----------------------------- MODULE LegacyJournal -----------------------------
(***************************************************************************)
(* The v0.3.3 commands of cli.py and the journal they share                *)
(* (state/journal.py): plan, execute-demo and reconcile, each a sequence   *)
(* of transactions of their own with no lock around them.                  *)
(*                                                                         *)
(* A decision stands for its signal date and overlay; decisions are        *)
(* numbered by date, and of one frozen month: they trade the same names.   *)
(* Quotes, capital and session hours can only refuse a command before it   *)
(* writes: a command may always stop there.                                *)
(***************************************************************************)
EXTENDS Integers, FiniteSets, Sequences

CONSTANTS
  Executor,     \* the processes that run plan and execute-demo
  Reconciler,   \* the processes that run reconcile
  Decisions,    \* number of signal dates
  Orders,       \* bound on the orders of a decision
  AllVuaa,      \* the decisions whose target holds no SP2 name
  CrashBudget,  \* bound on the process deaths
  None          \* an absent key, row or broker order ID

Decision == 1..Decisions
Order == Decision \X (1..Orders)
Proc == Executor \cup Reconciler

Status == {"PLANNED", "NO_ORDERS", "SUBMITTING", "SUBMITTED_PENDING_RECONCILIATION",
           "AMBIGUOUS_REQUIRES_RECONCILIATION", "RECONCILED_FILLED",
           "RECONCILIATION_FAILED", "PARTIAL_REQUIRES_RECONCILIATION"}
Key == {"active_membership", "active_overlay", "sp2_mix"}
OrderStatus == {"OPEN", "WORKING", "FILLED", "DEAD", "CUT"}
DecisionRow == [status: Status, bootstrap: BOOLEAN]
Batch == [next: 1..(Orders + 1), n: 1..Orders]

ASSUME ConstantsAssumption ==
  /\ Executor \cap Reconciler = {} /\ IsFiniteSet(Proc)
  /\ Decisions \in Nat \ {0} /\ Orders \in Nat \ {0} /\ CrashBudget \in Nat
  /\ AllVuaa \subseteq Decision
  /\ None \notin Decision /\ None \notin Order /\ None \notin DecisionRow
  /\ None \notin Batch /\ None \notin OrderStatus

VARIABLES
  \* SQLite
  decision,  \* None or [status, bootstrap] of each decision
  accepted,  \* BROKER_ACCEPTED attempts: [o, id], id = None if the answer had none
  intents,   \* orders with an INTENT_RECORDED attempt
  kv,        \* active_membership, active_overlay, sp2_mix: whose they are
  \* outside
  signal,    \* the last completed IVV close
  order,     \* the broker's orders: None, or OPEN, WORKING (partly filled),
             \* FILLED, DEAD, CUT (dead after a partial fill)
  posts,     \* (history) POSTs of each order
  \* the processes
  pc, on,    \* where each is, and the decision it works on
  plan,      \* execute-demo: [next, n], the order to send and how many there are
  rows,      \* reconcile: the attempts it read
  pend,      \* reconcile: the pending orders it read
  crashes

journal == <<decision, accepted, intents, kv>>
outside == <<signal, order, posts>>
procs == <<pc, on, plan, rows, pend>>
vars == <<journal, outside, procs, crashes>>

Init ==
  /\ decision = [d \in Decision |-> None] /\ accepted = {} /\ intents = {}
  /\ kv = [k \in Key |-> None]
  /\ signal = 1 /\ order = [o \in Order |-> None] /\ posts = [o \in Order |-> 0]
  /\ pc = [p \in Proc |-> "idle"] /\ on = [p \in Proc |-> None]
  /\ plan = [p \in Proc |-> None] /\ rows = [p \in Proc |-> {}]
  /\ pend = [p \in Proc |-> {}] /\ crashes = 0

Exit(p) ==
  /\ pc' = [pc EXCEPT ![p] = "idle"] /\ on' = [on EXCEPT ![p] = None]
  /\ plan' = [plan EXCEPT ![p] = None] /\ rows' = [rows EXCEPT ![p] = {}]
  /\ pend' = [pend EXCEPT ![p] = {}]

Goto(p, label) == pc' = [pc EXCEPT ![p] = label]

SetStatus(d, s) == decision' = [decision EXCEPT ![d].status = s]

Live == {o \in Order : order[o] \in {"OPEN", "WORKING"}}
\* SP1 instruments with a material position.
Held == {o \in Order : order[o] \in {"WORKING", "FILLED", "CUT"}}

-----------------------------------------------------------------------------
(* plan and execute-demo *)

\* cmd_plan: one decision per signal, planned on the journal of the moment; a
\* bootstrap is refused when the instruments are already held.
Plan(p) ==
  /\ pc[p] = "idle" /\ decision[signal] = None
  /\ LET bootstrap == kv["active_membership"] = None
     IN /\ bootstrap => Held = {}
        /\ decision' = [decision EXCEPT ![signal] =
                          [status |-> "PLANNED", bootstrap |-> bootstrap]]
  /\ UNCHANGED <<accepted, intents, kv, outside, procs, crashes>>

\* Mutant: what was never accepted may be sent again.
ExecutableUnlessAccepted(d) ==
  decision[d] # None /\ ~\E a \in accepted : a.o[1] = d

\* The refusals of cmd_execute_demo that look at the journal.
Executable(d) ==
  /\ decision[d] # None /\ decision[d].status = "PLANNED"
  /\ ~\E o \in intents : o[1] = d
  /\ ~\E a \in accepted : a.o[1] = d

Execute(p, d) ==
  /\ pc[p] = "idle" /\ Executable(d) /\ signal = d
  /\ Goto(p, "check") /\ on' = [on EXCEPT ![p] = d]
  /\ UNCHANGED <<plan, rows, pend, journal, outside, crashes>>

\* Mutant: the pending orders of the account are not asked for.
BrokerIsClearUnasked(d) == decision[d].bootstrap => Held = {}

\* Nothing pending, and nothing held before a bootstrap (_fresh_execution_orders).
BrokerIsClear(d) ==
  /\ Live = {}
  /\ decision[d].bootstrap => Held = {}

\* The orders are computed afresh; none at all ends the decision.
Check(p) ==
  /\ pc[p] = "check"
  /\ IF BrokerIsClear(on[p])
       THEN \E n \in 0..Orders :
              IF n = 0
                THEN SetStatus(on[p], "NO_ORDERS") /\ Exit(p)
                ELSE /\ SetStatus(on[p], "SUBMITTING") /\ Goto(p, "intent")
                     /\ plan' = [plan EXCEPT ![p] = [next |-> 1, n |-> n]]
                     /\ UNCHANGED <<on, rows, pend>>
       ELSE Exit(p) /\ UNCHANGED decision
  /\ UNCHANGED <<accepted, intents, kv, outside, crashes>>

This(p) == <<on[p], plan[p].next>>

\* Mutant: one order too many.
FinishedOneLate(p) == plan[p].next > plan[p].n + 1

\* for order in orders.
Finished(p) == plan[p].next > plan[p].n

\* The intent of the next order, or the end of the submission.
Intent(p) ==
  /\ pc[p] = "intent"
  /\ IF Finished(p)
       THEN /\ SetStatus(on[p], "SUBMITTED_PENDING_RECONCILIATION") /\ Exit(p)
            /\ UNCHANGED intents
       ELSE /\ intents' = intents \cup {This(p)} /\ Goto(p, "post")
            /\ UNCHANGED <<decision, on, plan, rows, pend>>
  /\ UNCHANGED <<accepted, kv, outside, crashes>>

\* market_order_demo_only: the order exists or not, and an answer with or
\* without an ID comes or not.
Post(p) ==
  /\ pc[p] = "post"
  /\ posts' = [posts EXCEPT ![This(p)] = @ + 1]
  /\ \/ order' = [order EXCEPT ![This(p)] = "OPEN"]
        /\ \E l \in {"answered", "no_id", "raised"} : Goto(p, l)
     \/ order' = order /\ Goto(p, "raised")
  /\ UNCHANGED <<on, plan, rows, pend, journal, signal, crashes>>

RecordAccepted(p) ==
  /\ pc[p] \in {"answered", "no_id"}
  /\ accepted' = accepted \cup
       {[o |-> This(p), id |-> IF pc[p] = "answered" THEN This(p) ELSE None]}
  /\ Goto(p, "intent") /\ plan' = [plan EXCEPT ![p].next = @ + 1]
  /\ UNCHANGED <<decision, intents, kv, outside, on, rows, pend, crashes>>

Raised(p) ==
  /\ pc[p] = "raised"
  /\ SetStatus(on[p], "AMBIGUOUS_REQUIRES_RECONCILIATION") /\ Exit(p)
  /\ UNCHANGED <<accepted, intents, kv, outside, crashes>>

-----------------------------------------------------------------------------
(* reconcile *)

AcceptedOf(d) == {a \in accepted : a.o[1] = d}

\* The attempts, and then the pending orders.
ReadAttempts(p, d) ==
  /\ pc[p] = "idle" /\ decision[d] # None /\ AcceptedOf(d) # {}
  /\ Goto(p, "pending") /\ on' = [on EXCEPT ![p] = d]
  /\ rows' = [rows EXCEPT ![p] = AcceptedOf(d)]
  /\ UNCHANGED <<plan, pend, journal, outside, crashes>>

ReadPending(p) ==
  /\ pc[p] = "pending"
  /\ Goto(p, "history") /\ pend' = [pend EXCEPT ![p] = Live]
  /\ UNCHANGED <<on, plan, rows, journal, outside, crashes>>

\* Mutant: an order gone from the pending list has been filled.
StateGoneIsFilled(a, pending, shown) ==
  IF a.id = None THEN "UNKNOWN"
    ELSE IF a.o \in pending THEN "PENDING" ELSE "FILLED"

\* reconcile_accepted_attempts, for one attempt and the orders the history shows.
State(a, pending, shown) ==
  IF a.id = None THEN "UNKNOWN"
    ELSE IF a.o \in shown
      THEN CASE order[a.o] = "FILLED" -> "FILLED"
             [] order[a.o] = "DEAD" -> "FAILED"
             [] order[a.o] \in {"WORKING", "CUT"} -> "PARTIAL"
             [] OTHER -> "PENDING"
      ELSE IF a.o \in pending THEN "PENDING" ELSE "UNKNOWN"

\* The history, which may lag, and what follows: the activation when every
\* attempt reads FILLED, or the new status, or a schema error.
ReadHistory(p) ==
  /\ pc[p] = "history"
  /\ \/ \E shown \in SUBSET {a.o : a \in rows[p]} :
          LET states == {State(a, pend[p], shown) : a \in rows[p]}
          IN IF states = {"FILLED"}
               THEN Goto(p, "membership") /\ UNCHANGED <<decision, on, plan, rows, pend>>
               ELSE /\ Exit(p)
                    /\ SetStatus(on[p],
                         IF "FAILED" \in states THEN "RECONCILIATION_FAILED"
                           ELSE IF "PARTIAL" \in states
                             THEN "PARTIAL_REQUIRES_RECONCILIATION"
                             ELSE "SUBMITTED_PENDING_RECONCILIATION")
     \/ SetStatus(on[p], "AMBIGUOUS_REQUIRES_RECONCILIATION") /\ Exit(p)
  /\ UNCHANGED <<accepted, intents, kv, outside, crashes>>

\* _activate_filled_decision: one commit per key.
SetKey(p, key, next) ==
  /\ kv' = [kv EXCEPT ![key] = on[p]] /\ Goto(p, next)
  /\ UNCHANGED <<decision, accepted, intents, outside, on, plan, rows, pend,
                 crashes>>

\* Mutant: the status is written once the membership is.
ActivateStatusEarly(p) ==
  \/ pc[p] = "membership" /\ SetKey(p, "active_membership", "status")
  \/ /\ pc[p] = "status"
     /\ SetStatus(on[p], "RECONCILED_FILLED") /\ Goto(p, "overlay")
     /\ UNCHANGED <<accepted, intents, kv, outside, on, plan, rows, pend, crashes>>
  \/ /\ pc[p] = "overlay"
     /\ kv' = [kv EXCEPT !["active_overlay"] = on[p]] /\ Exit(p)
     /\ UNCHANGED <<decision, accepted, intents, outside, crashes>>

Activate(p) ==
  \/ pc[p] = "membership" /\ SetKey(p, "active_membership", "overlay")
  \/ pc[p] = "overlay"
     /\ SetKey(p, "active_overlay", IF on[p] \in AllVuaa THEN "status" ELSE "mix")
  \/ pc[p] = "mix" /\ SetKey(p, "sp2_mix", "status")
  \/ /\ pc[p] = "status"
     /\ SetStatus(on[p], "RECONCILED_FILLED") /\ Exit(p)
     /\ UNCHANGED <<accepted, intents, kv, outside, crashes>>

-----------------------------------------------------------------------------
(* The broker, the market, and process death *)

Trade(o) ==
  /\ \/ /\ order[o] = "OPEN"
        /\ \E s \in {"WORKING", "FILLED", "DEAD"} : order' = [order EXCEPT ![o] = s]
     \/ /\ order[o] = "WORKING"
        /\ \E s \in {"FILLED", "CUT"} : order' = [order EXCEPT ![o] = s]
  /\ UNCHANGED <<signal, posts, journal, procs, crashes>>

Close ==
  /\ signal < Decisions /\ signal' = signal + 1
  /\ UNCHANGED <<order, posts, journal, procs, crashes>>

Crash(p) ==
  /\ pc[p] # "idle" /\ crashes < CrashBudget
  /\ crashes' = crashes + 1 /\ Exit(p)
  /\ UNCHANGED <<journal, outside>>

Submit(p) ==
  \/ Plan(p)
  \/ \E d \in Decision : Execute(p, d)
  \/ Check(p) \/ Intent(p) \/ Post(p) \/ RecordAccepted(p) \/ Raised(p)

Reconcile(p) ==
  \/ \E d \in Decision : ReadAttempts(p, d)
  \/ ReadPending(p) \/ ReadHistory(p) \/ Activate(p)

Next ==
  \/ \E p \in Executor : Submit(p)
  \/ \E p \in Reconciler : Reconcile(p)
  \/ \E p \in Proc : Crash(p)
  \/ \E o \in Order : Trade(o)
  \/ Close

Spec == Init /\ [][Next]_vars

-----------------------------------------------------------------------------
(* Correctness *)

Label == {"idle", "check", "intent", "post", "answered", "no_id", "raised",
          "pending", "history", "membership", "overlay", "mix", "status"}

\* Every variable keeps its type.
TypeOK ==
  /\ decision \in [Decision -> {None} \cup DecisionRow]
  /\ accepted \subseteq [o: Order, id: Order \cup {None}] /\ intents \subseteq Order
  /\ kv \in [Key -> Decision \cup {None}]
  /\ signal \in Decision /\ posts \in [Order -> Nat]
  /\ order \in [Order -> {None} \cup OrderStatus]
  /\ pc \in [Proc -> Label]
  /\ on \in [Proc -> Decision \cup {None}]
  /\ plan \in [Proc -> {None} \cup Batch]
  /\ pend \in [Proc -> SUBSET Order] /\ crashes \in 0..CrashBudget

\* No order of a decision is sent twice: not after a death anywhere in a
\* submission, nor after an ambiguous answer, nor after a status that a
\* reconciliation wrote over that of the submission ("automatic retry is
\* forbidden", cmd_execute_demo).
PostedOnce == \A o \in Order : posts[o] <= 1

\* The initial capital is spent once: two decisions planned as bootstraps do
\* not both have orders that are working or have been filled.
BootstrapOnce ==
  \A o1, o2 \in Live \cup Held :
    decision[o1[1]].bootstrap /\ decision[o2[1]].bootstrap => o1[1] = o2[1]

\* What is active was bought: an order of the decision was filled, and every
\* one whose acceptance the reconciliation had read.  (The orders it has not
\* read are those of AllExpectedFilled.)
ActiveIsFilled ==
  /\ \A k \in Key : kv[k] # None =>
       \E a \in AcceptedOf(kv[k]) : order[a.o] = "FILLED"
  /\ \A p \in Proc : pc[p] \in {"membership", "overlay", "mix", "status"} =>
       \A a \in rows[p] : a.id # None /\ order[a.o] = "FILLED"

\* A decision becomes RECONCILED_FILLED when, and only when, all its keys are
\* the active ones: a death within the activation leaves a status that asks
\* for another reconciliation.
ReconciledIsActive ==
  [][\A d \in Decision :
       /\ decision'[d] # None /\ decision'[d].status = "RECONCILED_FILLED"
       /\ decision[d].status # "RECONCILED_FILLED"
       => \A k \in Key : kv'[k] = d \/ (k = "sp2_mix" /\ d \in AllVuaa)]_vars

\* "ACTIVE_STRATEGY_STATE_ONLY_AFTER_ALL_EXPECTED_ORDERS_FULLY_FILLED"
\* (FREEZE_v0.3.3.txt): every order the submission went to send was filled.
AllExpectedFilled ==
  \A k \in Key : kv[k] # None =>
    \A o \in intents : o[1] = kv[k] => order[o] = "FILLED"
=============================================================================
