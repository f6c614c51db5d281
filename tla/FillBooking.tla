----------------------------- MODULE FillBooking -----------------------------
(***************************************************************************)
(* How a reconciliation learns from Trading212 what the SELL orders of a   *)
(* phase have executed, and books it: the pages of the order history       *)
(* (broker/history_v04.py), fetched one request at a time while the        *)
(* account goes on trading, the fills merged from them, and the capital    *)
(* ledger (state/capital_v04.py), one transaction per fill, before a       *)
(* status moves (reconcile_current_phase in broker_executor_v04.py).       *)
(*                                                                         *)
(* TwoPhaseWorkflow has this in one step, ReadHistory, and exact cash.     *)
(* Money is in tenths of a cent at the broker and in cents in the books.   *)
(***************************************************************************)
EXTENDS Integers, FiniteSets, Sequences, FiniteSetsExt

CONSTANTS
  Proc,         \* the cycle processes
  Order,        \* the orders of the phase, by leg index
  Qty,          \* fills that complete an order
  Impact,       \* the wallet impacts [net, fee] a k-th fill may have, for each k;
                \* a fee < 0 is a cost
  OpeningCash,  \* strategy_cash_eur before the phase, in cents
  PageSize,     \* items on a history page (limit=50)
  MaxPages,     \* pages a read follows (max_pages=20)
  OtherFills,   \* bound on the history items of other orders of the account
  FaultBudget,  \* bound on process deaths and restatements of a fill together
  Other         \* stands for every order that is not of this phase

ASSUME ConstantsAssumption ==
  /\ Order \subseteq Nat /\ IsFiniteSet(Order) /\ Other \notin Order
  /\ Qty \in Nat \ {0} /\ Impact \in [1..Qty -> SUBSET [net: Nat, fee: Int]]
  /\ OpeningCash \in Int /\ PageSize \in Nat \ {0} /\ MaxPages \in Nat \ {0}
  /\ OtherFills \in Nat /\ FaultBudget \in Nat

VARIABLES
  \* SQLite
  status,  \* ACTIVE, DONE (all SELLs reconciled), FAILED, RECONCILIATION_REQUIRED
  leg,     \* status of each leg
  ledger,  \* the BROKER_FILL rows of capital_ledger
  cash, debt, fees,  \* the three columns of machine_state, in cents
  asof,    \* (history) items that existed when the last marked read began
  \* the broker
  order,   \* [st, n] of each order: its status and filled quantity
  log,     \* the history, oldest first: [o, k, at], k = 0 without a fill
  impact,  \* what each fill moved in the wallet
  api,     \* what the documents leave open: see Init
  \* the processes
  pc, pend, top, pages, got,
  faults   \* process deaths and restatements so far

books == <<status, leg, ledger, cash, debt, fees, asof>>
broker == <<order, log, impact, api>>
procs == <<pc, pend, top, pages, got>>
vars == <<books, broker, procs, faults>>

Fill == Order \X (1..Qty)
AnyImpact == UNION {Impact[k] : k \in 1..Qty}
LegStatus == {"BROKER_ACCEPTED", "PENDING", "PARTIAL", "FILLED", "FAILED", "UNKNOWN"}

\* The SELL legs have all been accepted.  An item carries a snapshot of its
\* order, as of its fill or as of the request; a next page continues after the
\* last item served, or after so many items of the history of the moment.
Init ==
  /\ status = "ACTIVE" /\ leg = [o \in Order |-> "BROKER_ACCEPTED"]
  /\ ledger = {} /\ cash = OpeningCash /\ debt = Max({0, -OpeningCash}) /\ fees = 0
  /\ asof = 0
  /\ order = [o \in Order |-> [st |-> "OPEN", n |-> 0]]
  /\ log = <<>> /\ impact = <<>>
  /\ api \in [snapshot: {"fill", "request"}, paging: {"cursor", "offset"}]
  /\ pc = [p \in Proc |-> "idle"] /\ pend = [p \in Proc |-> {}]
  /\ top = [p \in Proc |-> 0] /\ pages = [p \in Proc |-> 0]
  /\ got = [p \in Proc |-> {}] /\ faults = 0

Exit(p) ==
  /\ pc' = [pc EXCEPT ![p] = "idle"] /\ pend' = [pend EXCEPT ![p] = {}]
  /\ top' = [top EXCEPT ![p] = 0] /\ pages' = [pages EXCEPT ![p] = 0]
  /\ got' = [got EXCEPT ![p] = {}]

-----------------------------------------------------------------------------
(* Reading the broker *)

\* The pending orders, then the history from its first page.
Begin(p) ==
  /\ pc[p] = "idle" /\ status = "ACTIVE"
  /\ pc' = [pc EXCEPT ![p] = "page"]
  /\ pend' = [pend EXCEPT ![p] = {o \in Order : order[o].st = "OPEN"}]
  /\ UNCHANGED <<top, pages, got, books, broker, faults>>

\* An item as a page serves it.
Served(i) ==
  LET item == log[i]
  IN [o |-> item.o, k |-> item.k,
      impact |-> IF item.k > 0 THEN {impact[<<item.o, item.k>>]} ELSE {},
      at |-> IF api.snapshot = "fill" THEN item.at ELSE order[item.o]]

\* The newest position of the next page, and the items on it: those of other
\* orders are parsed and never looked at again.
Newest(p) ==
  (IF pages[p] = 0 \/ api.paging = "offset" THEN Len(log) ELSE top[p])
    - pages[p] * PageSize
Page(p) ==
  {Served(i) : i \in {j \in DOMAIN log : /\ log[j].o # Other
                                         /\ Newest(p) - PageSize < j
                                         /\ j <= Newest(p)}}

\* merge_records raises on two versions of one fill.
Conflicting(items) ==
  \E a, b \in items : a.o = b.o /\ a.k = b.k /\ a.impact # b.impact

\* Mutant: a read that has followed its share of pages ends there.
FetchPageCapped(p) ==
  /\ pc[p] = "page"
  /\ IF Conflicting(got[p] \cup Page(p))
       THEN Exit(p)
       ELSE /\ got' = [got EXCEPT ![p] = @ \cup Page(p)]
            /\ top' = [top EXCEPT ![p] = IF pages[p] = 0 THEN Len(log) ELSE @]
            /\ pages' = [pages EXCEPT ![p] = @ + 1]
            /\ pc' = [pc EXCEPT ![p] =
                 IF Newest(p) > PageSize /\ pages[p] + 1 < MaxPages
                   THEN "page" ELSE "apply"]
            /\ UNCHANGED pend
  /\ UNCHANGED <<books, broker, faults>>

\* Mutant: the page that reaches the limit raises, not the one beyond it.
FetchPageToLimit(p) ==
  /\ pc[p] = "page"
  /\ IF pages[p] + 1 >= MaxPages \/ Conflicting(got[p] \cup Page(p))
       THEN Exit(p)
       ELSE /\ got' = [got EXCEPT ![p] = @ \cup Page(p)]
            /\ top' = [top EXCEPT ![p] = IF pages[p] = 0 THEN Len(log) ELSE @]
            /\ pages' = [pages EXCEPT ![p] = @ + 1]
            /\ pc' = [pc EXCEPT ![p] =
                 IF Newest(p) > PageSize THEN "page" ELSE "apply"]
            /\ UNCHANGED pend
  /\ UNCHANGED <<books, broker, faults>>

\* fetch_history_records, one page: too many pages or a conflict raises.
FetchPage(p) ==
  /\ pc[p] = "page"
  /\ IF pages[p] >= MaxPages \/ Conflicting(got[p] \cup Page(p))
       THEN Exit(p)
       ELSE /\ got' = [got EXCEPT ![p] = @ \cup Page(p)]
            /\ top' = [top EXCEPT ![p] = IF pages[p] = 0 THEN Len(log) ELSE @]
            /\ pages' = [pages EXCEPT ![p] = @ + 1]
            /\ pc' = [pc EXCEPT ![p] =
                 IF Newest(p) > PageSize THEN "page" ELSE "apply"]
            /\ UNCHANGED pend
  /\ UNCHANGED <<books, broker, faults>>

\* The snapshot that merge_records keeps: one with the largest filled
\* quantity.  Snapshots of one quantity differ in OPEN or DEAD at most, and
\* the page fetched last, which is no older, decides: it has the final status.
Winner(p, o) ==
  LET snaps == {i.at : i \in {j \in got[p] : j.o = o}}
  IN CHOOSE s \in snaps : \A t \in snaps :
       s.n > t.n \/ (s.n = t.n /\ (t.st = "OPEN" \/ s.st # "OPEN"))

\* canonical_state of the merged record, or the pending list, or UNKNOWN.
State(p, o) ==
  IF \E i \in got[p] : i.o = o
    THEN LET s == Winner(p, o)
         IN CASE s.st = "FILLED" -> "FILLED"
              [] s.st # "FILLED" /\ s.n > 0 -> "PARTIAL"
              [] s.st = "DEAD" /\ s.n = 0 -> "FAILED"
              [] OTHER -> "PENDING"
    ELSE IF o \in pend[p] THEN "PENDING" ELSE "UNKNOWN"

-----------------------------------------------------------------------------
(* Booking: normalize_order_fills and apply_fill_event, in cents *)

\* Mutant: amounts are cut to the cent below.
MoneyDown(x) == x \div 10

\* _money: ROUND_HALF_UP to the cent, of a non-negative amount.
Money(x) == (x + 5) \div 10

\* A fee row is a cost when its amount is negative, and a rebate costs nothing.
FeeCost(i) == Money(Max({0, -i.fee}))

Row(f, i) == [fill |-> f, impact |-> i]
Fetched(p) == {Row(<<i.o, i.k>>, x) : i \in {j \in got[p] : j.k > 0}, x \in AnyImpact}
Events(p) ==
  {r \in Fetched(p) : \E i \in got[p] : <<i.o, i.k>> = r.fill /\ i.impact = {r.impact}}

\* Mutant: a fill whose impact was restated is taken for a new one.
BookedByPayload(r) == r \in ledger

\* The event key is the order ID and the fill ID.
Booked(r) == \E b \in ledger : b.fill = r.fill

\* Fills are applied by order, then in their own order; one already applied
\* changes nothing, and one applied with another payload raises.
Unapplied(p) == {r \in Events(p) : r \notin ledger}
Before(a, b) == a[1] < b[1] \/ (a[1] = b[1] /\ a[2] <= b[2])
Next1(p) == {r \in Unapplied(p) : \A q \in Unapplied(p) : Before(r.fill, q.fill)}

\* Mutant: the debt is the negative of the cash, whatever its sign.
NegativeCash(x) == -x

\* external_cash_debt_eur, of the new cash.
Debt(x) == Max({0, -x})

\* apply_fill_event: the row and the three amounts in one transaction.
ApplyFill(p) ==
  /\ pc[p] = "apply"
  /\ \E r \in Next1(p) :
       /\ ~Booked(r)
       /\ ledger' = ledger \cup {r}
       /\ cash' = cash + Money(r.impact.net)
       /\ debt' = Debt(cash + Money(r.impact.net))
       /\ fees' = fees + FeeCost(r.impact)
  /\ UNCHANGED <<status, leg, asof, broker, procs, faults>>

\* _assert_existing_matches: the reconciliation ends with no status written.
ConflictingReplay(p) ==
  /\ pc[p] = "apply"
  /\ \E r \in Next1(p) : Booked(r)
  /\ Exit(p) /\ UNCHANGED <<books, broker, faults>>

-----------------------------------------------------------------------------
(* mark_sell_reconciliation_result, once every fetched fill is booked *)

\* Broker positions are compared only when every order reads FILLED.
Verified(p) ==
  (\A o \in Order : State(p, o) = "FILLED") =>
    \A o \in Order : order[o].n = Qty

\* Mutant: the statuses are written before the fills are booked.
MarkFirst(p) ==
  /\ pc[p] = "apply"
  /\ Exit(p)
  /\ IF status # "ACTIVE" \/ ~Verified(p)
       THEN UNCHANGED <<status, leg, asof>>
       ELSE LET states == {State(p, o) : o \in Order}
            IN /\ leg' = [o \in Order |-> State(p, o)]
               /\ asof' = top[p]
               /\ status' = IF states = {"FILLED"} THEN "DONE" ELSE "ACTIVE"
  /\ UNCHANGED <<ledger, cash, debt, fees, broker, faults>>

Mark(p) ==
  /\ pc[p] = "apply" /\ Unapplied(p) = {}
  /\ Exit(p)
  /\ IF status # "ACTIVE" \/ ~Verified(p)
       THEN UNCHANGED <<status, leg, asof>>
       ELSE LET states == {State(p, o) : o \in Order}
            IN /\ leg' = [o \in Order |-> State(p, o)]
               /\ asof' = top[p]
               /\ status' = CASE "UNKNOWN" \in states -> "RECONCILIATION_REQUIRED"
                              [] "UNKNOWN" \notin states /\ "FAILED" \in states -> "FAILED"
                              [] states = {"FILLED"} -> "DONE"
                              [] OTHER -> "ACTIVE"
  /\ UNCHANGED <<ledger, cash, debt, fees, broker, faults>>

-----------------------------------------------------------------------------
(* The broker, and process death *)

\* An order executes one more fill, with some wallet impact.
Execute(o) ==
  LET n == order[o].n + 1
      now == [st |-> IF n = Qty THEN "FILLED" ELSE "OPEN", n |-> n]
  IN /\ order[o].st = "OPEN"
     /\ order' = [order EXCEPT ![o] = now]
     /\ log' = Append(log, [o |-> o, k |-> n, at |-> now])
     /\ \E i \in Impact[n] :
          impact' = [f \in DOMAIN impact \cup {<<o, n>>} |->
                       IF f = <<o, n>> THEN i ELSE impact[f]]
     /\ UNCHANGED <<api, books, procs, faults>>

\* It is cancelled, rejected or expires; without a fill it gets its own item.
Kill(o) ==
  LET now == [order[o] EXCEPT !.st = "DEAD"]
  IN /\ order[o].st = "OPEN"
     /\ order' = [order EXCEPT ![o] = now]
     /\ log' = IF now.n > 0 THEN log ELSE Append(log, [o |-> o, k |-> 0, at |-> now])
     /\ UNCHANGED <<impact, api, books, procs, faults>>

Others == {i \in DOMAIN log : log[i].o = Other}

\* Another order of the account gets a history item.
OtherExecutes ==
  /\ Cardinality(Others) < OtherFills
  /\ log' = Append(log, [o |-> Other, k |-> 0, at |-> [st |-> "FILLED", n |-> 0]])
  /\ UNCHANGED <<order, impact, api, books, procs, faults>>

\* The broker restates the impact of a fill (a fee charged later).
Amend(f) ==
  /\ faults < FaultBudget /\ faults' = faults + 1
  /\ f \in DOMAIN impact
  /\ \E i \in Impact[f[2]] \ {impact[f]} : impact' = [impact EXCEPT ![f] = i]
  /\ UNCHANGED <<order, log, api, books, procs>>

Crash(p) ==
  /\ pc[p] # "idle" /\ faults < FaultBudget
  /\ faults' = faults + 1
  /\ Exit(p)
  /\ UNCHANGED <<books, broker>>

Reconcile(p) ==
  Begin(p) \/ FetchPage(p) \/ ApplyFill(p) \/ ConflictingReplay(p) \/ Mark(p)

Trade(o) == Execute(o) \/ Kill(o)

Next ==
  \/ \E p \in Proc : Reconcile(p) \/ Crash(p)
  \/ \E o \in Order : Trade(o)
  \/ OtherExecutes
  \/ \E f \in Fill : Amend(f)

Spec == Init /\ [][Next]_vars

-----------------------------------------------------------------------------
(* Correctness *)

Snapshot == [st: {"OPEN", "FILLED", "DEAD"}, n: 0..Qty]
ItemType == [o: Order, k: 0..Qty, impact: SUBSET AnyImpact, at: Snapshot]

\* Every variable keeps its type.
TypeOK ==
  /\ status \in {"ACTIVE", "DONE", "FAILED", "RECONCILIATION_REQUIRED"}
  /\ leg \in [Order -> LegStatus] /\ ledger \subseteq [fill: Fill, impact: AnyImpact]
  /\ cash \in Int /\ debt \in Nat /\ fees \in Nat /\ asof \in Nat
  /\ order \in [Order -> Snapshot]
  /\ log \in Seq([o: Order \cup {Other}, k: 0..Qty, at: Snapshot])
  /\ DOMAIN impact \subseteq Fill /\ \A f \in DOMAIN impact : impact[f] \in Impact[f[2]]
  /\ api \in [snapshot: {"fill", "request"}, paging: {"cursor", "offset"}]
  /\ faults \in 0..FaultBudget
  /\ pc \in [Proc -> {"idle", "page", "apply"}] /\ pend \in [Proc -> SUBSET Order]
  /\ top \in [Proc -> Nat] /\ pages \in [Proc -> Nat]
  /\ got \in [Proc -> SUBSET ItemType]

\* The cash, the debt and the fees are those of the booked fills, each within
\* half a cent of what the broker moved; the debt is the negative cash, as
\* validate_machine_state asks (state/capital_v04.py, _money).
BooksBalance ==
  LET net(r) == r.impact.net
      cost(r) == Max({0, -r.impact.fee})
      slack == 5 * Cardinality(ledger)
  IN /\ 10 * (cash - OpeningCash) - MapThenSumSet(net, ledger) \in -slack..slack
     /\ 10 * fees - MapThenSumSet(cost, ledger) \in -slack..slack
     /\ debt = Max({0, -cash})

\* A fill is booked once, whatever the pages, the processes and the broker's
\* restatements do, and only after the broker executed it.
BookedOnce ==
  /\ \A a, b \in ledger : a.fill = b.fill => a = b
  /\ \A r \in ledger : r.fill[2] <= order[r.fill[1]].n

\* A read misses no fill that the account had when it fetched the first page:
\* neither the pages nor the trading between them lose an older item.
OlderFills(n) == {<<log[i].o, log[i].k>> : i \in {j \in 1..n : log[j].k > 0}}
ReadIsComplete ==
  \A p \in Proc : pc[p] = "apply" =>
    \A f \in OlderFills(top[p]) : \E i \in got[p] : <<i.o, i.k>> = f

\* What a FILLED leg lacks in the ledger was executed while its own history
\* was being read; nothing is lacking when a snapshot is as old as its fill.
FilledIsBooked ==
  \A o \in Order : leg[o] = "FILLED" =>
    /\ order[o].st = "FILLED"
    /\ \A k \in 1..Qty :
         \/ \E r \in ledger : r.fill = <<o, k>>
         \/ api.snapshot = "request" /\ <<o, k>> \notin OlderFills(asof)
=============================================================================
