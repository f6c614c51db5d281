----------------------------- MODULE PhysicalPlan -----------------------------
(***************************************************************************)
(* The physical plan of the recovery sleeve: build_demo_physical_plan      *)
(* (recovery/demo_physical_plan_v01.py) scopes the account to the strategy *)
(* and construct_physical_target (recovery/physical_target_v01.py) divides *)
(* it; the reserve they are given is the balance of an append-only ledger  *)
(* (apply_reserve_ledger_event in recovery/state_v01.py).                  *)
(*                                                                         *)
(* The plan is a pure function of one state, here an operator; the state   *)
(* is what it reads.  Amounts are on a grid of one unit, to which products *)
(* are rounded down where Decimal rounds to its 28 digits.                 *)
(***************************************************************************)
EXTENDS Integers, FiniteSets, Sequences, FiniteSetsExt

CONSTANTS
  Name,      \* tickers of SP2 names and of strangers, as numbers: they sort
  Recovery,  \* RECOVERY_TICKER
  MaxValue,  \* bound on the wallet value of a position
  MaxCash,   \* bound on availableToTrade
  One,       \* the parts of a weight of 1
  Key,       \* event keys of the reserve ledger
  Amount,    \* amounts of its events
  Refused    \* stands for every error

ASSUME ConstantsAssumption ==
  /\ Name \subseteq Nat /\ IsFiniteSet(Name) /\ Recovery \notin Name
  /\ MaxValue \in Nat /\ MaxCash \in Nat /\ One \in Nat \ {0}
  /\ IsFiniteSet(Key) /\ Amount \subseteq Int \ {0}

VARIABLES
  position,  \* [value, free] of each position of the account: its EUR value, and
             \* whether all of it is available for trading
  cash,      \* availableToTrade
  reserve,   \* reserve_bucket_eur of recovery_state_v01
  rows       \* recovery_reserve_ledger_v01: [key, amount, before, after]

vars == <<position, cash, reserve, rows>>

Holding == [value: 0..MaxValue, free: BOOLEAN]

Init ==
  /\ position = <<>> /\ cash = 0
  /\ reserve = 0   \* bootstrap_new_operational_reserve_eur
  /\ rows = <<>>

-----------------------------------------------------------------------------
(* construct_physical_target *)

Total(f) == MapThenSumSet(LAMBDA s : f[s], DOMAIN f)

\* _allocate_exact: the last symbol takes what the others leave.
Allocate(amount, w) ==
  LET last == Max(DOMAIN w)
      share(s) == (amount * w[s]) \div Total(w)
  IN IF amount = 0 THEN <<>>
       ELSE [s \in DOMAIN w |->
               IF s = last THEN amount - MapThenSumSet(share, DOMAIN w \ {last})
                 ELSE share(s)]

\* _current_sp2_weights
Positive(holdings) ==
  [s \in {t \in DOMAIN holdings : holdings[t] > 0} |-> holdings[s]]

Plan(used, sales, buy, sell, buys) ==
  [reserve_used |-> used, sp2_sales |-> sales, recovery_buy |-> buy,
   recovery_sell |-> sell, sp2_buys |-> buys]

\* Mutant: the reserve is used as far as it goes after the sales.
FundSalesFirst(delta, bucket, sp2) == Max({0, delta - sp2})

\* The part of an increase that the reserve pays.
Fund(delta, bucket, sp2) == Min({bucket, delta})

Construct(weight, holdings, recovery, bucket, returns) ==
  LET sp2 == Total(holdings)
      nav == sp2 + recovery + bucket
      delta == (nav * weight) \div One - recovery
      used == Fund(delta, bucket, sp2)
      sale == delta - used
  IN IF nav = 0 THEN Refused
     ELSE IF delta = 0 THEN Plan(0, <<>>, 0, 0, <<>>)
     ELSE IF delta > 0
       THEN IF sale > sp2 THEN Refused
              ELSE Plan(used, IF sale = 0 THEN <<>> ELSE Allocate(sale, Positive(holdings)),
                        delta, 0, <<>>)
       ELSE IF DOMAIN returns = {} \/ Total(returns) # One THEN Refused
              ELSE Plan(0, <<>>, 0, -delta, Allocate(-delta, returns))

-----------------------------------------------------------------------------
(* build_demo_physical_plan *)

\* _position_scope: the expected names, the recovery sleeve or not, all free.
InScope(expected) ==
  /\ expected \subseteq DOMAIN position
  /\ DOMAIN position \subseteq expected \cup {Recovery}
  /\ \A t \in DOMAIN position : position[t].free

Build(weight, expected, returns) ==
  IF Cardinality(expected) # 2 \/ reserve > cash \/ ~InScope(expected)
    THEN Refused
    ELSE Construct(weight, [t \in expected |-> position[t].value],
                   IF Recovery \in DOMAIN position THEN position[Recovery].value ELSE 0,
                   reserve, returns)

-----------------------------------------------------------------------------
(* The reserve ledger, and the account *)

\* Mutant: only the last event is looked at.
BookedLast(k) == rows # <<>> /\ rows[Len(rows)].key = k

Booked(k) == \E i \in DOMAIN rows : rows[i].key = k

\* apply_reserve_ledger_event, in one transaction: a replay changes nothing,
\* whether it is the same event or a conflicting one, which raises; an
\* overdraw raises.
ReserveEvent(k, amount) ==
  /\ ~Booked(k) /\ reserve + amount >= 0
  /\ reserve' = reserve + amount
  /\ rows' = Append(rows, [key |-> k, amount |-> amount,
                           before |-> reserve, after |-> reserve + amount])
  /\ UNCHANGED <<position, cash>>

\* Trades and prices change the account, and other money comes and goes.
Account ==
  /\ \/ /\ \E t \in Name \cup {Recovery} :
             \/ \E h \in Holding :
                  position' = [u \in DOMAIN position \cup {t} |->
                                 IF u = t THEN h ELSE position[u]]
             \/ position' = [u \in DOMAIN position \ {t} |-> position[u]]
        /\ UNCHANGED cash
     \/ cash' \in 0..MaxCash /\ UNCHANGED position
  /\ UNCHANGED <<reserve, rows>>

Next ==
  \/ \E k \in Key, a \in Amount : ReserveEvent(k, a)
  \/ Account

Spec == Init /\ [][Next]_vars

-----------------------------------------------------------------------------
(* Correctness *)

\* The reserve is what the ledger says: each key once, every event with the
\* balances around it, never overdrawn, whatever is replayed.
ReserveIsLedger ==
  LET before(i) == IF i = 1 THEN 0 ELSE rows[i - 1].after
  IN /\ reserve >= 0
     /\ \A i \in DOMAIN rows : /\ rows[i].before = before(i)
                               /\ rows[i].after = before(i) + rows[i].amount
     /\ reserve = before(Len(rows) + 1)
     /\ \A i, j \in DOMAIN rows : rows[i].key = rows[j].key => i = j

\* The strategy after a plan, at the prices of the plan.
Delta(f, s) == IF s \in DOMAIN f THEN f[s] ELSE 0
After(plan, expected) ==
  [sp2 |-> [s \in expected \cup DOMAIN plan.sp2_buys |->
              (IF s \in expected THEN position[s].value ELSE 0)
                - Delta(plan.sp2_sales, s) + Delta(plan.sp2_buys, s)],
   recovery |-> (IF Recovery \in DOMAIN position THEN position[Recovery].value ELSE 0)
                  + plan.recovery_buy - plan.recovery_sell,
   reserve |-> reserve - plan.reserve_used]

Weights == {w \in UNION {[names -> 0..One] : names \in SUBSET Name} : Total(w) \in {0, One}}

\* A plan spends what it may: the reserve of the ledger first and never the
\* rest of the account's cash, then the SP2 names, none below zero (but for
\* the unit that rounding leaves to the last of them).  It loses no money, and
\* planning again after it asks for nothing.
PlanIsSound ==
  \A weight \in 0..One, expected \in kSubset(2, Name), returns \in Weights :
    LET plan == Build(weight, expected, returns)
        after == After(plan, expected)
    IN plan # Refused =>
         /\ after.reserve >= 0 /\ after.recovery >= 0
         /\ DOMAIN plan.sp2_sales # {} => after.reserve = 0
         /\ \A s \in DOMAIN plan.sp2_sales : after.sp2[s] >= -1
         /\ Construct(weight, after.sp2, after.recovery, after.reserve, returns)
              = Plan(0, <<>>, 0, 0, <<>>)
=============================================================================
