-------------------------- MODULE RebalanceContract --------------------------
(***************************************************************************)
(* What the execution layer promises the broker account, whatever happens  *)
(* to its processes: the SELL orders of one plan, then BUY orders one at a *)
(* time, each order at most once and each BUY out of cash already booked.  *)
(* It has no processes, locks, leg statuses or histories: TwoPhaseWorkflow *)
(* implements it.                                                          *)
(***************************************************************************)
EXTENDS Integers

CONSTANTS SellLeg, BuyLeg, Qty, Estimate, Price, OpeningCash

Leg == SellLeg \cup BuyLeg

VARIABLES
  plan,    \* the SELL legs decided on
  sent,    \* orders sent for each leg
  filled,  \* units the broker has executed
  closed,  \* orders the broker will execute no more of
  booked,  \* units <<leg, n>> in the strategy's ledger
  cash     \* the strategy's cash

cvars == <<plan, sent, filled, closed, booked, cash>>

Init ==
  /\ plan = {} /\ closed = {} /\ booked = {} /\ cash = OpeningCash
  /\ sent = [l \in Leg |-> 0] /\ filled = [l \in Leg |-> 0]

Working(l) == sent[l] > 0 /\ l \notin closed
Executed == {f \in Leg \X (1..Qty) : f[2] <= filled[f[1]]}

Decide ==
  /\ plan = {} /\ \A l \in Leg : sent[l] = 0
  /\ plan' \in SUBSET SellLeg
  /\ UNCHANGED <<sent, filled, closed, booked, cash>>

Send(l) ==
  /\ sent[l] = 0
  /\ sent' = [sent EXCEPT ![l] = 1]
  /\ UNCHANGED <<plan, filled, closed, booked, cash>>

Sell(s) == s \in plan /\ Send(s)

Buy(b) ==
  /\ \A s \in plan : filled[s] = Qty
  /\ \A c \in BuyLeg : ~Working(c)
  /\ Executed \subseteq booked
  /\ Qty * Estimate <= cash
  /\ Send(b)

Execute(l) ==
  /\ Working(l) /\ filled[l] < Qty
  /\ filled' = [filled EXCEPT ![l] = @ + 1]
  /\ closed' = IF filled'[l] = Qty THEN closed \cup {l} ELSE closed
  /\ UNCHANGED <<plan, sent, booked, cash>>

Cancel(l) ==
  /\ Working(l)
  /\ closed' = closed \cup {l}
  /\ UNCHANGED <<plan, sent, filled, booked, cash>>

Book(f) ==
  /\ f \in Executed \ booked
  /\ booked' = booked \cup {f}
  /\ \E x \in Price : cash' = IF f[1] \in SellLeg THEN cash + x ELSE cash - x
  /\ UNCHANGED <<plan, sent, filled, closed>>

Next ==
  \/ Decide
  \/ \E s \in SellLeg : Sell(s)
  \/ \E b \in BuyLeg : Buy(b)
  \/ \E l \in Leg : Execute(l) \/ Cancel(l)
  \/ \E f \in Leg \X (1..Qty) : Book(f)

Spec == Init /\ [][Next]_cvars
=============================================================================
