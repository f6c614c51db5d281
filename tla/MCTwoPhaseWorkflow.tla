------------------------- MODULE MCTwoPhaseWorkflow -------------------------
(* Model-checking instances of TwoPhaseWorkflow: the cfg files MCTwoPhase*. *)
EXTENDS TwoPhaseWorkflow, TLC

Symmetric == Permutations(Proc)

-----------------------------------------------------------------------------
(* Fairness for Settles: cycles keep being started (the timer) and run on unless
   they die, and the broker works off its orders and its history pages catch up
   (finitely many steps, so one condition for all).  A cycle may be refused
   whenever it wants to submit or to replan, and for ever. *)
Fairness ==
  /\ \A p \in Proc : WF_vars(Cycle(p) \/ Refuse(p))
  /\ WF_vars(\E l \in Leg : Trade(l) \/ ShowHistory(l))

FairSpec == Spec /\ Fairness

\* What an ACTIVE workflow that is let through cannot leave: an order cancelled
\* after a partial fill reads PARTIAL for ever, and a BUY whose estimate no
\* longer fits the cash left by the BUYs before it is never a candidate.
Wedged ==
  /\ status = "ACTIVE"
  /\ \/ \E l \in Leg : order[l] = "DEAD" /\ filled[l] > 0
     \/ /\ phase = "BUY" /\ Qty * Estimate > cash
        /\ InStatus(BuyLeg, {"PLANNED"}) # {}

\* Every cycle from some moment on wants to submit and is turned away: its
\* signal is no longer the latest close, the broker has less cash available than
\* the next BUY, a foreign order is pending, the session or the quotes never fit.
SubmissionsRefused ==
  /\ <>[](status = "ACTIVE" /\ RecoveryAction = "submit")
  /\ <>[][\A p \in Proc : ~(AcquireLock(p) /\ lock' = p)]_vars

\* Every cycle from some moment on wants to install the BUY legs and gets no
\* plan: prices stay where it takes another SELL (FreshSellRequired), or the
\* BUYs of every plan ask for more than the durable cash.
ReplansRefused ==
  /\ <>[](status = "ACTIVE" /\ RecoveryAction = "replan")
  /\ <>[][\A p \in Proc : ~InstallBuys(p)]_vars

\* Every workflow that is created ends, completed or stopped fail-closed, unless
\* it runs into a wedge or is refused for ever at one of two places: none waits
\* for an order, a fill or a history page, or stays anywhere else.
Settles ==
  \/ <>[](status # "ACTIVE" \/ Wedged)
  \/ SubmissionsRefused
  \/ ReplansRefused
=============================================================================
