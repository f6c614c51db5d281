---------------------------- MODULE MCFillBooking ----------------------------
(* Model-checking instance of FillBooking: MCFillBooking.cfg. *)
EXTENDS FillBooking, TLC

\* One rounds down and is free of charge, one rounds up (a tie) and costs.
\* The second fill of an order is always of the second kind.
Free == [net |-> 14, fee |-> 3]
Charged == [net |-> 25, fee |-> -6]
MCImpact == <<{Free, Charged}, {Charged}>>

\* A debt of two cents, repaid by the first fill or two.
MCOpeningCash == -2

(* Fairness for the liveness property: the reconciliation is started again and
   again and runs on unless it dies, and the broker works off its orders. *)
Fairness ==
  /\ WF_vars(\E p \in Proc : Reconcile(p))
  /\ WF_vars(\E o \in Order : Trade(o))

FairSpec == Spec /\ Fairness

\* What keeps a fill from ever being booked: the phase has ended (see
\* FilledIsBooked), the broker has restated a booked fill, or the account has
\* more history than a read follows, with no way to stop earlier.
GivenUp ==
  \/ status # "ACTIVE"
  \/ \E r \in ledger : impact[r.fill] # r.impact
  \/ Len(log) > MaxPages * PageSize

\* In the end every fill that was executed is booked and every order that was
\* filled is marked so, or one of these happens.
FillsGetBooked ==
  []<>(\/ GivenUp
       \/ /\ \A f \in DOMAIN impact : \E r \in ledger : r.fill = f
          /\ \A o \in Order : order[o].st = "FILLED" => leg[o] = "FILLED")
=============================================================================
