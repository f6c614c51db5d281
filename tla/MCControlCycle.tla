--------------------------- MODULE MCControlCycle ---------------------------
(* Model-checking instances of ControlCycle: the cfg files MCControl*. *)
EXTENDS ControlCycle


(* Fairness for the liveness properties: the timer keeps starting cycles, and an
   invocation runs to its end unless it dies.  The runner's lock lets one
   invocation in at a time, so one condition on all processes is enough.  A
   cycle may be refused whenever it has a workflow to work on or a trade to plan,
   and for ever, and nothing makes a workflow end. *)
Fairness == WF_vars(\E p \in Proc : Cycle(p) \/ Refuse(p))

FairSpec == Spec /\ Fairness

\* The durable control state has caught up with the signal and the frozen month.
InSync ==
  /\ Quiet /\ Unpromoted = {}
  /\ strategy = signal.mode /\ overlay = signal.rung
  /\ member = frozen /\ mstate = "ACTIVE"

CanMove(to) == strategy = to \/ <<strategy, to>> \in StrategyMoves

\* The states no further cycle gets out of: a workflow stopped for manual work; a
\* changed Top2 set, whose new mix the old membership refuses; and a strategy
\* state the latest or the executed signal has left by more than one move.
Wedged ==
  \/ \E d \in Unfinished : flows[d].status = "STOPPED"
  \/ mstate = "REBALANCE_PENDING"
  \/ \E d \in Unpromoted : ~CanMove(d.signal.mode)
  \/ Quiet /\ ~CanMove(signal.mode)

\* A workflow that never ends: it has something to submit for a signal that is no
\* longer the latest, or one of the reasons that TwoPhaseWorkflow has (an order
\* cancelled after a partial fill, a BUY that does not fit the cash, a replan or a
\* submission that is refused every time).
NeverEnds == <>[](\E d \in Unfinished : flows[d].status = "ACTIVE")

\* The signal takes a trade, and from some moment on no cycle gets a plan for it:
\* the session or the quotes never fit, or the strategy has no value left.
NeverPlanned ==
  /\ <>[](Quiet /\ overlay # signal.rung)
  /\ <>[][\A p \in Proc : ~Orders(p)]_vars

\* Once the signal and the month stop changing the machine catches up, unless it
\* ends in a wedge, or its workflow never ends or is never planned.
Converges == <>[](InSync \/ Wedged) \/ NeverEnds \/ NeverPlanned

\* "A cycle first finalizes any COMPLETE M7 workflow whose control target is
\* not yet promoted": it never stays unpromoted.
CompletedIsPromoted == []<>(Unpromoted = {})
=============================================================================
