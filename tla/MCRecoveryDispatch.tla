------------------------- MODULE MCRecoveryDispatch -------------------------
(***************************************************************************)
(* Instances of RecoveryDispatch and RuntimeTarget. Below an old ATH of 10 *)
(* a close of 7 is the first rung of the ladder and 3 the last, and 7 is   *)
(* the handoff after a 3; below 7, a 3 is the last rung. With Jumps the    *)
(* old ATH is reached in a leap only.                                      *)
(***************************************************************************)
EXTENDS RuntimeTarget

Closes == {3, 7, 10}
Jumps == {4, 6, 10}
=============================================================================
