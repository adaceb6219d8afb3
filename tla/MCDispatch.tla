---------------------------- MODULE MCDispatch ----------------------------
(* Model-checking instance of Dispatch. *)
EXTENDS Dispatch, TLC

RunSymmetry == Permutations(Runs)
===========================================================================
