-------------------------- MODULE MCRunLifecycle --------------------------
(* Model-checking instances of RunLifecycle. *)
EXTENDS RunInvariants, TLC

PodSymmetry == Permutations(Pods)
PostSymmetry == Permutations(Posts)
Symmetry == PodSymmetry \cup PostSymmetry
===========================================================================
