-------------------------- MODULE MCFailureBackoff --------------------------
(***************************************************************************)
(* Finite instances of FailureBackoff.  Callers are interchangeable.       *)
(***************************************************************************)
EXTENDS FailureBackoff, TLC

CallerSymmetry == Permutations(Caller)
=============================================================================
