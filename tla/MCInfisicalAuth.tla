-------------------------- MODULE MCInfisicalAuth --------------------------
(***************************************************************************)
(* Instances of InfisicalAuth for TLC.                                     *)
(***************************************************************************)
EXTENDS InfisicalAuth, TLC

Symmetry == Permutations(Callers)
=============================================================================
