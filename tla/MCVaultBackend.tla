--------------------------- MODULE MCVaultBackend ---------------------------
(***************************************************************************)
(* Instances of VaultBackend for TLC.                                      *)
(***************************************************************************)
EXTENDS VaultBackend, TLC

Symmetry == Permutations(Readers)
=============================================================================
