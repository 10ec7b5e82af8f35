-------------------------- MODULE MCSecretsDriver --------------------------
(***************************************************************************)
(* Instances of SecretsDriver for TLC.                                     *)
(***************************************************************************)
EXTENDS SecretsDriver, TLC

CONSTANTS n1, n2, s1, s2, p1, p2

\* Labelled secrets: every service reads secret n at one path.
Labelled == [n \in Names |-> [s \in Services |-> IF n = n1 THEN p1 ELSE p2]]
=============================================================================
