------------------------------ MODULE MCIssuance ------------------------------
(* Instance of Issuance for TLC: see README.md for the bounds.             *)
EXTENDS Issuance, TLC

\* Calls are interchangeable.
Symmetry == Permutations(Calls)
=============================================================================
