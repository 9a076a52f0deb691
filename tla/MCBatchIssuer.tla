---------------------------- MODULE MCBatchIssuer ----------------------------
(* Instance of BatchIssuer for TLC: see README.md for the bounds.          *)
EXTENDS BatchIssuer, TLC

Symmetry == Permutations(Addresses)
=============================================================================
