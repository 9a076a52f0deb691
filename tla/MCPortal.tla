------------------------------- MODULE MCPortal -------------------------------
(* Instance of Portal for TLC: see README.md for the bounds.               *)
EXTENDS Portal, TLC

Symmetry == Permutations(Institutions) \cup Permutations(Ids) \cup Permutations(Requests)
=============================================================================
