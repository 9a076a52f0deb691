---------------------------- MODULE MCVerification ----------------------------
(* Instance of Verification for TLC: see README.md for the bounds.         *)
EXTENDS Verification, TLC

\* Sessions are interchangeable.
Symmetry == Permutations(Sessions)
=============================================================================
