-------------------------- MODULE MCCredentialToken --------------------------
(* Instance of CredentialToken for TLC: see README.md for the bounds.      *)
EXTENDS CredentialToken, TLC

\* Addresses are interchangeable: no operator of the contract orders them.
Symmetry == Permutations(Addresses)
=============================================================================
