------------------------------ MODULE MCBrowser ------------------------------
(* Instance of Browser for TLC: see README.md for the bounds.              *)
EXTENDS Browser, TLC

\* Attempts are interchangeable, and so are keys.
Symmetry == Permutations(Logins) \cup Permutations(Keys)
=============================================================================
