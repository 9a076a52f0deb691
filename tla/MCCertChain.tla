----------------------------- MODULE MCCertChain -----------------------------
(* Instance of CertChain for TLC: see README.md for the bounds.            *)
EXTENDS CertChain
=============================================================================
