----------------------------- MODULE MCBulkIssue -----------------------------
(* Instance of BulkIssue for TLC: see README.md for the bounds.            *)
EXTENDS BulkIssue
=============================================================================
