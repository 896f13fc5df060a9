---------------------------- MODULE MCUsageQuota ----------------------------
(* UsageQuota for TLC: rows and requests are interchangeable.               *)
EXTENDS UsageQuota, TLC

Symmetry == Permutations(Rows) \cup Permutations(Requests)
=============================================================================
