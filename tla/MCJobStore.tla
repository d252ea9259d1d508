----------------------------- MODULE MCJobStore -----------------------------
(* Small instances of JobStore for TLC. *)
EXTENDS JobStore, TLC

Threads == Permutations(Requests) \cup Permutations(Workers)
=============================================================================
