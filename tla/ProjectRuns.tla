----------------------------- MODULE ProjectRuns -----------------------------
(***************************************************************************)
(* What the processing scheduler promises the rest of the API, with no     *)
(* threads, queues, files or caches: a project has at most one run in      *)
(* progress, no more than Capacity projects have one, only the run in      *)
(* progress can be published, and runs are numbered in the order in which  *)
(* they begin.  The docstring of src/apps/api/jobs.py names these promises *)
(* ("bounded admission, one active run per project").                      *)
(***************************************************************************)
EXTENDS Naturals, FiniteSets

CONSTANTS Projects, Capacity

VARIABLES
    current,    \* the number of the run in progress of each project, or 0
    published,  \* the number of the run readers see, or 0
    last        \* the number of the last run begun

vars == <<current, published, last>>

Busy == {p \in Projects : current[p] # 0}

Init ==
    /\ current = [p \in Projects |-> 0]
    /\ last \in [Projects -> Nat]
    /\ published \in [Projects -> Nat]
    /\ \A p \in Projects : published[p] <= last[p]

Begin(p) ==
    /\ current[p] = 0
    /\ Cardinality(Busy) < Capacity
    /\ last' = [last EXCEPT ![p] = @ + 1]
    /\ current' = [current EXCEPT ![p] = last[p] + 1]
    /\ UNCHANGED published

Publish(p) ==
    /\ current[p] # 0
    /\ published' = [published EXCEPT ![p] = current[p]]
    /\ UNCHANGED <<current, last>>

End(p) ==
    /\ current[p] # 0
    /\ current' = [current EXCEPT ![p] = 0]
    /\ UNCHANGED <<published, last>>

(* The process stops: every run in progress is lost. *)
Lose ==
    /\ current' = [p \in Projects |-> 0]
    /\ UNCHANGED <<published, last>>

Next == (\E p \in Projects : Begin(p) \/ Publish(p) \/ End(p)) \/ Lose

Spec == Init /\ [][Next]_vars
=============================================================================
