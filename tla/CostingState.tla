---------------------------- MODULE CostingState ----------------------------
(***************************************************************************)
(* The costing state of one project: the parameters its users edit         *)
(* (costing_overrides.json), the verdicts of the review (reviews.json), the *)
(* report recomputed from them (cost_report_override.json) and the report  *)
(* of the published run.  Requests that recompute run concurrently with    *)
(* each other and with the processing job of the project.                  *)
(*                                                                         *)
(* A step reads or replaces one file (write_json replaces it atomically).  *)
(* Most requests hold the project's recompute lock (dependencies.py); the  *)
(* job, the catalog and the copilot do not.  A report is represented by the *)
(* inputs it was computed from.  Verdicts belong to elements, whose        *)
(* identity survives a new run: moving them to the run's new keys leaves   *)
(* them as they are.  The decisions of the structural model, the saved     *)
(* versions and the broadcast of each change are left out.                 *)
(***************************************************************************)
EXTENDS Naturals

CONSTANTS
    Callers,   \* threads that serve requests
    Elements,  \* the detected elements
    Verdicts,  \* what a review says of an element
    Unseen,    \* the verdict of an element nobody reviewed
    Nobody,    \* no caller
    None,      \* no file
    MaxCalls,  \* bound: requests served
    MaxRuns,   \* bound: runs published
    MaxCrashes \* bound: crashes of the process

ASSUME CostingAssumption ==
    /\ Nobody \notin Callers
    /\ Elements # {}
    /\ Unseen \in Verdicts
    /\ MaxCalls \in Nat /\ MaxRuns \in Nat /\ MaxCrashes \in Nat

VARIABLES
    overrides,  \* disk: costing_overrides.json
    reviews,    \* disk: reviews.json
    run,        \* disk: the published run, or 0
    report,     \* disk: that run's cost_report.json
    derived,    \* disk: cost_report_override.json
    lock,       \* memory: who holds project_recompute_lock
    call,       \* memory: what each caller is doing
    job,        \* memory: what the project's processing job is doing
    overlapped, \* history: writers that no lock serialises have overlapped, or a crash cut one
    calls,      \* requests served
    crashes     \* crashes so far

disk == <<overrides, reviews, run, report, derived>>
vars == <<disk, lock, call, job, overlapped, calls, crashes>>

-----------------------------------------------------------------------------

Overrides == [version : Nat, by : Callers \cup {Nobody}]
DefaultOverrides == [version |-> 0, by |-> Nobody]
Reviews == [Elements -> Verdicts]
NoReviews == [e \in Elements |-> Unseen]
Report == [run : Nat, overrides : Overrides, reviews : Reviews]

(* A file that is missing is not taken for one that is there. *)
ASSUME NoneAssumption == None \notin Overrides /\ None \notin Report

(* "recompute" saves edited parameters, "review" a verdict, and "catalog"  *)
(* recomputes because a price or an alias of the catalog changed.          *)
Ops == {"recompute", "review", "catalog"}
CallPcs == {"idle", "lock", "check", "look", "mark", "load", "input", "cost",
            "write", "save"}
Call == [pc : CallPcs, op : Ops, element : Elements, verdict : Verdicts,
         overrides : Overrides, reviews : Reviews, run : Nat]
JobPcs == {"idle", "overrides", "reviews", "rekey", "publish", "unlink"}
Job == [pc : JobPcs, overrides : Overrides, reviews : Reviews]

Resting == [pc |-> "idle", op |-> "catalog", element |-> CHOOSE e \in Elements : TRUE,
            verdict |-> Unseen, overrides |-> DefaultOverrides, reviews |-> NoReviews,
            run |-> 0]
NoJob == [pc |-> "idle", overrides |-> DefaultOverrides, reviews |-> NoReviews]

(* The taller's defaults, which a new project gets when there are any. *)
WorkspaceDefaults == [version |-> 1, by |-> Nobody]

Init ==
    /\ overrides \in {None, WorkspaceDefaults}
    /\ reviews = NoReviews
    /\ run = 0
    /\ report = None
    /\ derived = None
    /\ lock = Nobody
    /\ call = [c \in Callers |-> Resting]
    /\ job = NoJob
    /\ overlapped = FALSE
    /\ calls = 0
    /\ crashes = 0

Calling(c) == call[c].pc # "idle"
JobActive == job.pc # "idle"

(* The caller is at another point, or done and holding nothing. *)
At(c, pc) == call' = [call EXCEPT ![c].pc = pc]
Leave(c) ==
    /\ call' = [call EXCEPT ![c] = Resting]
    /\ lock' = IF lock = c THEN Nobody ELSE lock

(* load_overrides(...) or CostingOverrides() *)
Stored == IF overrides = None THEN DefaultOverrides ELSE overrides

-----------------------------------------------------------------------------
(* Requests *)

Begin(c, op) ==
    /\ ~Calling(c)
    /\ calls < MaxCalls
    /\ calls' = calls + 1
    /\ overlapped' = (overlapped \/ JobActive
                        \/ \E d \in Callers : Calling(d) /\ "catalog" \in {op, call[d].op})
    /\ UNCHANGED <<disk, lock, job, crashes>>

(* POST recompute: parameters edited on top of the version the client saw. *)
(* It is refused while a job is active, a check made before the lock.      *)
Recompute(c, seen) ==
    /\ ~JobActive
    /\ Begin(c, "recompute")
    /\ call' = [call EXCEPT ![c] =
                  [Resting EXCEPT !.pc = "lock", !.op = "recompute",
                                  !.overrides = [version |-> seen, by |-> c]]]

(* PUT reviews/detections/{key}. *)
SetDetectionReview(c, e, v) ==
    /\ Begin(c, "review")
    /\ call' = [call EXCEPT ![c] =
                  [Resting EXCEPT !.pc = "lock", !.op = "review",
                                  !.element = e, !.verdict = v]]

(* A change of the catalog, or one the copilot applies: no lock is taken. *)
RecomputeProject(c) ==
    /\ Begin(c, "catalog")
    /\ call' = [call EXCEPT ![c] = [Resting EXCEPT !.pc = "load"]]

(* Variant: the lock is not taken. *)
WalkIn(c) ==
    /\ call[c].pc = "lock"
    /\ At(c, IF call[c].op = "recompute" THEN "check" ELSE "look")
    /\ UNCHANGED <<disk, lock, job, overlapped, calls, crashes>>

Acquire(c) ==
    /\ call[c].pc = "lock"
    /\ lock = Nobody
    /\ lock' = c
    /\ At(c, IF call[c].op = "recompute" THEN "check" ELSE "look")
    /\ UNCHANGED <<disk, job, overlapped, calls, crashes>>

(* Variants: an edit is saved whatever version it was made on; a refused   *)
(* one leaves the lock taken.                                              *)
SkipVersion(c) ==
    /\ call[c].pc = "check"
    /\ call' = [call EXCEPT ![c].pc = "input", ![c].overrides.version = @ + 1]
    /\ UNCHANGED <<disk, lock, job, overlapped, calls, crashes>>

CheckVersionHolding(c) ==
    /\ call[c].pc = "check"
    /\ call' = IF call[c].overrides.version = Stored.version
               THEN [call EXCEPT ![c].pc = "input", ![c].overrides.version = @ + 1]
               ELSE [call EXCEPT ![c] = Resting]
    /\ UNCHANGED <<disk, lock, job, overlapped, calls, crashes>>

(* The optimistic check: an edit made on another version is refused (409). *)
CheckVersion(c) ==
    /\ call[c].pc = "check"
    /\ \/ /\ call[c].overrides.version = Stored.version
          /\ call' = [call EXCEPT ![c].pc = "input", ![c].overrides.version = @ + 1]
          /\ UNCHANGED lock
       \/ /\ call[c].overrides.version # Stored.version
          /\ Leave(c)
    /\ UNCHANGED <<disk, job, overlapped, calls, crashes>>

LoadReviews(c) ==
    /\ call[c].pc = "look"
    /\ call' = [call EXCEPT ![c].pc = "mark", ![c].reviews = reviews]
    /\ UNCHANGED <<disk, lock, job, overlapped, calls, crashes>>

Marked(c) == [call[c].reviews EXCEPT ![call[c].element] = call[c].verdict]

(* From here on the request recomputes as any other. *)
SaveReviews(c) ==
    /\ call[c].pc = "mark"
    /\ reviews' = Marked(c)
    /\ call' = [call EXCEPT ![c] = [Resting EXCEPT !.pc = "load", !.op = "review"]]
    /\ UNCHANGED <<overrides, run, report, derived, lock, job, overlapped, calls, crashes>>

(* Variant: the file is loaded as it is, there or not. *)
LoadFile(c) ==
    /\ call[c].pc = "load"
    /\ call' = [call EXCEPT ![c].pc = "input", ![c].overrides = overrides]
    /\ UNCHANGED <<disk, lock, job, overlapped, calls, crashes>>

LoadOverrides(c) ==
    /\ call[c].pc = "load"
    /\ call' = [call EXCEPT ![c].pc = "input", ![c].overrides = Stored]
    /\ UNCHANGED <<disk, lock, job, overlapped, calls, crashes>>

(* recompute_and_persist: the inputs of the run that is published now; a   *)
(* project without one has nothing to recompute.                           *)
LoadInputs(c) ==
    /\ call[c].pc = "input"
    /\ \/ /\ run # 0
          /\ call' = [call EXCEPT ![c].pc = "cost", ![c].run = run]
          /\ UNCHANGED lock
       \/ /\ run = 0
          /\ Leave(c)
    /\ UNCHANGED <<disk, job, overlapped, calls, crashes>>

(* recompute_and_persist: the verdicts, and the report built with them. *)
BuildReport(c) ==
    /\ call[c].pc = "cost"
    /\ call' = [call EXCEPT ![c].pc = "write", ![c].reviews = reviews]
    /\ UNCHANGED <<disk, lock, job, overlapped, calls, crashes>>

(* recompute_and_persist: the report first ... *)
WriteReport(c) ==
    /\ call[c].pc = "write"
    /\ derived' = [run |-> call[c].run, overrides |-> call[c].overrides,
                   reviews |-> call[c].reviews]
    /\ At(c, "save")
    /\ UNCHANGED <<overrides, reviews, run, report, lock, job, overlapped, calls, crashes>>

(* ... and then the parameters. *)
SaveOverrides(c) ==
    /\ call[c].pc = "save"
    /\ overrides' = call[c].overrides
    /\ Leave(c)
    /\ UNCHANGED <<reviews, run, report, derived, job, overlapped, calls, crashes>>

-----------------------------------------------------------------------------
(* The processing job: one at a time (JobStore), and no lock. *)

StartJob ==
    /\ ~JobActive
    /\ run < MaxRuns
    /\ job' = [NoJob EXCEPT !.pc = "overrides"]
    /\ overlapped' = (overlapped \/ \E c \in Callers : Calling(c))
    /\ UNCHANGED <<disk, lock, call, calls, crashes>>

ReadOverrides ==
    /\ job.pc = "overrides"
    /\ job' = [job EXCEPT !.pc = "reviews", !.overrides = Stored]
    /\ UNCHANGED <<disk, lock, call, overlapped, calls, crashes>>

(* The verdicts are read, and saved again when some changed keys. *)
ReadReviews ==
    /\ job.pc = "reviews"
    /\ \E next \in {"rekey", "publish"} :
          job' = [job EXCEPT !.pc = next, !.reviews = reviews]
    /\ UNCHANGED <<disk, lock, call, overlapped, calls, crashes>>

SaveRekeyed ==
    /\ job.pc = "rekey"
    /\ reviews' = job.reviews
    /\ job' = [job EXCEPT !.pc = "publish"]
    /\ UNCHANGED <<overrides, run, report, derived, lock, call, overlapped, calls, crashes>>

(* The run's report is complete and the pointer moves to it. *)
PublishRun ==
    /\ job.pc = "publish"
    /\ run' = run + 1
    /\ report' = [run |-> run + 1, overrides |-> job.overrides, reviews |-> job.reviews]
    /\ job' = [NoJob EXCEPT !.pc = "unlink"]
    /\ UNCHANGED <<overrides, reviews, derived, lock, call, overlapped, calls, crashes>>

(* Variant: the older derived report stays. *)
KeepDerived ==
    /\ job.pc = "unlink"
    /\ job' = NoJob
    /\ UNCHANGED <<disk, lock, call, overlapped, calls, crashes>>

(* A report derived from an older run is no longer the project's. *)
DropDerived ==
    /\ job.pc = "unlink"
    /\ derived' = None
    /\ job' = NoJob
    /\ UNCHANGED <<overrides, reviews, run, report, lock, call, overlapped, calls, crashes>>

(* The pipeline fails: nothing is published. *)
JobFails ==
    /\ job.pc \in {"overrides", "reviews", "rekey", "publish"}
    /\ job' = NoJob
    /\ UNCHANGED <<disk, lock, call, overlapped, calls, crashes>>

(* The process dies: memory goes, files stay. *)
Crash ==
    /\ crashes < MaxCrashes
    /\ crashes' = crashes + 1
    /\ lock' = Nobody
    /\ call' = [c \in Callers |-> Resting]
    /\ job' = NoJob
    /\ overlapped' = (overlapped \/ JobActive \/ \E c \in Callers : Calling(c))
    /\ UNCHANGED <<disk, calls>>

-----------------------------------------------------------------------------

CallStep(c) ==
    \/ CheckVersion(c) \/ LoadReviews(c) \/ SaveReviews(c) \/ LoadOverrides(c)
    \/ LoadInputs(c) \/ BuildReport(c) \/ WriteReport(c) \/ SaveOverrides(c)

JobStep == ReadOverrides \/ ReadReviews \/ SaveRekeyed \/ PublishRun \/ DropDerived \/ JobFails

Next ==
    \/ \E c \in Callers : \E seen \in 0..Stored.version : Recompute(c, seen)
    \/ \E c \in Callers, e \in Elements, v \in Verdicts : SetDetectionReview(c, e, v)
    \/ \E c \in Callers : RecomputeProject(c)
    \/ \E c \in Callers : Acquire(c)
    \/ \E c \in Callers : CallStep(c)
    \/ StartJob
    \/ JobStep
    \/ Crash

(* A thread that runs goes on, and one that waits for a free lock gets it. *)
(* No request, job or crash is owed.                                       *)
Fairness ==
    /\ \A c \in Callers : WF_vars(Acquire(c)) /\ WF_vars(CallStep(c))
    /\ WF_vars(JobStep)

Spec == Init /\ [][Next]_vars
FairSpec == Spec /\ Fairness

-----------------------------------------------------------------------------
(* What the costing state promises *)

TypeOK ==
    /\ overrides \in Overrides \cup {None}
    /\ reviews \in Reviews
    /\ run \in Nat
    /\ report \in Report \cup {None}
    /\ derived \in Report \cup {None}
    /\ lock \in Callers \cup {Nobody}
    /\ call \in [Callers -> Call]
    /\ job \in Job
    /\ overlapped \in BOOLEAN
    /\ calls \in Nat /\ crashes \in Nat

(* Parameters change only to the version after the one they replace, so    *)
(* every edit was made by someone who saw what it replaces.                *)
BuildsOnSeen == Stored' # Stored => Stored'.version = Stored.version + 1

(* A verdict changes only when the request that gives it saves it. *)
SaysSo(c, e) == call[c].pc = "mark" /\ call[c].element = e /\ call[c].verdict = reviews'[e]
ChangedByReview == \A e \in Elements : reviews'[e] # reviews[e] => \E c \in Callers : SaysSo(c, e)

(* The docstring of CostingOverrides: "no silent last-write-wins on        *)
(* money-bearing parameters", whoever recomputes.                          *)
EditsBuildOnSeen == [][BuildsOnSeen]_vars

(* pipeline.py: "Human corrections survive a reprocess". *)
ReviewsSurvive == [][ChangedByReview]_vars

(* The requests that take the lock keep both promises among themselves,    *)
(* however they interleave, and so do a job or a change of the catalog     *)
(* that overlaps nobody.                                                   *)
LockedEditsBuildOnSeen == [][overlapped' \/ BuildsOnSeen]_vars
LockedReviewsSurvive == [][overlapped' \/ ChangedByReview]_vars

(* What readers are shown as the cost report. *)
Shown == IF derived # None THEN derived ELSE report

AtRest == ~JobActive /\ \A c \in Callers : ~Calling(c)

(* At rest, if locked requests alone have overlapped, readers are shown the *)
(* published run costed with the parameters and verdicts that are stored.  *)
ShownIsCurrent ==
    AtRest /\ ~overlapped /\ run # 0 =>
        Shown = [run |-> run, overrides |-> Stored, reviews |-> reviews]

(* jobs.py: a report derived from an older run does not outlive the        *)
(* publication of a new one.                                               *)
DerivedFollowsRun == AtRest /\ derived # None => derived.run = run

(* Every request ends: the lock is always released. *)
CallsEnd == \A c \in Callers : Calling(c) ~> ~Calling(c)

=============================================================================
