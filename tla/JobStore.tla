------------------------------ MODULE JobStore ------------------------------
(***************************************************************************)
(* The processing scheduler of the API (src/apps/api/jobs.py) and the      *)
(* publication of a run: request threads that admit jobs, the executor's   *)
(* worker threads that run them, the records and run directories they      *)
(* leave on disk, the retention that prunes them, and the crash of the     *)
(* process.                                                                *)
(*                                                                         *)
(* A step is what one thread does between two points at which another      *)
(* thread can observe it: a section under JobStore._lock, or one atomic    *)
(* file replacement (write_json).  The in-memory map of jobs and the       *)
(* record on disk are separate variables because the code writes the       *)
(* record after it has released the lock.                                  *)
(*                                                                         *)
(* A job is named by its number within its project; the run directory it   *)
(* writes has the same number (job_id and run_id are minted together).     *)
(* The stage texts, counters and diagnostics of a job are left out, and so *)
(* is everything a run computes: a run either completes or fails.          *)
(***************************************************************************)
EXTENDS Naturals, Sequences, FiniteSets

CONSTANTS
    Projects,    \* the registered projects
    Fresh,       \* those of Projects that have no job record yet
    Requests,    \* threads that serve HTTP requests
    Workers,     \* threads of the executor (max_concurrent_jobs)
    MaxQueued,   \* settings.max_queued_jobs
    KeepRuns,    \* settings.keep_runs
    Faults,      \* the file writes that may fail (disk full)
    MaxJobs,     \* bound: jobs admitted per project
    MaxFaults,   \* bound: file writes that fail
    MaxCrashes   \* bound: crashes of the process

FaultPoints == {"admit", "start", "publish", "finish", "fail", "interrupt"}

ASSUME JobStoreAssumption ==
    /\ IsFiniteSet(Projects) /\ Projects # {}
    /\ Fresh \subseteq Projects
    /\ IsFiniteSet(Workers) /\ Workers # {}
    /\ MaxQueued \in Nat
    /\ KeepRuns \in Nat
    /\ Faults \subseteq FaultPoints
    /\ MaxJobs \in Nat /\ MaxFaults \in Nat /\ MaxCrashes \in Nat

VARIABLES
    jobs,      \* memory: JobStore._jobs, the latest job of each project
    pool,      \* memory: the executor's queue, a project per submitted job
    req,       \* memory: what each request thread is doing
    wrk,       \* memory: what each worker thread is doing
    booting,   \* projects that repair_orphans has not visited yet
    latest,    \* disk: latest_job.json of each project
    dirs,      \* disk: run directories of each project
    complete,  \* disk: those whose artifacts and reports are all written
    active,    \* disk: active_run.json, the published run (0: none)
    admitted,  \* jobs admitted so far in each project
    faults,    \* file writes that have failed
    crashes    \* crashes so far

memory == <<jobs, pool, req, wrk, booting>>
disk   == <<latest, dirs, complete, active>>
runs   == <<dirs, complete, active>>
bounds == <<faults, crashes>>
vars   == <<memory, disk, admitted, bounds>>

-----------------------------------------------------------------------------
(* Jobs *)

ActiveStates == {"queued", "running"}
JobStates == ActiveStates \cup {"processed", "failed", "none"}
Job == [id : Nat, state : JobStates]
NoJob == [id |-> 0, state |-> "none"]

(* Variant: a queued job does not count. *)
OnlyRunning(job) == job.state = "running"

IsActive(job) == job.state \in ActiveStates

ActiveProjects == {p \in Projects : IsActive(jobs[p])}

Capacity == Cardinality(Workers) + MaxQueued

(* A request thread is at the point `pc` of a get or an enqueue of `proj`, *)
(* with the record `job` in hand.  A worker runs the job numbered `id`, and *)
(* `job` is the record that its last `_update` returned and that it has to *)
(* write.                                                                  *)
ReqPcs == {"idle", "load", "interrupt", "install", "admit", "persist", "submit"}
Request == [pc : ReqPcs, op : {"get", "enqueue"}, proj : Projects, job : Job]
WrkPcs == {"idle", "started", "mkdir", "pipeline", "publish", "prune",
           "finish", "finished", "failing", "failed"}
Worker == [pc : WrkPcs, proj : Projects, id : Nat, job : Job]

(* The points between `_update(state="running")` and the update that ends  *)
(* the job: the worker is running the pipeline of its project.             *)
RunPcs == {"started", "mkdir", "pipeline", "publish", "prune", "finish", "failing"}

NoProject == CHOOSE p \in Projects : TRUE
RestingRequest == [pc |-> "idle", op |-> "get", proj |-> NoProject, job |-> NoJob]
RestingWorker  == [pc |-> "idle", proj |-> NoProject, id |-> 0, job |-> NoJob]

(* The thread goes on to the point `pc`, with another record in hand or not. *)
Goto(r, pc)       == req' = [req EXCEPT ![r].pc = pc]
Carry(r, pc, job) == req' = [req EXCEPT ![r] = [@ EXCEPT !.pc = pc, !.job = job]]
Proceed(w, pc)    == wrk' = [wrk EXCEPT ![w].pc = pc]

(* The call, or the run, is over: it returned or raised. *)
EndCall(r) == req' = [req EXCEPT ![r] = RestingRequest]
EndRun(w)  == wrk' = [wrk EXCEPT ![w] = RestingWorker]

(* `_persist` writes the job's object as it is by then: the object in the  *)
(* map, as long as the map holds that job.                                 *)
Snapshot(p, job) == IF jobs[p].id = job.id THEN jobs[p] ELSE job

Serving == booting = {}

Init ==
    /\ \E past \in [Projects -> {"processed", "failed"}] :
          LET old(p) == IF p \in Fresh THEN NoJob ELSE [id |-> 1, state |-> past[p]]
              has(p) == p \notin Fresh /\ past[p] = "processed"
          IN /\ jobs = [p \in Projects |-> old(p)]
             /\ latest = [p \in Projects |-> old(p)]
             /\ dirs = [p \in Projects |-> IF p \in Fresh THEN {} ELSE {1}]
             /\ complete = [p \in Projects |-> IF has(p) THEN {1} ELSE {}]
             /\ active = [p \in Projects |-> IF has(p) THEN 1 ELSE 0]
    /\ admitted = [p \in Projects |-> IF p \in Fresh THEN 0 ELSE 1]
    /\ pool = <<>>
    /\ req = [r \in Requests |-> RestingRequest]
    /\ wrk = [w \in Workers |-> RestingWorker]
    /\ booting = {}
    /\ faults = 0
    /\ crashes = 0

(* A write that fails raises in the thread that makes it. *)
Fault(point) ==
    /\ point \in Faults
    /\ faults < MaxFaults
    /\ faults' = faults + 1
    /\ UNCHANGED crashes

-----------------------------------------------------------------------------
(* Request threads: get and enqueue *)

(* get: the look in the cache, under the lock.  A get that finds its job   *)
(* returns it and changes nothing.                                         *)
Lookup(r, p, op) ==
    /\ Serving
    /\ req[r].pc = "idle"
    /\ op = "get" => jobs[p] = NoJob
    /\ req' = [req EXCEPT ![r] =
                 [pc |-> IF jobs[p] = NoJob THEN "load" ELSE "admit",
                  op |-> op, proj |-> p, job |-> NoJob]]
    /\ UNCHANGED <<jobs, pool, wrk, booting, disk, admitted, bounds>>

AfterGet(op) == IF op = "get" THEN "idle" ELSE "admit"

(* get: no lock held.  The record on disk is taken for that of a process   *)
(* that died, so one that is still active is about to be marked failed.    *)
LoadRecord(r) ==
    /\ req[r].pc = "load"
    /\ LET job == latest[req[r].proj] IN
         \/ /\ job = NoJob
            /\ Goto(r, AfterGet(req[r].op))
         \/ /\ IsActive(job)
            /\ Carry(r, "interrupt", [job EXCEPT !.state = "failed"])
         \/ /\ job # NoJob /\ ~IsActive(job)
            /\ Carry(r, "install", job)
    /\ UNCHANGED <<jobs, pool, wrk, booting, disk, admitted, bounds>>

(* get: _persist of the job marked "Interrumpido". *)
PersistInterrupted(r) ==
    /\ req[r].pc = "interrupt"
    /\ \/ /\ latest' = [latest EXCEPT ![req[r].proj] = req[r].job]
          /\ Goto(r, "install")
          /\ UNCHANGED bounds
       \/ /\ Fault("interrupt")
          /\ EndCall(r)
          /\ UNCHANGED latest
    /\ UNCHANGED <<jobs, pool, wrk, booting, runs, admitted>>

(* get: under the lock again, and whatever the cache holds by now. *)
InstallLoaded(r) ==
    /\ req[r].pc = "install"
    /\ jobs' = [jobs EXCEPT ![req[r].proj] = req[r].job]
    /\ Carry(r, AfterGet(req[r].op), NoJob)
    /\ UNCHANGED <<pool, wrk, booting, disk, admitted, bounds>>

(* Variants the model checker must refute: the check of the current job, and *)
(* the bound on active jobs, left out or off by one.                       *)
AdmitWhileActive(p) == Cardinality(ActiveProjects) < Capacity
AdmitOneTooMany(p) == ~IsActive(jobs[p]) /\ Cardinality(ActiveProjects) <= Capacity

MayAdmit(p) == ~IsActive(jobs[p]) /\ Cardinality(ActiveProjects) < Capacity

(* enqueue: the decision, under the lock.  An active job is returned as it *)
(* is; a full scheduler raises JobQueueFullError; otherwise a job is made. *)
Admit(r) ==
    /\ req[r].pc = "admit"
    /\ LET p == req[r].proj
           new == [id |-> admitted[p] + 1, state |-> "queued"]
       IN
         \/ /\ ~MayAdmit(p)
            /\ EndCall(r)
            /\ UNCHANGED <<jobs, admitted>>
         \/ /\ MayAdmit(p)
            /\ admitted[p] < MaxJobs
            /\ jobs' = [jobs EXCEPT ![p] = new]
            /\ admitted' = [admitted EXCEPT ![p] = @ + 1]
            /\ Carry(r, "persist", new)
    /\ UNCHANGED <<pool, wrk, booting, disk, bounds>>

(* enqueue: _persist of the new job, the lock released. *)
PersistAdmitted(r) ==
    /\ req[r].pc = "persist"
    /\ \/ /\ latest' = [latest EXCEPT ![req[r].proj] = Snapshot(req[r].proj, req[r].job)]
          /\ Goto(r, "submit")
          /\ UNCHANGED bounds
       \/ /\ Fault("admit")
          /\ EndCall(r)
          /\ UNCHANGED latest
    /\ UNCHANGED <<jobs, pool, wrk, booting, runs, admitted>>

(* enqueue: the executor takes the project, not the job. *)
Submit(r) ==
    /\ req[r].pc = "submit"
    /\ pool' = Append(pool, req[r].proj)
    /\ EndCall(r)
    /\ UNCHANGED <<jobs, wrk, booting, disk, admitted, bounds>>

-----------------------------------------------------------------------------
(* Worker threads: _run and _run_bound *)

(* `_update`, under the lock: the state goes to whatever job the map holds *)
(* for the project, and that job is what the worker writes next.           *)
Marked(p, state) == [jobs[p] EXCEPT !.state = state]

Update(w, p, state, next, id) ==
    /\ jobs' = [jobs EXCEPT ![p] = Marked(p, state)]
    /\ wrk' = [wrk EXCEPT ![w] =
                  [pc |-> next, proj |-> p, id |-> id, job |-> Marked(p, state)]]

(* A worker takes the next project and marks its job running. *)
TakeJob(w) ==
    /\ wrk[w].pc = "idle"
    /\ pool # <<>>
    /\ Update(w, Head(pool), "running", "started", jobs[Head(pool)].id)
    /\ pool' = Tail(pool)
    /\ UNCHANGED <<req, booting, disk, admitted, bounds>>

(* The record of the running job.  This write is outside the try block: if *)
(* it fails the worker drops the job and the map keeps it running.         *)
PersistRunning(w) ==
    /\ wrk[w].pc = "started"
    /\ \/ /\ latest' = [latest EXCEPT ![wrk[w].proj] = Snapshot(wrk[w].proj, wrk[w].job)]
          /\ Proceed(w, "mkdir")
          /\ UNCHANGED bounds
       \/ /\ Fault("start")
          /\ EndRun(w)
          /\ UNCHANGED latest
    /\ UNCHANGED <<jobs, pool, req, booting, runs, admitted>>

(* Variant: mkdir with exist_ok=True. *)
AnyRunDir(p, i) == TRUE

NewRunDir(p, i) == i \notin dirs[p]

(* The run directory is created by this run or the run fails. *)
MakeRunDir(w) ==
    /\ wrk[w].pc = "mkdir"
    /\ LET p == wrk[w].proj
           i == wrk[w].id
       IN
         \/ /\ NewRunDir(p, i)
            /\ dirs' = [dirs EXCEPT ![p] = @ \cup {i}]
            /\ Proceed(w, "pipeline")
         \/ /\ ~NewRunDir(p, i)
            /\ Proceed(w, "failing")
            /\ UNCHANGED dirs
    /\ UNCHANGED <<jobs, pool, req, booting, latest, complete, active, admitted, bounds>>

(* Variants: the pipeline's failure is swallowed; its success is reported  *)
(* and never published.                                                    *)
RunPipelineSwallowed(w) ==
    /\ wrk[w].pc = "pipeline"
    /\ Proceed(w, "publish")
    /\ UNCHANGED <<jobs, pool, req, booting, disk, admitted, bounds>>

RunPipelineUnpublished(w) ==
    /\ wrk[w].pc = "pipeline"
    /\ Proceed(w, "finish")
    /\ UNCHANGED <<jobs, pool, req, booting, disk, admitted, bounds>>

(* run_full_pipeline writes every artifact and report, or raises. *)
RunPipeline(w) ==
    /\ wrk[w].pc = "pipeline"
    /\ \/ /\ complete' = [complete EXCEPT ![wrk[w].proj] = @ \cup {wrk[w].id}]
          /\ Proceed(w, "publish")
       \/ /\ Proceed(w, "failing")
          /\ UNCHANGED complete
    /\ UNCHANGED <<jobs, pool, req, booting, latest, dirs, active, admitted, bounds>>

(* progress: each stage rewrites the record of the job the map holds. *)
Progress(w) ==
    /\ wrk[w].pc = "pipeline"
    /\ latest' = [latest EXCEPT ![wrk[w].proj] = jobs[wrk[w].proj]]
    /\ UNCHANGED <<memory, runs, admitted, bounds>>

(* The pointer readers resolve.  A run fails if it cannot write it, or if  *)
(* it then cannot remove the override of an older report.                  *)
Publish(w) ==
    /\ wrk[w].pc = "publish"
    /\ LET moved == [active EXCEPT ![wrk[w].proj] = wrk[w].id] IN
         \/ /\ active' = moved
            /\ Proceed(w, "prune")
            /\ UNCHANGED bounds
         \/ /\ active' \in {active, moved}
            /\ Fault("publish")
            /\ Proceed(w, "failing")
    /\ UNCHANGED <<jobs, pool, req, booting, latest, dirs, complete, admitted>>

(* The k newest of a set of runs: fewer than k of the set came later. *)
Newest(k, S) == {i \in S : Cardinality({j \in S : j > i}) < k}

KeepAtLeastOne == IF KeepRuns > 1 THEN KeepRuns ELSE 1

Kept(p) == {i \in dirs[p] : i = active[p] \/ i \in Newest(KeepAtLeastOne, dirs[p])}

(* prune_project_storage: the active run and the newest ones stay. *)
Prune(w) ==
    /\ wrk[w].pc = "prune"
    /\ dirs' = [dirs EXCEPT ![wrk[w].proj] = Kept(wrk[w].proj)]
    /\ complete' = [complete EXCEPT ![wrk[w].proj] = @ \cap Kept(wrk[w].proj)]
    /\ Proceed(w, "finish")
    /\ UNCHANGED <<jobs, pool, req, booting, latest, active, admitted, bounds>>

(* The job ends in memory, under the lock ... *)
Finish(w) ==
    /\ wrk[w].pc = "finish"
    /\ Update(w, wrk[w].proj, "processed", "finished", wrk[w].id)
    /\ UNCHANGED <<pool, req, booting, disk, admitted, bounds>>

(* ... and on disk, the lock released.  A write that fails here is caught  *)
(* like a failure of the pipeline.                                         *)
PersistFinished(w) ==
    /\ wrk[w].pc = "finished"
    /\ \/ /\ latest' = [latest EXCEPT ![wrk[w].proj] = Snapshot(wrk[w].proj, wrk[w].job)]
          /\ EndRun(w)
          /\ UNCHANGED bounds
       \/ /\ Fault("finish")
          /\ Proceed(w, "failing")
          /\ UNCHANGED latest
    /\ UNCHANGED <<jobs, pool, req, booting, runs, admitted>>

(* Variant: the except block forgets the job. *)
FailSilently(w) ==
    /\ wrk[w].pc = "failing"
    /\ EndRun(w)
    /\ UNCHANGED <<jobs, pool, req, booting, disk, admitted, bounds>>

(* The except blocks: the job fails in memory ... *)
Fail(w) ==
    /\ wrk[w].pc = "failing"
    /\ Update(w, wrk[w].proj, "failed", "failed", wrk[w].id)
    /\ UNCHANGED <<pool, req, booting, disk, admitted, bounds>>

(* ... and then on disk. *)
PersistFailed(w) ==
    /\ wrk[w].pc = "failed"
    /\ \/ /\ latest' = [latest EXCEPT ![wrk[w].proj] = Snapshot(wrk[w].proj, wrk[w].job)]
          /\ UNCHANGED bounds
       \/ /\ Fault("fail")
          /\ UNCHANGED latest
    /\ EndRun(w)
    /\ UNCHANGED <<jobs, pool, req, booting, runs, admitted>>

-----------------------------------------------------------------------------
(* The process *)

(* The process dies: memory goes, files stay. *)
Crash ==
    /\ crashes < MaxCrashes
    /\ crashes' = crashes + 1
    /\ jobs' = [p \in Projects |-> NoJob]
    /\ pool' = <<>>
    /\ req' = [r \in Requests |-> RestingRequest]
    /\ wrk' = [w \in Workers |-> RestingWorker]
    /\ booting' = Projects
    /\ UNCHANGED <<disk, admitted, faults>>

(* Variant: its stage is written where its state belongs. *)
MisRecovered(job) == IF IsActive(job) THEN [job EXCEPT !.state = "Interrumpido"] ELSE job

(* The record get leaves for a job that a crash interrupted. *)
Recovered(job) == IF IsActive(job) THEN [job EXCEPT !.state = "failed"] ELSE job

(* repair_orphans, before any request is served: get for every project. *)
RepairOrphan(p) ==
    /\ p \in booting
    /\ latest' = [latest EXCEPT ![p] = Recovered(@)]
    /\ jobs' = [jobs EXCEPT ![p] = Recovered(latest[p])]
    /\ booting' = booting \ {p}
    /\ UNCHANGED <<pool, req, wrk, runs, admitted, bounds>>

(* Repair is best-effort: the first record it cannot write ends it, and    *)
(* the projects it has not visited stay out of the cache.                  *)
AbortRepair(p) ==
    /\ p \in booting
    /\ IsActive(latest[p])
    /\ Fault("interrupt")
    /\ booting' = {}
    /\ UNCHANGED <<jobs, pool, req, wrk, disk, admitted>>

-----------------------------------------------------------------------------

RequestStep(r) ==
    \/ LoadRecord(r) \/ PersistInterrupted(r) \/ InstallLoaded(r)
    \/ Admit(r) \/ PersistAdmitted(r) \/ Submit(r)

RunStep(w) ==
    \/ PersistRunning(w) \/ MakeRunDir(w) \/ Progress(w) \/ RunPipeline(w)
    \/ Publish(w) \/ Prune(w) \/ Finish(w) \/ PersistFinished(w) \/ Fail(w) \/ PersistFailed(w)

Next ==
    \/ \E r \in Requests, p \in Projects, op \in {"get", "enqueue"} : Lookup(r, p, op)
    \/ \E r \in Requests : RequestStep(r)
    \/ \E w \in Workers : TakeJob(w)
    \/ \E w \in Workers : RunStep(w)
    \/ Crash
    \/ \E p \in Projects : RepairOrphan(p)
    \/ \E p \in Projects : AbortRepair(p)

(* A thread that has begun a call or a run goes on with it, an idle worker *)
(* takes what is queued, and a process that starts finishes its repair.    *)
(* Calls and crashes are not owed.                                         *)
Fairness ==
    /\ \A r \in Requests : WF_vars(RequestStep(r))
    /\ WF_vars(\E w \in Workers : TakeJob(w))
    /\ \A w \in Workers : WF_vars(RunStep(w))
    /\ WF_vars(\E p \in Projects : RepairOrphan(p))

Spec == Init /\ [][Next]_vars
FairSpec == Spec /\ Fairness

-----------------------------------------------------------------------------
(* What the scheduler promises *)

TypeOK ==
    /\ jobs \in [Projects -> Job]
    /\ pool \in Seq(Projects)
    /\ req \in [Requests -> Request]
    /\ wrk \in [Workers -> Worker]
    /\ booting \subseteq Projects
    /\ latest \in [Projects -> Job]
    /\ dirs \in [Projects -> SUBSET Nat]
    /\ complete \in [Projects -> SUBSET Nat]
    /\ active \in [Projects -> Nat]
    /\ admitted \in [Projects -> Nat]
    /\ faults \in Nat
    /\ crashes \in Nat

(* The admitted jobs of a project that have not ended: in the hands of the *)
(* request that is admitting one, queued in the executor, or being run.    *)
Admitting(p) == {r \in Requests : req[r].proj = p /\ req[r].pc \in {"persist", "submit"}}
Queued(p)    == {i \in DOMAIN pool : pool[i] = p}
Running(p)   == {w \in Workers : wrk[w].proj = p /\ wrk[w].pc \in RunPcs}
Ending(p)    == {w \in Workers : wrk[w].proj = p /\ wrk[w].pc \in {"finished", "failed"}}
Claims(p)    == (Admitting(p) \X {"request"}) \cup (Queued(p) \X {"queue"})
                  \cup (Running(p) \X {"worker"})

(* The cache is warm: every project has a job record when the server       *)
(* starts, repair_orphans brings them all into memory before a request is  *)
(* served, and the write that ends a job does not fail.  The promises below *)
(* that need it say so.                                                    *)
Warm == Fresh = {} /\ Faults \cap {"interrupt", "finish"} = {}

(* Warm.  A project has one run at a time, counted from the moment enqueue admits *)
(* it: no two threads and no two queue entries ever work for it.           *)
OneRunPerProject == \A p \in Projects : \A a, b \in Claims(p) : a = b

(* Admission is bounded: the runs in flight, whoever holds them, never     *)
(* exceed the workers plus the queue the settings allow.                   *)
BoundedAdmission == Cardinality(UNION {Claims(p) \X {p} : p \in Projects}) <= Capacity

(* Unless a write failed, a job that memory or the disk shows as queued or *)
(* running while the server serves has a thread or a queue entry that will *)
(* end it: the home shows no "Procesando" that nobody is working on.       *)
NoGhostJob ==
    Serving /\ faults = 0 =>
        \A p \in Projects :
            /\ IsActive(jobs[p]) => Claims(p) # {}
            /\ IsActive(latest[p]) => Claims(p) # {} \/ Ending(p) # {}

(* The pointer readers resolve names a run that is complete and that the   *)
(* retention has not deleted.                                              *)
ActiveRunStays ==
    \A p \in Projects : active[p] # 0 => active[p] \in dirs[p] \cap complete[p]

(* A job shown as processed, in memory or in its record, is one whose run  *)
(* is published, or has since been replaced by a later one.                *)
ProcessedIsPublished ==
    \A p \in Projects :
        /\ jobs[p].state = "processed" => active[p] >= jobs[p].id
        /\ latest[p].state = "processed" => active[p] >= latest[p].id

(* Run directories are immutable: no two workers write the same one, and   *)
(* no worker writes one that is already complete.                          *)
Writers(p, i) == {w \in Workers : wrk[w].proj = p /\ wrk[w].id = i /\ wrk[w].pc = "pipeline"}
RunDirsImmutable ==
    \A p \in Projects : \A i \in 0..MaxJobs :
        /\ Cardinality(Writers(p, i)) <= 1
        /\ i \in complete[p] => Writers(p, i) = {}

(* The record on disk is that of the job in flight, once it was written:   *)
(* a crash finds the job it interrupted.                                   *)
InFlight(p) == Queued(p) # {} \/ Running(p) # {}
RecordNamesJobInFlight ==
    \A p \in Projects : InFlight(p) => latest[p].id = jobs[p].id

(* The scheduler implements its promise (ProjectRuns): the run in progress *)
(* of a project is its job while the map shows it active.                  *)
Promise == INSTANCE ProjectRuns WITH
    current   <- [p \in Projects |-> IF IsActive(jobs[p]) THEN jobs[p].id ELSE 0],
    published <- active,
    last      <- admitted

ImplementsProjectRuns == Promise!Spec

(* Every admitted job ends, unless the process dies or a write failed.     *)
JobsEnd ==
    \A p \in Projects :
        IsActive(jobs[p]) ~> (~IsActive(jobs[p]) \/ faults > 0)

=============================================================================
