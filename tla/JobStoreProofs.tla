--------------------------- MODULE JobStoreProofs ---------------------------
(* What JobStore guarantees for every value of its constants.              *)
EXTENDS JobStore, FiniteSetTheorems, TLAPS

-----------------------------------------------------------------------------
(* Types *)

LEMMA NoProjectType == NoProject \in Projects
BY JobStoreAssumption DEF NoProject

LEMMA RestingTypes == RestingRequest \in Request /\ RestingWorker \in Worker
BY NoProjectType
   DEF RestingRequest, RestingWorker, Request, Worker, ReqPcs, WrkPcs, NoJob, Job,
       JobStates, ActiveStates

LEMMA InitTypeOK == Init => TypeOK
<1> SUFFICES ASSUME Init PROVE TypeOK
  OBVIOUS
<1> USE RestingTypes DEF Init, TypeOK
<1>1. jobs \in [Projects -> Job] /\ latest \in [Projects -> Job]
  BY DEF NoJob, Job, JobStates, ActiveStates
<1>2. pool \in Seq(Projects)
  OBVIOUS
<1>3. QED
  BY <1>1, <1>2

(* What a move of one thread leaves of the threads' state. *)
OthersWait(r) == \A q \in Requests : q # r => req'[q] = req[q]
OthersRun(w) == \A v \in Workers : v # w => wrk'[v] = wrk[v]

LEMMA RequestMoves ==
  ASSUME req \in [Requests -> Request], NEW r \in Requests
  PROVE  /\ \A pc \in ReqPcs : Goto(r, pc) =>
              /\ req' \in [Requests -> Request] /\ OthersWait(r)
              /\ req'[r].pc = pc /\ req'[r].proj = req[r].proj /\ req'[r].job = req[r].job
         /\ \A pc \in ReqPcs, job \in Job : Carry(r, pc, job) =>
              /\ req' \in [Requests -> Request] /\ OthersWait(r)
              /\ req'[r].pc = pc /\ req'[r].proj = req[r].proj /\ req'[r].job = job
         /\ EndCall(r) =>
              /\ req' \in [Requests -> Request] /\ OthersWait(r)
              /\ req'[r].pc = "idle"
<1>1. req[r] \in Request
  OBVIOUS
<1>2. \A pc \in ReqPcs : [req[r] EXCEPT !.pc = pc] \in Request
  BY <1>1 DEF Request
<1>3. \A pc \in ReqPcs, job \in Job : [req[r] EXCEPT !.pc = pc, !.job = job] \in Request
  BY <1>1 DEF Request
<1>4. ASSUME NEW pc \in ReqPcs, Goto(r, pc)
      PROVE  /\ req' \in [Requests -> Request] /\ OthersWait(r)
             /\ req'[r].pc = pc /\ req'[r].proj = req[r].proj /\ req'[r].job = req[r].job
  <2>1. req' = [req EXCEPT ![r] = [req[r] EXCEPT !.pc = pc]]
    BY <1>4 DEF Goto
  <2>2. req'[r] = [req[r] EXCEPT !.pc = pc]
    BY <2>1
  <2>3. QED
    BY <1>1, <1>2, <2>1, <2>2 DEF OthersWait, Request
<1>5. ASSUME NEW pc \in ReqPcs, NEW job \in Job, Carry(r, pc, job)
      PROVE  /\ req' \in [Requests -> Request] /\ OthersWait(r)
             /\ req'[r].pc = pc /\ req'[r].proj = req[r].proj /\ req'[r].job = job
  <2>1. req' = [req EXCEPT ![r] = [req[r] EXCEPT !.pc = pc, !.job = job]]
    BY <1>5 DEF Carry
  <2>2. req'[r] = [req[r] EXCEPT !.pc = pc, !.job = job]
    BY <2>1
  <2>3. QED
    BY <1>1, <1>3, <2>1, <2>2 DEF OthersWait, Request
<1>6. ASSUME EndCall(r)
      PROVE  req' \in [Requests -> Request] /\ OthersWait(r) /\ req'[r].pc = "idle"
  BY <1>6, RestingTypes DEF EndCall, OthersWait, RestingRequest
<1>7. QED
  BY <1>4, <1>5, <1>6

LEMMA WorkerMoves ==
  ASSUME wrk \in [Workers -> Worker], NEW w \in Workers
  PROVE  /\ \A pc \in WrkPcs : Proceed(w, pc) =>
              /\ wrk' \in [Workers -> Worker] /\ OthersRun(w)
              /\ wrk'[w].pc = pc /\ wrk'[w].proj = wrk[w].proj
              /\ wrk'[w].id = wrk[w].id /\ wrk'[w].job = wrk[w].job
         /\ EndRun(w) =>
              wrk' \in [Workers -> Worker] /\ OthersRun(w) /\ wrk'[w].pc = "idle"
<1>1. wrk[w] \in Worker
  OBVIOUS
<1>2. \A pc \in WrkPcs : [wrk[w] EXCEPT !.pc = pc] \in Worker
  BY <1>1 DEF Worker
<1>3. ASSUME NEW pc \in WrkPcs, Proceed(w, pc)
      PROVE  /\ wrk' \in [Workers -> Worker] /\ OthersRun(w)
             /\ wrk'[w].pc = pc /\ wrk'[w].proj = wrk[w].proj
             /\ wrk'[w].id = wrk[w].id /\ wrk'[w].job = wrk[w].job
  <2>1. wrk' = [wrk EXCEPT ![w] = [wrk[w] EXCEPT !.pc = pc]]
    BY <1>3 DEF Proceed
  <2>2. wrk'[w] = [wrk[w] EXCEPT !.pc = pc]
    BY <2>1
  <2>3. QED
    BY <1>1, <1>2, <2>1, <2>2 DEF OthersRun, Worker
<1>4. ASSUME EndRun(w)
      PROVE  wrk' \in [Workers -> Worker] /\ OthersRun(w) /\ wrk'[w].pc = "idle"
  BY <1>4, RestingTypes DEF EndRun, OthersRun, RestingWorker
<1>5. QED
  BY <1>3, <1>4

(* An update marks the project's job and moves only its worker. *)
LEMMA UpdateMoves ==
  ASSUME jobs \in [Projects -> Job], wrk \in [Workers -> Worker],
         NEW w \in Workers, NEW p \in Projects, NEW st \in JobStates,
         NEW next \in WrkPcs, NEW i \in Nat, Update(w, p, st, next, i)
  PROVE  /\ jobs' \in [Projects -> Job]
         /\ \A q \in Projects : q # p => jobs'[q] = jobs[q]
         /\ jobs'[p].id = jobs[p].id /\ jobs'[p].state = st
         /\ wrk' \in [Workers -> Worker] /\ OthersRun(w)
         /\ wrk'[w].pc = next /\ wrk'[w].proj = p /\ wrk'[w].id = i
         /\ wrk'[w].job = jobs'[p]
<1>1. Marked(p, st) \in Job /\ Marked(p, st).id = jobs[p].id /\ Marked(p, st).state = st
  BY DEF Marked, Job
<1>2. QED
  BY <1>1 DEF Update, OthersRun, Worker

(* What a thread writes is the record of the job it has in hand. *)
LEMMA SnapshotOfJob ==
  ASSUME jobs \in [Projects -> Job], NEW p \in Projects, NEW job \in Job
  PROVE  Snapshot(p, job) \in Job /\ Snapshot(p, job).id = job.id
BY DEF Snapshot

LEMMA BoundsMove ==
  ASSUME faults \in Nat, crashes \in Nat
  PROVE  /\ UNCHANGED bounds => faults' \in Nat /\ crashes' \in Nat
         /\ \A point : Fault(point) => faults' \in Nat /\ crashes' \in Nat
BY DEF bounds, Fault

(* No step of the scheduler leaves the declared types. *)
LEMMA NextTypeOK == TypeOK /\ [Next]_vars => TypeOK'
<1> SUFFICES ASSUME TypeOK, [Next]_vars PROVE TypeOK'
  OBVIOUS
<1> USE DEF TypeOK
<1>a. NoJob \in Job /\ \A job \in Job : job.id \in Nat /\ job.state \in JobStates
  BY DEF NoJob, Job, JobStates, ActiveStates
<1>b. \A job \in Job, st \in JobStates : [job EXCEPT !.state = st] \in Job
  BY DEF Job
<1>c. {"queued", "running", "processed", "failed"} \subseteq JobStates
  BY DEF JobStates, ActiveStates
<1>d. ReqPcs = {"idle", "load", "interrupt", "install", "admit", "persist", "submit"}
  BY DEF ReqPcs
<1>e. WrkPcs = {"idle", "started", "mkdir", "pipeline", "publish", "prune",
                "finish", "finished", "failing", "failed"}
  BY DEF WrkPcs
<1>f. \A r \in Requests : req[r].proj \in Projects /\ req[r].job \in Job
  BY DEF Request
<1>g. \A w \in Workers : wrk[w].proj \in Projects /\ wrk[w].id \in Nat /\ wrk[w].job \in Job
  BY DEF Worker
<1>h. \A op : AfterGet(op) \in ReqPcs
  BY <1>d DEF AfterGet
<1>s. /\ \A r \in Requests : Snapshot(req[r].proj, req[r].job) \in Job
      /\ \A w \in Workers : Snapshot(wrk[w].proj, wrk[w].job) \in Job
  BY <1>f, <1>g, SnapshotOfJob
<1>1. ASSUME NEW r \in Requests, NEW p \in Projects, NEW op \in {"get", "enqueue"},
             Lookup(r, p, op)
      PROVE TypeOK'
  BY <1>1, <1>a DEF Lookup, Request, ReqPcs, disk, bounds
<1>2. ASSUME NEW r \in Requests, LoadRecord(r) PROVE TypeOK'
  <2>1. latest[req[r].proj] \in Job
    BY <1>f
  <2>2. [latest[req[r].proj] EXCEPT !.state = "failed"] \in Job
    BY <2>1, <1>b, <1>c
  <2>3. req' \in [Requests -> Request]
    BY <1>2, <2>1, <2>2, <1>d, <1>h, RequestMoves DEF LoadRecord
  <2>4. QED
    BY <1>2, <2>3 DEF LoadRecord, disk, bounds
<1>3. ASSUME NEW r \in Requests, PersistInterrupted(r) PROVE TypeOK'
  <2>1. req' \in [Requests -> Request]
    BY <1>3, <1>d, RequestMoves DEF PersistInterrupted
  <2>2. latest' \in [Projects -> Job]
    BY <1>3, <1>f DEF PersistInterrupted
  <2>3. faults' \in Nat /\ crashes' \in Nat
    BY <1>3, BoundsMove DEF PersistInterrupted
  <2>4. QED
    BY <1>3, <2>1, <2>2, <2>3 DEF PersistInterrupted, runs
<1>4. ASSUME NEW r \in Requests, InstallLoaded(r) PROVE TypeOK'
  BY <1>4, <1>a, <1>f, <1>h, RequestMoves DEF InstallLoaded, disk, bounds
<1>5. ASSUME NEW r \in Requests, Admit(r) PROVE TypeOK'
  <2>1. [id |-> admitted[req[r].proj] + 1, state |-> "queued"] \in Job
    BY <1>c, <1>f DEF Job
  <2>2. CASE MayAdmit(req[r].proj)
    <3>1. req' \in [Requests -> Request]
      <4>1. Carry(r, "persist", [id |-> admitted[req[r].proj] + 1, state |-> "queued"])
        BY <1>5, <2>2 DEF Admit
      <4>2. QED
        BY <4>1, <2>1, <1>d, RequestMoves
    <3>2. jobs' \in [Projects -> Job] /\ admitted' \in [Projects -> Nat]
      <4>1. jobs' = [jobs EXCEPT ![req[r].proj] =
                       [id |-> admitted[req[r].proj] + 1, state |-> "queued"]]
        BY <1>5, <2>2 DEF Admit
      <4>2. admitted' = [admitted EXCEPT ![req[r].proj] = @ + 1]
        BY <1>5, <2>2 DEF Admit
      <4>3. QED
        BY <4>1, <4>2, <2>1, <1>f
    <3>3. QED
      BY <1>5, <3>1, <3>2 DEF Admit, disk, bounds
  <2>3. CASE ~MayAdmit(req[r].proj)
    BY <1>5, <2>3, RequestMoves DEF Admit, disk, bounds
  <2>4. QED
    BY <2>2, <2>3
<1>6. ASSUME NEW r \in Requests, PersistAdmitted(r) PROVE TypeOK'
  <2>1. req' \in [Requests -> Request]
    BY <1>6, <1>d, RequestMoves DEF PersistAdmitted
  <2>2. latest' \in [Projects -> Job]
    BY <1>6, <1>f, <1>s DEF PersistAdmitted
  <2>3. faults' \in Nat /\ crashes' \in Nat
    BY <1>6, BoundsMove DEF PersistAdmitted
  <2>4. QED
    BY <1>6, <2>1, <2>2, <2>3 DEF PersistAdmitted, runs
<1>7. ASSUME NEW r \in Requests, Submit(r) PROVE TypeOK'
  BY <1>7, <1>f, RequestMoves DEF Submit, disk, bounds
<1>8. ASSUME NEW w \in Workers, TakeJob(w) PROVE TypeOK'
  <2>1. Head(pool) \in Projects /\ Tail(pool) \in Seq(Projects)
    BY <1>8 DEF TakeJob
  <2>2. jobs[Head(pool)].id \in Nat
    BY <2>1, <1>a
  <2>3. QED
    BY <1>8, <2>1, <2>2, <1>c, <1>e, UpdateMoves DEF TakeJob, disk, bounds
<1>9. ASSUME NEW w \in Workers, RunStep(w) PROVE TypeOK'
  <2>1. CASE PersistRunning(w)
    <3>1. wrk' \in [Workers -> Worker]
      BY <2>1, <1>e, WorkerMoves DEF PersistRunning
    <3>2. latest' \in [Projects -> Job]
      BY <2>1, <1>g, <1>s DEF PersistRunning
    <3>3. faults' \in Nat /\ crashes' \in Nat
      BY <2>1, BoundsMove DEF PersistRunning
    <3>4. QED
      BY <2>1, <3>1, <3>2, <3>3 DEF PersistRunning, runs
  <2>2. CASE MakeRunDir(w)
    <3>1. wrk' \in [Workers -> Worker]
      <4>1. Proceed(w, "pipeline") \/ Proceed(w, "failing")
        BY <2>2 DEF MakeRunDir
      <4>2. QED
        BY <4>1, <1>e, WorkerMoves
    <3>2. dirs' \in [Projects -> SUBSET Nat]
      <4>1. \/ dirs' = [dirs EXCEPT ![wrk[w].proj] = @ \cup {wrk[w].id}]
            \/ dirs' = dirs
        BY <2>2 DEF MakeRunDir
      <4>2. dirs[wrk[w].proj] \cup {wrk[w].id} \in SUBSET Nat
        BY <1>g
      <4>3. QED
        BY <4>1, <4>2
    <3>3. QED
      BY <2>2, <3>1, <3>2 DEF MakeRunDir, bounds
  <2>3. CASE RunPipeline(w)
    BY <2>3, <1>e, <1>g, WorkerMoves DEF RunPipeline, bounds
  <2>4. CASE Publish(w)
    <3>1. wrk' \in [Workers -> Worker]
      BY <2>4, <1>e, WorkerMoves DEF Publish
    <3>2. active' \in [Projects -> Nat]
      <4>1. [active EXCEPT ![wrk[w].proj] = wrk[w].id] \in [Projects -> Nat]
        BY <1>g
      <4>2. QED
        BY <2>4, <4>1 DEF Publish
    <3>3. faults' \in Nat /\ crashes' \in Nat
      BY <2>4, BoundsMove DEF Publish
    <3>4. QED
      BY <2>4, <3>1, <3>2, <3>3 DEF Publish
  <2>5. CASE Prune(w)
    BY <2>5, <1>e, <1>g, WorkerMoves DEF Prune, Kept, bounds
  <2>6. CASE Finish(w)
    BY <2>6, <1>c, <1>e, <1>g, UpdateMoves DEF Finish, disk, bounds
  <2>7. CASE PersistFinished(w)
    <3>1. wrk' \in [Workers -> Worker]
      BY <2>7, <1>e, WorkerMoves DEF PersistFinished
    <3>2. latest' \in [Projects -> Job]
      BY <2>7, <1>g, <1>s DEF PersistFinished
    <3>3. faults' \in Nat /\ crashes' \in Nat
      BY <2>7, BoundsMove DEF PersistFinished
    <3>4. QED
      BY <2>7, <3>1, <3>2, <3>3 DEF PersistFinished, runs
  <2>8. CASE Fail(w)
    BY <2>8, <1>c, <1>e, <1>g, UpdateMoves DEF Fail, disk, bounds
  <2>9. CASE PersistFailed(w)
    <3>1. wrk' \in [Workers -> Worker]
      BY <2>9, <1>e, WorkerMoves DEF PersistFailed
    <3>2. latest' \in [Projects -> Job]
      BY <2>9, <1>g, <1>s DEF PersistFailed
    <3>3. faults' \in Nat /\ crashes' \in Nat
      BY <2>9, BoundsMove DEF PersistFailed
    <3>4. QED
      BY <2>9, <3>1, <3>2, <3>3 DEF PersistFailed, runs
  <2>10. CASE Progress(w)
    <3>1. jobs[wrk[w].proj] \in Job
      BY <1>a, <1>g
    <3>2. QED
      BY <2>10, <3>1 DEF Progress, memory, runs, bounds
  <2>11. QED
    BY <1>9, <2>1, <2>2, <2>3, <2>4, <2>5, <2>6, <2>7, <2>8, <2>9, <2>10 DEF RunStep
<1>10. ASSUME Crash PROVE TypeOK'
  BY <1>10, <1>a, RestingTypes DEF Crash, disk
<1>11. ASSUME NEW p \in Projects, RepairOrphan(p) PROVE TypeOK'
  <2>1. Recovered(latest[p]) \in Job
    BY <1>b, <1>c DEF Recovered
  <2>2. QED
    BY <1>11, <2>1 DEF RepairOrphan, runs, bounds
<1>12. ASSUME NEW p \in Projects, AbortRepair(p) PROVE TypeOK'
  BY <1>12 DEF AbortRepair, Fault, disk
<1>13. CASE UNCHANGED vars
  BY <1>13 DEF vars, memory, disk, bounds
<1>14. QED
  BY <1>1, <1>2, <1>3, <1>4, <1>5, <1>6, <1>7, <1>8, <1>9, <1>10, <1>11, <1>12, <1>13
     DEF Next, RequestStep

(* The state of the scheduler stays well formed, warm or not, whatever     *)
(* writes fail.                                                            *)
THEOREM TypeCorrect == Spec => []TypeOK
<1>1. QED
  BY InitTypeOK, NextTypeOK, PTL DEF Spec


-----------------------------------------------------------------------------
(* One run per project, in a warm cache.                                   *)
(*                                                                         *)
(* The promise is not inductive by itself: admission looks at the job in   *)
(* memory, not at the threads.  The strengthening says that a thread or a  *)
(* queue entry that works for a project keeps its job active, and that     *)
(* once the repair is over every project has its job in memory, so that no *)
(* request ever loads a record behind the back of another.                 *)

Holding(r) == req[r].pc \in {"persist", "submit"}
RunningAt(w) == wrk[w].pc \in RunPcs

(* Nothing moves while the process starts, and a request that is served    *)
(* finds its job in memory.                                                *)
Cached ==
    /\ \A p \in Projects : latest[p].id # 0
    /\ \A p \in Projects \ booting : jobs[p].id # 0
    /\ booting # {} =>
          /\ \A r \in Requests : req[r].pc = "idle"
          /\ \A w \in Workers : wrk[w].pc = "idle"
          /\ pool = <<>>
    /\ \A r \in Requests : req[r].pc \in {"idle", "admit", "persist", "submit"}

(* No record that a thread is about to write is empty. *)
Written ==
    /\ \A r \in Requests : req[r].pc = "persist" => req[r].job.id # 0
    /\ \A w \in Workers : wrk[w].pc \in {"started", "finished", "failed"} => wrk[w].job.id # 0

(* A project that is worked for shows an active job. *)
Shown ==
    /\ \A r \in Requests : Holding(r) => IsActive(jobs[req[r].proj])
    /\ \A i \in DOMAIN pool : IsActive(jobs[pool[i]])
    /\ \A w \in Workers : RunningAt(w) => IsActive(jobs[wrk[w].proj])

(* No two threads or entries work for the same project. *)
Alone ==
    /\ \A r, s \in Requests : Holding(r) /\ Holding(s) /\ req[r].proj = req[s].proj => r = s
    /\ \A i, j \in DOMAIN pool : pool[i] = pool[j] => i = j
    /\ \A v, w \in Workers : RunningAt(v) /\ RunningAt(w) /\ wrk[v].proj = wrk[w].proj => v = w
    /\ \A r \in Requests : \A i \in DOMAIN pool : Holding(r) => req[r].proj # pool[i]
    /\ \A r \in Requests : \A w \in Workers :
          Holding(r) /\ RunningAt(w) => req[r].proj # wrk[w].proj
    /\ \A i \in DOMAIN pool : \A w \in Workers : RunningAt(w) => pool[i] # wrk[w].proj

WarmInv == TypeOK /\ Cached /\ Written /\ Shown /\ Alone

LEMMA InitWarm == Warm /\ Init => WarmInv
<1> SUFFICES ASSUME Warm, Init PROVE WarmInv
  OBVIOUS
<1>1. TypeOK
  BY InitTypeOK
<1>2. \A r \in Requests : req[r].pc = "idle"
  BY DEF Init, RestingRequest
<1>3. \A w \in Workers : wrk[w].pc = "idle"
  BY DEF Init, RestingWorker
<1>4. pool = <<>> /\ booting = {}
  BY DEF Init
<1>5. \A p \in Projects : latest[p].id # 0 /\ jobs[p].id # 0
  BY DEF Init, Warm
<1>6. QED
  BY <1>1, <1>2, <1>3, <1>4, <1>5
     DEF WarmInv, Cached, Written, Shown, Alone, Holding, RunningAt, RunPcs

(* A record keeps its number through every change of its state. *)
LEMMA RecordsKeepId ==
  ASSUME NEW job \in Job
  PROVE  \A st : [job EXCEPT !.state = st].id = job.id
BY DEF Job

LEMMA NextWarm == Warm /\ WarmInv /\ [Next]_vars => WarmInv'
<1> SUFFICES ASSUME Warm, WarmInv, [Next]_vars PROVE WarmInv'
  OBVIOUS
<1> USE DEF WarmInv
<1>t. TypeOK'
  BY NextTypeOK
<1>p. /\ jobs \in [Projects -> Job] /\ latest \in [Projects -> Job] /\ pool \in Seq(Projects)
      /\ req \in [Requests -> Request] /\ wrk \in [Workers -> Worker]
      /\ booting \subseteq Projects /\ admitted \in [Projects -> Nat]
      /\ \A r \in Requests : req[r].proj \in Projects /\ req[r].job \in Job
      /\ \A w \in Workers : wrk[w].proj \in Projects /\ wrk[w].id \in Nat /\ wrk[w].job \in Job
  BY DEF TypeOK, Request, Worker
<1>d. ReqPcs = {"idle", "load", "interrupt", "install", "admit", "persist", "submit"}
  BY DEF ReqPcs
<1>e. WrkPcs = {"idle", "started", "mkdir", "pipeline", "publish", "prune",
                "finish", "finished", "failing", "failed"}
  BY DEF WrkPcs
<1>c. {"queued", "running", "processed", "failed"} \subseteq JobStates
  BY DEF JobStates, ActiveStates
<1>s. /\ \A r \in Requests : Snapshot(req[r].proj, req[r].job).id = req[r].job.id
      /\ \A w \in Workers : Snapshot(wrk[w].proj, wrk[w].job).id = wrk[w].job.id
  BY <1>p, SnapshotOfJob
<1>1. ASSUME NEW r \in Requests, NEW p \in Projects, NEW op \in {"get", "enqueue"},
             Lookup(r, p, op)
      PROVE WarmInv'
  <2>1. jobs[p] # NoJob
    BY <1>1, <1>p DEF Lookup, Serving, Cached, NoJob
  <2>2. /\ req' = [req EXCEPT ![r] = [pc |-> "admit", op |-> op, proj |-> p, job |-> NoJob]]
        /\ booting = {}
        /\ UNCHANGED <<jobs, pool, wrk, booting, latest>>
    BY <1>1, <2>1 DEF Lookup, Serving, disk
  <2>3. req'[r].pc = "admit" /\ OthersWait(r)
    BY <2>2, <1>p DEF OthersWait
  <2>4. QED
    BY <1>t, <2>2, <2>3
       DEF OthersWait, Cached, Written, Shown, Alone, Holding, RunningAt
<1>2. ASSUME NEW r \in Requests, LoadRecord(r) \/ PersistInterrupted(r) \/ InstallLoaded(r)
      PROVE WarmInv'
  BY <1>2 DEF LoadRecord, PersistInterrupted, InstallLoaded, Cached
<1>3. ASSUME NEW r \in Requests, Admit(r) PROVE WarmInv'
  <2> DEFINE q == req[r].proj
             new == [id |-> admitted[q] + 1, state |-> "queued"]
  <2>1. booting = {} /\ req[r].pc = "admit" /\ q \in Projects
    BY <1>3, <1>p DEF Admit, Cached
  <2>2. CASE MayAdmit(q)
    <3>1. /\ jobs' = [jobs EXCEPT ![q] = new] /\ Carry(r, "persist", new)
          /\ UNCHANGED <<pool, wrk, booting, latest>>
      BY <1>3, <2>2 DEF Admit, disk
    <3>2. new \in Job /\ new.id # 0 /\ IsActive(new)
      BY <2>1, <1>p, <1>c DEF Job, IsActive, ActiveStates
    <3> HIDE DEF new
    <3>3. /\ OthersWait(r) /\ req'[r].pc = "persist" /\ req'[r].proj = q
          /\ req'[r].job = new
      BY <3>1, <3>2, <1>p, <1>d, RequestMoves
    <3>4. jobs'[q] = new /\ \A p \in Projects : p # q => jobs'[p] = jobs[p]
      BY <3>1, <1>p
    <3>5. /\ \A s \in Requests : Holding(s) => req[s].proj # q
          /\ \A i \in DOMAIN pool : pool[i] # q
          /\ \A w \in Workers : RunningAt(w) => wrk[w].proj # q
      BY <2>2 DEF MayAdmit, Shown
    <3>6. Cached'
      BY <2>1, <3>1, <3>2, <3>3, <3>4 DEF Cached, OthersWait
    <3>7. Written'
      BY <3>1, <3>2, <3>3 DEF Written, OthersWait
    <3>8. Shown'
      BY <3>1, <3>2, <3>3, <3>4, <1>p DEF Shown, OthersWait, Holding, RunningAt
    <3>9. Alone'
      BY <3>1, <3>3, <3>5 DEF Alone, OthersWait, Holding, RunningAt
    <3>10. QED
      BY <1>t, <3>6, <3>7, <3>8, <3>9
  <2>3. CASE ~MayAdmit(q)
    <3>1. EndCall(r) /\ UNCHANGED <<jobs, pool, wrk, booting, latest>>
      BY <1>3, <2>3 DEF Admit, disk
    <3>2. req'[r].pc = "idle" /\ OthersWait(r)
      BY <3>1, <1>p, RequestMoves
    <3>3. QED
      BY <1>t, <3>1, <3>2 DEF OthersWait, Cached, Written, Shown, Alone, Holding, RunningAt
  <2>4. QED
    BY <2>2, <2>3
<1>4. ASSUME NEW r \in Requests, PersistAdmitted(r) PROVE WarmInv'
  <2>1. /\ req[r].pc = "persist" /\ booting = {} /\ req[r].job.id # 0
        /\ UNCHANGED <<jobs, pool, wrk, booting>>
    BY <1>4 DEF PersistAdmitted, Cached, Written
  <2>2. OthersWait(r) /\ req'[r].pc \in {"submit", "idle"}
        /\ (req'[r].pc = "submit" => req'[r].proj = req[r].proj)
    BY <1>4, <1>p, <1>d, RequestMoves DEF PersistAdmitted
  <2>3. \A p \in Projects : latest'[p].id # 0
    BY <1>4, <2>1, <1>p, <1>s DEF PersistAdmitted, Cached
  <2>4. QED
    BY <1>t, <2>1, <2>2, <2>3
       DEF OthersWait, Cached, Written, Shown, Alone, Holding, RunningAt
<1>5. ASSUME NEW r \in Requests, Submit(r) PROVE WarmInv'
  <2> DEFINE q == req[r].proj
  <2>1. /\ req[r].pc = "submit" /\ booting = {} /\ q \in Projects
        /\ pool' = Append(pool, q)
        /\ UNCHANGED <<jobs, wrk, booting, latest>>
    BY <1>5, <1>p DEF Submit, Cached, disk
  <2>2. OthersWait(r) /\ req'[r].pc = "idle"
    BY <1>5, <1>p, RequestMoves DEF Submit
  <2>3. /\ DOMAIN pool' = DOMAIN pool \cup {Len(pool) + 1}
        /\ \A i \in DOMAIN pool : pool'[i] = pool[i]
        /\ pool'[Len(pool) + 1] = q /\ Len(pool) + 1 \notin DOMAIN pool
    BY <2>1, <1>p
  <2>4. /\ IsActive(jobs[q])
        /\ \A i \in DOMAIN pool : pool[i] # q
        /\ \A w \in Workers : RunningAt(w) => wrk[w].proj # q
        /\ \A s \in Requests \ {r} : Holding(s) => req[s].proj # q
    BY <2>1 DEF Shown, Alone, Holding
  <2>5. Cached' /\ Written'
    BY <2>1, <2>2 DEF Cached, Written, OthersWait
  <2>6. Shown'
    BY <2>1, <2>2, <2>3, <2>4 DEF Shown, OthersWait, Holding, RunningAt
  <2>7. Alone'
    BY <2>1, <2>2, <2>3, <2>4 DEF Alone, OthersWait, Holding, RunningAt
  <2>8. QED
    BY <1>t, <2>5, <2>6, <2>7
<1>6. ASSUME NEW w \in Workers, TakeJob(w) PROVE WarmInv'
  <2> DEFINE q == Head(pool)
  <2>1. /\ wrk[w].pc = "idle" /\ booting = {} /\ q \in Projects /\ jobs[q].id \in Nat
        /\ pool' = Tail(pool) /\ pool # <<>>
        /\ UNCHANGED <<req, booting, latest>>
    BY <1>6, <1>p DEF TakeJob, Cached, disk, Job
  <2>2. /\ jobs'[q].id = jobs[q].id /\ jobs'[q].state = "running"
        /\ \A p \in Projects : p # q => jobs'[p] = jobs[p]
        /\ OthersRun(w) /\ wrk'[w].pc = "started" /\ wrk'[w].proj = q
        /\ wrk'[w].job = jobs'[q]
    BY <1>6, <2>1, <1>p, <1>c, <1>e, UpdateMoves DEF TakeJob
  <2>3. /\ q = pool[1] /\ 1 \in DOMAIN pool
        /\ \A i \in DOMAIN pool' : i + 1 \in DOMAIN pool /\ pool'[i] = pool[i + 1] /\ i \in Nat /\ i + 1 # 1
    BY <2>1, <1>p
  <2>4. /\ \A i \in DOMAIN pool' : pool'[i] # q
        /\ \A v \in Workers : RunningAt(v) => wrk[v].proj # q
        /\ \A s \in Requests : Holding(s) => req[s].proj # q
    BY <2>3 DEF Alone
  <2>5. Cached' /\ Written'
    BY <2>1, <2>2 DEF Cached, Written, OthersRun
  <2>6. Shown'
    <3>1. /\ \A p \in Projects : IsActive(jobs[p]) => IsActive(jobs'[p])
          /\ IsActive(jobs'[q])
      BY <2>2 DEF IsActive, ActiveStates
    <3>2. \A i \in DOMAIN pool' : IsActive(jobs'[pool'[i]])
      BY <2>3, <3>1, <1>p DEF Shown
    <3>3. \A s \in Requests : Holding(s)' => IsActive(jobs'[req'[s].proj])
      BY <2>1, <3>1, <1>p DEF Shown, Holding
    <3>4. \A v \in Workers : RunningAt(v)' => IsActive(jobs'[wrk'[v].proj])
      BY <2>2, <3>1, <1>p DEF Shown, RunningAt, OthersRun
    <3>5. QED
      BY <3>2, <3>3, <3>4 DEF Shown, Holding, RunningAt, IsActive
  <2>7. \A i, j \in DOMAIN pool' : pool'[i] = pool'[j] => i = j
    BY <2>3 DEF Alone
  <2>8. Alone'
    BY <2>1, <2>2, <2>3, <2>4, <2>7 DEF Alone, OthersRun, Holding, RunningAt
  <2>9. QED
    BY <1>t, <2>5, <2>6, <2>8
<1>7. ASSUME NEW w \in Workers, RunStep(w) PROVE WarmInv'
  <2>1. booting = {}
    BY <1>7 DEF RunStep, PersistRunning, MakeRunDir, Progress, RunPipeline, Publish, Prune, Finish,
       PersistFinished, Fail, PersistFailed, Cached
  (* A step that moves its worker within the run, or out of it, and writes *)
  (* at most a record that is not empty.                                   *)
  <2>2. ASSUME OthersRun(w), wrk'[w].proj = wrk[w].proj \/ wrk'[w].pc = "idle",
               RunningAt(w)' => RunningAt(w),
               wrk'[w].pc \in {"started", "finished", "failed"} => wrk'[w].job.id # 0,
               \A p \in Projects : latest'[p].id # 0,
               UNCHANGED <<jobs, pool, req, booting>>
        PROVE WarmInv'
    <3>1. Cached' /\ Written'
      BY <2>1, <2>2 DEF Cached, Written, OthersRun
    <3>2. RunningAt(w)' => wrk'[w].proj = wrk[w].proj
      BY <2>2 DEF RunningAt, RunPcs
    <3>3. Shown' /\ Alone'
      BY <2>2, <3>2 DEF Shown, Alone, OthersRun, Holding, RunningAt
    <3>4. QED
      BY <1>t, <3>1, <3>3
  (* The step that ends the run. *)
  <2>3. ASSUME NEW next \in {"finished", "failed"}, RunningAt(w), NEW st \in JobStates,
               Update(w, wrk[w].proj, st, next, wrk[w].id),
               UNCHANGED <<pool, req, booting, latest>>
        PROVE WarmInv'
    <3> DEFINE q == wrk[w].proj
    <3>1. /\ jobs'[q].id = jobs[q].id
          /\ \A p \in Projects : p # q => jobs'[p] = jobs[p]
          /\ OthersRun(w) /\ wrk'[w].pc = next /\ wrk'[w].job = jobs'[q]
      BY <2>3, <1>p, <1>e, UpdateMoves
    <3>2. Cached' /\ Written'
      <4>1. \A p \in Projects : jobs'[p].id # 0
        BY <2>1, <3>1 DEF Cached
      <4>2. Cached'
        BY <2>1, <2>3, <4>1 DEF Cached
      <4>3. Written'
        <5>1. wrk'[w].job.id # 0
          BY <3>1, <4>1, <1>p
        <5>2. QED
          BY <2>3, <3>1, <5>1 DEF Written, OthersRun
      <4>4. QED
        BY <4>2, <4>3
    <3>3. ~RunningAt(w)'
      BY <2>3, <3>1 DEF RunningAt, RunPcs
    <3>4. /\ \A s \in Requests : Holding(s) => req[s].proj # q
          /\ \A i \in DOMAIN pool : pool[i] # q
          /\ \A v \in Workers \ {w} : RunningAt(v) => wrk[v].proj # q
      BY <2>3 DEF Alone
    <3>5. Shown'
      <4>1. \A p \in Projects : p # q /\ IsActive(jobs[p]) => IsActive(jobs'[p])
        BY <3>1
      <4>2. \A s \in Requests : Holding(s)' => IsActive(jobs'[req'[s].proj])
        BY <2>3, <3>4, <4>1, <1>p DEF Shown, Holding
      <4>3. \A i \in DOMAIN pool' : IsActive(jobs'[pool'[i]])
        BY <2>3, <3>4, <4>1, <1>p DEF Shown
      <4>4. \A v \in Workers : RunningAt(v)' => IsActive(jobs'[wrk'[v].proj])
        BY <3>1, <3>3, <3>4, <4>1, <1>p DEF Shown, RunningAt, OthersRun
      <4>5. QED
        BY <4>2, <4>3, <4>4 DEF Shown, Holding, RunningAt, IsActive
    <3>6. Alone'
      BY <2>3, <3>1, <3>3 DEF Alone, OthersRun, Holding, RunningAt
    <3>7. QED
      BY <1>t, <3>2, <3>5, <3>6
  <2>l. \A p \in Projects : latest[p].id # 0
    BY DEF Cached
  <2>4. CASE PersistRunning(w)
    <3>1. \A p \in Projects : latest'[p].id # 0
      <4>1. Snapshot(wrk[w].proj, wrk[w].job).id # 0
        BY <2>4, <1>s DEF PersistRunning, Written
      <4>2. \/ latest' = latest
            \/ latest' = [latest EXCEPT ![wrk[w].proj] = Snapshot(wrk[w].proj, wrk[w].job)]
        BY <2>4 DEF PersistRunning
      <4>3. QED
        BY <4>1, <4>2, <2>l, <1>p
    <3>2. /\ OthersRun(w) /\ wrk'[w].pc \in {"mkdir", "idle"}
          /\ (wrk'[w].pc = "mkdir" => wrk'[w].proj = wrk[w].proj)
          /\ UNCHANGED <<jobs, pool, req, booting>> /\ wrk[w].pc = "started"
      BY <2>4, <1>p, <1>e, WorkerMoves DEF PersistRunning
    <3>3. QED
      BY <3>1, <3>2, <2>2 DEF RunningAt, RunPcs
  <2>5. CASE MakeRunDir(w) \/ RunPipeline(w) \/ Publish(w) \/ Prune(w)
    <3>1. \/ Proceed(w, "pipeline") \/ Proceed(w, "failing") \/ Proceed(w, "publish")
          \/ Proceed(w, "prune") \/ Proceed(w, "finish")
      BY <2>5 DEF MakeRunDir, RunPipeline, Publish, Prune
    <3>2. /\ OthersRun(w) /\ wrk'[w].proj = wrk[w].proj
          /\ wrk'[w].pc \in {"pipeline", "failing", "publish", "prune", "finish"}
      BY <3>1, <1>p, <1>e, WorkerMoves
    <3>3. UNCHANGED <<jobs, pool, req, booting, latest>> /\ RunningAt(w)
      BY <2>5 DEF MakeRunDir, RunPipeline, Publish, Prune, RunningAt, RunPcs
    <3>4. QED
      BY <3>2, <3>3, <2>2, <2>l
  <2>6. CASE Finish(w)
    BY <2>6, <2>3, <1>c DEF Finish, disk, RunningAt, RunPcs
  <2>7. CASE PersistFinished(w) \/ PersistFailed(w)
    <3>1. EndRun(w) /\ wrk[w].pc \in {"finished", "failed"}
          /\ UNCHANGED <<jobs, pool, req, booting>>
      BY <2>7 DEF PersistFinished, PersistFailed, Fault, Warm
    <3>2. OthersRun(w) /\ wrk'[w].pc = "idle"
      BY <3>1, <1>p, WorkerMoves
    <3>3. \/ latest' = latest
          \/ latest' = [latest EXCEPT ![wrk[w].proj] = Snapshot(wrk[w].proj, wrk[w].job)]
      BY <2>7 DEF PersistFinished, PersistFailed
    <3>4. \A p \in Projects : latest'[p].id # 0
      <4>1. Snapshot(wrk[w].proj, wrk[w].job).id # 0
        BY <3>1, <1>s DEF Written
      <4>2. QED
        BY <4>1, <3>3, <2>l, <1>p
    <3>5. ~RunningAt(w)'
      BY <3>2 DEF RunningAt, RunPcs
    <3>6. QED
      BY <3>1, <3>2, <3>4, <3>5, <2>2
  <2>8. CASE Fail(w)
    BY <2>8, <2>3, <1>c DEF Fail, disk, RunningAt, RunPcs
  <2>9. CASE Progress(w)
    <3>1. jobs[wrk[w].proj].id # 0
      BY <2>1, <1>p DEF Cached
    <3>2. \A p \in Projects : latest'[p].id # 0
      BY <2>9, <3>1, <2>l, <1>p DEF Progress
    <3>3. OthersRun(w) /\ UNCHANGED <<jobs, pool, req, wrk, booting>>
      BY <2>9 DEF Progress, memory, OthersRun
    <3>4. wrk[w].pc = "pipeline"
      BY <2>9 DEF Progress
    <3>5. QED
      BY <3>2, <3>3, <3>4, <2>2 DEF RunningAt, RunPcs
  <2>10. QED
    BY <1>7, <2>4, <2>5, <2>6, <2>7, <2>8, <2>9 DEF RunStep
<1>8. ASSUME Crash PROVE WarmInv'
  <2>1. /\ \A r \in Requests : req'[r].pc = "idle"
        /\ \A w \in Workers : wrk'[w].pc = "idle"
        /\ pool' = <<>> /\ booting' = Projects /\ latest' = latest
    BY <1>8 DEF Crash, RestingRequest, RestingWorker, disk
  <2>2. QED
    BY <1>t, <2>1 DEF Cached, Written, Shown, Alone, Holding, RunningAt, RunPcs
<1>9. ASSUME NEW p \in Projects, RepairOrphan(p) PROVE WarmInv'
  <2>1. /\ \A r \in Requests : req[r].pc = "idle"
        /\ \A w \in Workers : wrk[w].pc = "idle"
        /\ pool = <<>>
        /\ UNCHANGED <<pool, req, wrk>> /\ booting' = booting \ {p}
    BY <1>9 DEF RepairOrphan, Cached
  <2>2. Recovered(latest[p]).id # 0
    BY <1>p, RecordsKeepId DEF Recovered, Cached
  <2>3. /\ \A q \in Projects : latest'[q].id # 0
        /\ \A q \in Projects \ booting' : jobs'[q].id # 0
    BY <1>9, <2>1, <2>2, <1>p DEF RepairOrphan, Cached
  <2>4. QED
    BY <1>t, <2>1, <2>3 DEF Cached, Written, Shown, Alone, Holding, RunningAt, RunPcs
<1>10. ASSUME NEW p \in Projects, AbortRepair(p) PROVE WarmInv'
  BY <1>10 DEF AbortRepair, Fault, Warm
<1>11. CASE UNCHANGED vars
  BY <1>11, <1>t DEF vars, memory, disk, Cached, Written, Shown, Alone, Holding, RunningAt
<1>12. QED
  BY <1>1, <1>2, <1>3, <1>4, <1>5, <1>6, <1>7, <1>8, <1>9, <1>10, <1>11
     DEF Next, RequestStep

LEMMA AloneIsOneRun == Alone => OneRunPerProject
<1> SUFFICES ASSUME Alone, NEW p \in Projects, NEW a \in Claims(p), NEW b \in Claims(p)
             PROVE a = b
  BY DEF OneRunPerProject
<1>1. /\ \A r, s \in Admitting(p) : r = s
      /\ \A i, j \in Queued(p) : i = j
      /\ \A v, w \in Running(p) : v = w
      /\ Admitting(p) # {} => Queued(p) = {} /\ Running(p) = {}
      /\ Queued(p) # {} => Running(p) = {}
  BY DEF Alone, Admitting, Queued, Running, Holding, RunningAt
<1>2. QED
  BY <1>1 DEF Claims

(* In a warm cache a project has one run at a time: no two threads or      *)
(* queue entries ever work for it, through any interleaving of requests,   *)
(* workers, failed writes and crashes.                                     *)
THEOREM OneRun == Warm /\ Spec => []OneRunPerProject
<1>1. Warm /\ Init => WarmInv
  BY InitWarm
<1>2. Warm /\ WarmInv /\ [Next]_vars => WarmInv'
  BY NextWarm
<1>3. WarmInv => OneRunPerProject
  BY AloneIsOneRun DEF WarmInv
<1>4. CASE Warm
  BY <1>1, <1>2, <1>3, <1>4, PTL DEF Spec
<1>5. QED
  BY <1>4

-----------------------------------------------------------------------------
(* The promises of the scheduler that rest on one run per project: bounded *)
(* admission, published runs that stay, immutable run directories, and the *)
(* implementation of ProjectRuns; and, without a warm cache, that no job is *)
(* shown in progress that nobody works on.                                 *)

-----------------------------------------------------------------------------
(* What a step of a warm scheduler does to the jobs, to the pointers and to *)
(* the count of admitted jobs: the view that the promises need of it.      *)

New(p) == [id |-> admitted[p] + 1, state |-> "queued"]

Admits(p) ==
    /\ MayAdmit(p)
    /\ jobs' = [jobs EXCEPT ![p] = New(p)]
    /\ admitted' = [admitted EXCEPT ![p] = @ + 1]
    /\ UNCHANGED active

Marks(p, st) ==
    /\ IsActive(jobs[p])
    /\ jobs' = [jobs EXCEPT ![p] = Marked(p, st)]
    /\ UNCHANGED <<admitted, active>>

Publishes(w) ==
    /\ wrk[w].pc = "publish"
    /\ active' = [active EXCEPT ![wrk[w].proj] = wrk[w].id]
    /\ UNCHANGED <<jobs, admitted>>

Loses ==
    /\ jobs' = [p \in Projects |-> NoJob]
    /\ UNCHANGED <<admitted, active>>

Repairs(p) ==
    /\ jobs' = [jobs EXCEPT ![p] = Recovered(latest[p])]
    /\ UNCHANGED <<admitted, active>>

LEMMA WarmStep ==
  ASSUME Warm, WarmInv, [Next]_vars
  PROVE  \/ \E p \in Projects : Admits(p)
         \/ \E p \in Projects, st \in {"running", "processed", "failed"} : Marks(p, st)
         \/ \E w \in Workers : Publishes(w)
         \/ Loses
         \/ \E p \in Projects : Repairs(p)
         \/ UNCHANGED <<jobs, admitted, active>>
<1> DEFINE Seen == \/ \E p \in Projects : Admits(p)
                   \/ \E p \in Projects, st \in {"running", "processed", "failed"} : Marks(p, st)
                   \/ \E w \in Workers : Publishes(w)
                   \/ Loses
                   \/ \E p \in Projects : Repairs(p)
                   \/ UNCHANGED <<jobs, admitted, active>>
<1> SUFFICES Seen
  OBVIOUS
<1>p. /\ pool \in Seq(Projects)
      /\ \A r \in Requests : req[r].proj \in Projects
      /\ \A w \in Workers : wrk[w].proj \in Projects
  BY DEF WarmInv, TypeOK, Request, Worker
<1>1. ASSUME NEW r \in Requests, NEW p \in Projects, NEW op \in {"get", "enqueue"},
             Lookup(r, p, op)
      PROVE Seen
  BY <1>1 DEF Lookup, disk
<1>2. ASSUME NEW r \in Requests, LoadRecord(r) \/ PersistInterrupted(r) \/ InstallLoaded(r)
      PROVE Seen
  BY <1>2 DEF LoadRecord, PersistInterrupted, InstallLoaded, WarmInv, Cached
<1>3. ASSUME NEW r \in Requests, Admit(r) PROVE Seen
  <2>1. UNCHANGED active
    BY <1>3 DEF Admit, disk
  <2>2. CASE MayAdmit(req[r].proj)
    <3>1. Admits(req[r].proj)
      BY <1>3, <2>1, <2>2 DEF Admit, Admits, New
    <3>2. QED
      BY <3>1, <1>p
  <2>3. CASE ~MayAdmit(req[r].proj)
    BY <1>3, <2>1, <2>3 DEF Admit
  <2>4. QED
    BY <2>2, <2>3
<1>4. ASSUME NEW r \in Requests, PersistAdmitted(r) \/ Submit(r) PROVE Seen
  BY <1>4 DEF PersistAdmitted, Submit, disk, runs
<1>5. ASSUME NEW w \in Workers, TakeJob(w) PROVE Seen
  <2>1. Head(pool) \in Projects /\ 1 \in DOMAIN pool /\ Head(pool) = pool[1]
    BY <1>5, <1>p DEF TakeJob
  <2>2. IsActive(jobs[Head(pool)])
    BY <2>1 DEF WarmInv, Shown
  <2>3. Marks(Head(pool), "running")
    BY <1>5, <2>2 DEF TakeJob, Update, Marks, disk
  <2>4. QED
    BY <2>1, <2>3
<1>6. ASSUME NEW w \in Workers, RunStep(w) PROVE Seen
  <2>1. CASE Publish(w)
    BY <2>1 DEF Publish, Publishes, Fault
  <2>2. CASE Finish(w)
    <3>1. IsActive(jobs[wrk[w].proj])
      BY <2>2 DEF Finish, WarmInv, Shown, RunningAt, RunPcs
    <3>2. Marks(wrk[w].proj, "processed")
      BY <2>2, <3>1 DEF Finish, Update, Marks, disk
    <3>3. QED
      BY <3>2, <1>p
  <2>3. CASE Fail(w)
    <3>1. IsActive(jobs[wrk[w].proj])
      BY <2>3 DEF Fail, WarmInv, Shown, RunningAt, RunPcs
    <3>2. Marks(wrk[w].proj, "failed")
      BY <2>3, <3>1 DEF Fail, Update, Marks, disk
    <3>3. QED
      BY <3>2, <1>p
  <2>4. CASE PersistRunning(w) \/ MakeRunDir(w) \/ Progress(w) \/ RunPipeline(w) \/ Prune(w)
              \/ PersistFinished(w) \/ PersistFailed(w)
    BY <2>4 DEF PersistRunning, MakeRunDir, Progress, RunPipeline, Prune, PersistFinished,
                PersistFailed, memory, runs
  <2>5. QED
    BY <1>6, <2>1, <2>2, <2>3, <2>4 DEF RunStep
<1>7. ASSUME Crash PROVE Seen
  BY <1>7 DEF Crash, Loses, disk
<1>8. ASSUME NEW p \in Projects, RepairOrphan(p) PROVE Seen
  BY <1>8 DEF RepairOrphan, Repairs, runs
<1>9. ASSUME NEW p \in Projects, AbortRepair(p) PROVE Seen
  BY <1>9 DEF AbortRepair, disk
<1>10. CASE UNCHANGED vars
  BY <1>10 DEF vars, memory, disk
<1>11. QED
  BY <1>1, <1>2, <1>3, <1>4, <1>5, <1>6, <1>7, <1>8, <1>9, <1>10 DEF Next, RequestStep

-----------------------------------------------------------------------------
(* Bounded admission.  enqueue counts the jobs that the map shows active;  *)
(* the invariant is about that count, and one run per project carries it   *)
(* to the threads and the queue entries, which nothing counts.             *)

Bounded == Cardinality(ActiveProjects) <= Capacity

LEMMA ActiveIsFinite ==
  IsFiniteSet(ActiveProjects) /\ Cardinality(ActiveProjects) \in Nat /\ Capacity \in Nat
<1>1. IsFiniteSet(ActiveProjects)
  BY JobStoreAssumption, FS_Subset DEF ActiveProjects
<1>2. QED
  BY <1>1, JobStoreAssumption, FS_CardinalityType DEF Capacity

LEMMA NextBounded == Warm /\ WarmInv /\ Bounded /\ [Next]_vars => Bounded'
<1> SUFFICES ASSUME Warm, WarmInv, Bounded, [Next]_vars PROVE Bounded'
  OBVIOUS
<1>a. /\ IsFiniteSet(ActiveProjects) /\ IsFiniteSet(ActiveProjects')
      /\ Cardinality(ActiveProjects) \in Nat /\ Capacity \in Nat /\ Capacity' = Capacity
  <2>1. IsFiniteSet(ActiveProjects')
    BY JobStoreAssumption, FS_Subset DEF ActiveProjects
  <2>2. QED
    BY <2>1, ActiveIsFinite DEF Capacity
<1>t. jobs \in [Projects -> Job] /\ latest \in [Projects -> Job]
  BY DEF WarmInv, TypeOK
(* A step that makes no job active does not raise the count. *)
<1>1. ASSUME \A p \in Projects : IsActive(jobs'[p]) => IsActive(jobs[p])
      PROVE Bounded'
  <2>1. ActiveProjects' \in SUBSET ActiveProjects
    BY <1>1 DEF ActiveProjects, IsActive
  <2>2. /\ Cardinality(ActiveProjects') \in Nat
        /\ Cardinality(ActiveProjects') <= Cardinality(ActiveProjects)
    BY <2>1, <1>a, FS_Subset, FS_CardinalityType
  <2>3. QED
    BY <2>2, <1>a DEF Bounded
<1>2. ASSUME NEW p \in Projects, Admits(p) PROVE Bounded'
  <2>1. ActiveProjects' = ActiveProjects \cup {p}
    BY <1>2, <1>t DEF Admits, New, ActiveProjects, IsActive, ActiveStates
  <2>2. Cardinality(ActiveProjects') <= Cardinality(ActiveProjects) + 1
    BY <2>1, <1>a, FS_AddElement
  <2>3. Cardinality(ActiveProjects) < Capacity
    BY <1>2 DEF Admits, MayAdmit
  <2>4. Cardinality(ActiveProjects') \in Nat
    BY <1>a, FS_CardinalityType
  <2>5. QED
    BY <2>2, <2>3, <2>4, <1>a DEF Bounded
<1>3. ASSUME NEW p \in Projects, NEW st \in {"running", "processed", "failed"}, Marks(p, st)
      PROVE Bounded'
  BY <1>1, <1>3, <1>t DEF Marks
<1>4. ASSUME NEW p \in Projects, Repairs(p) PROVE Bounded'
  <2>1. ~IsActive(Recovered(latest[p]))
    BY <1>t DEF Recovered, IsActive, ActiveStates, Job
  <2>2. QED
    BY <1>1, <1>4, <2>1, <1>t DEF Repairs
<1>5. CASE Loses
  BY <1>1, <1>5 DEF Loses, NoJob, IsActive, ActiveStates
<1>6. CASE UNCHANGED jobs
  BY <1>1, <1>6 DEF IsActive
<1>7. QED
  BY <1>2, <1>3, <1>4, <1>5, <1>6, WarmStep DEF Publishes

(* Every run in flight is that of an active job, and of no other's.        *)
LEMMA BoundedIsAdmission ==
  ASSUME WarmInv, Bounded
  PROVE  BoundedAdmission
<1> DEFINE Runs == UNION {Claims(p) \X {p} : p \in Projects}
           owner == [x \in Runs |-> x[2]]
<1>1. OneRunPerProject
  BY AloneIsOneRun DEF WarmInv
<1>2. \A p \in Projects : Claims(p) # {} => p \in ActiveProjects
  BY DEF WarmInv, Shown, Claims, Admitting, Queued, Running, ActiveProjects, Holding, RunningAt
<1>3. \A x \in Runs : \E p \in Projects : \E c \in Claims(p) : x = <<c, p>>
  OBVIOUS
<1>4. owner \in [Runs -> ActiveProjects]
  <2>1. \A x \in Runs : x[2] \in ActiveProjects
    BY <1>2, <1>3
  <2>2. QED
    BY <2>1
<1>5. \A x, y \in Runs : x[2] = y[2] => x = y
  BY <1>1, <1>3 DEF OneRunPerProject
<1>6. owner \in Injection(Runs, ActiveProjects)
  BY <1>4, <1>5 DEF Injection, IsInjective
<1> HIDE DEF Runs, owner
<1>7. /\ Cardinality(Runs) <= Cardinality(ActiveProjects)
      /\ IsFiniteSet(Runs)
  BY <1>6, ActiveIsFinite, FS_Injection
<1>8. Cardinality(Runs) \in Nat
  BY <1>7, FS_CardinalityType
<1>9. QED
  BY <1>7, <1>8, ActiveIsFinite DEF Bounded, BoundedAdmission, Runs

(* The runs in flight, whoever holds them, never exceed the workers and    *)
(* the queue the settings allow.                                           *)
THEOREM AdmissionIsBounded == Warm /\ Spec => []BoundedAdmission
<1>1. Warm /\ Init => WarmInv /\ Bounded
  <2>1. Init => ActiveProjects = {}
    BY DEF Init, ActiveProjects, IsActive, ActiveStates, NoJob
  <2>2. Init => Bounded
    BY <2>1, ActiveIsFinite, FS_EmptySet DEF Bounded
  <2>3. QED
    BY <2>2, InitWarm
<1>2. Warm /\ WarmInv /\ Bounded /\ [Next]_vars => WarmInv' /\ Bounded'
  BY NextWarm, NextBounded
<1>3. WarmInv /\ Bounded => BoundedAdmission
  BY BoundedIsAdmission
<1>4. CASE Warm
  BY <1>1, <1>2, <1>3, <1>4, PTL DEF Spec
<1>5. QED
  BY <1>4

-----------------------------------------------------------------------------
(* Run directories.  A worker writes a directory that nobody else writes   *)
(* and that is not complete; what it publishes is complete; the retention  *)
(* runs in the same worker, so it never takes a directory that another     *)
(* run of the project is about to publish.                                 *)

RunDirs ==
    /\ \A p \in Projects : complete[p] \subseteq dirs[p]
    /\ \A p \in Projects : active[p] # 0 => active[p] \in complete[p]
    /\ \A w \in Workers : wrk[w].pc = "pipeline" =>
          wrk[w].id \in dirs[wrk[w].proj] \ complete[wrk[w].proj]
    /\ \A w \in Workers : wrk[w].pc = "publish" => wrk[w].id \in complete[wrk[w].proj]

LEMMA NextRunDirs == WarmInv /\ RunDirs /\ [Next]_vars => RunDirs'
<1> SUFFICES ASSUME WarmInv, RunDirs, [Next]_vars PROVE RunDirs'
  OBVIOUS
<1>p. /\ jobs \in [Projects -> Job] /\ pool \in Seq(Projects) /\ wrk \in [Workers -> Worker]
      /\ dirs \in [Projects -> SUBSET Nat] /\ complete \in [Projects -> SUBSET Nat]
      /\ active \in [Projects -> Nat]
      /\ \A w \in Workers : wrk[w].proj \in Projects /\ wrk[w].id \in Nat
  BY DEF WarmInv, TypeOK, Worker
<1>e. WrkPcs = {"idle", "started", "mkdir", "pipeline", "publish", "prune",
                "finish", "finished", "failing", "failed"}
  BY DEF WrkPcs
(* A step that lets no worker begin to write or to publish. *)
<1>1. ASSUME UNCHANGED runs,
             \A v \in Workers : wrk'[v].pc \in {"pipeline", "publish"} => wrk'[v] = wrk[v]
      PROVE RunDirs'
  BY <1>1 DEF RunDirs, runs
<1>2. CASE UNCHANGED <<runs, wrk>>
  BY <1>1, <1>2
<1>3. ASSUME NEW r \in Requests, RequestStep(r) PROVE RunDirs'
  BY <1>2, <1>3 DEF RequestStep, LoadRecord, PersistInterrupted, InstallLoaded, Admit,
                    PersistAdmitted, Submit, disk, runs
<1>4. ASSUME NEW w \in Workers, TakeJob(w) PROVE RunDirs'
  <2>1. Head(pool) \in Projects /\ jobs[Head(pool)].id \in Nat
    BY <1>4, <1>p DEF TakeJob, Job
  <2>2. OthersRun(w) /\ wrk'[w].pc = "started"
    BY <1>4, <2>1, <1>p DEF TakeJob, Update, OthersRun
  <2>3. QED
    BY <1>1, <1>4, <2>2 DEF TakeJob, OthersRun, disk, runs
<1>5. ASSUME NEW w \in Workers, RunStep(w) PROVE RunDirs'
  <2> DEFINE p == wrk[w].proj
             i == wrk[w].id
  <2>p. p \in Projects /\ i \in Nat
    BY <1>p
  (* No other worker is anywhere in a run of this project. *)
  <2>a. ASSUME RunningAt(w), NEW v \in Workers, v # w, wrk[v].pc \in {"pipeline", "publish"}
        PROVE  wrk[v].proj # p
    BY <2>a DEF WarmInv, Alone, RunningAt, RunPcs
  <2>1. CASE PersistRunning(w) \/ Finish(w) \/ PersistFinished(w) \/ Fail(w) \/ PersistFailed(w)
    <3>1. UNCHANGED runs
      BY <2>1 DEF PersistRunning, Finish, PersistFinished, Fail, PersistFailed, disk, runs
    <3>2. OthersRun(w) /\ wrk'[w].pc \notin {"pipeline", "publish"}
      BY <2>1, <1>p, <1>e, WorkerMoves
         DEF PersistRunning, Finish, PersistFinished, Fail, PersistFailed, Update, OthersRun
    <3>3. QED
      BY <1>1, <3>1, <3>2 DEF OthersRun
  <2>2. CASE MakeRunDir(w)
    <3>1. CASE NewRunDir(p, i)
      <4>1. /\ dirs' = [dirs EXCEPT ![p] = @ \cup {i}] /\ Proceed(w, "pipeline")
            /\ UNCHANGED <<complete, active>> /\ RunningAt(w)
        BY <2>2, <3>1 DEF MakeRunDir, RunningAt, RunPcs
      <4>2. /\ OthersRun(w) /\ wrk'[w].pc = "pipeline" /\ wrk'[w].proj = p /\ wrk'[w].id = i
        BY <4>1, <1>p, <1>e, WorkerMoves
      <4>3. i \in dirs'[p] /\ i \notin complete'[p]
        BY <4>1, <3>1, <1>p DEF NewRunDir, RunDirs
      <4>4. \A q \in Projects : dirs[q] \subseteq dirs'[q]
        BY <4>1, <1>p
      <4>5. \A v \in Workers : wrk'[v].pc = "pipeline" =>
                wrk'[v].id \in dirs'[wrk'[v].proj] \ complete'[wrk'[v].proj]
        <5>1. ASSUME NEW v \in Workers, v # w, wrk[v].pc = "pipeline"
              PROVE  wrk[v].id \in dirs'[wrk[v].proj] \ complete[wrk[v].proj]
          BY <4>4, <5>1, <1>p DEF RunDirs
        <5>2. QED
          BY <4>1, <4>2, <4>3, <5>1 DEF OthersRun
      <4>6. QED
        BY <4>1, <4>2, <4>4, <4>5, <1>p DEF RunDirs, OthersRun
    <3>2. CASE ~NewRunDir(p, i)
      <4>1. UNCHANGED runs /\ Proceed(w, "failing")
        BY <2>2, <3>2 DEF MakeRunDir, runs
      <4>2. OthersRun(w) /\ wrk'[w].pc = "failing"
        BY <4>1, <1>p, <1>e, WorkerMoves
      <4>3. QED
        BY <1>1, <4>1, <4>2 DEF OthersRun
    <3>3. QED
      BY <3>1, <3>2
  <2>3. CASE RunPipeline(w)
    <3>1. RunningAt(w) /\ wrk[w].pc = "pipeline" /\ UNCHANGED <<dirs, active>>
      BY <2>3 DEF RunPipeline, RunningAt, RunPcs
    <3>2. CASE Proceed(w, "failing") /\ UNCHANGED complete
      <4>1. OthersRun(w) /\ wrk'[w].pc = "failing"
        BY <3>2, <1>p, <1>e, WorkerMoves
      <4>2. QED
        BY <1>1, <3>1, <3>2, <4>1 DEF OthersRun, runs
    <3>3. CASE complete' = [complete EXCEPT ![p] = @ \cup {i}] /\ Proceed(w, "publish")
      <4>1. /\ OthersRun(w) /\ wrk'[w].pc = "publish" /\ wrk'[w].proj = p /\ wrk'[w].id = i
        BY <3>3, <1>p, <1>e, WorkerMoves
      <4>2. \A q \in Projects : /\ complete[q] \subseteq complete'[q]
                                /\ complete'[q] \subseteq dirs[q]
                                /\ q # p => complete'[q] = complete[q]
        BY <3>1, <3>3, <1>p DEF RunDirs
      <4>3. i \in complete'[p]
        BY <3>3, <1>p
      <4>4. ASSUME NEW v \in Workers, wrk'[v].pc = "pipeline"
            PROVE  wrk'[v].id \in dirs[wrk'[v].proj] \ complete'[wrk'[v].proj]
        <5>1. v # w /\ wrk'[v] = wrk[v] /\ wrk[v].proj # p
          BY <4>1, <4>4, <3>1, <2>a DEF OthersRun
        <5>2. complete'[wrk[v].proj] = complete[wrk[v].proj]
          BY <5>1, <4>2, <1>p
        <5>3. QED
          BY <5>1, <5>2, <4>4 DEF RunDirs
      <4>5. ASSUME NEW v \in Workers, wrk'[v].pc = "publish"
            PROVE  wrk'[v].id \in complete'[wrk'[v].proj]
        <5>1. CASE v = w
          BY <5>1, <4>1, <4>3
        <5>2. CASE v # w
          BY <5>2, <4>1, <4>2, <4>5, <1>p DEF RunDirs, OthersRun
        <5>3. QED
          BY <5>1, <5>2
      <4>6. \A q \in Projects : active[q] # 0 => active[q] \in complete'[q]
        BY <4>2 DEF RunDirs
      <4>7. QED
        BY <3>1, <4>2, <4>4, <4>5, <4>6 DEF RunDirs
    <3>4. QED
      BY <2>3, <3>2, <3>3 DEF RunPipeline
  <2>4. CASE Publish(w)
    <3>1. /\ wrk[w].pc = "publish" /\ UNCHANGED <<dirs, complete>>
          /\ Proceed(w, "prune") \/ Proceed(w, "failing")
          /\ active' \in {active, [active EXCEPT ![p] = i]}
      BY <2>4 DEF Publish
    <3>2. OthersRun(w) /\ wrk'[w].pc \in {"prune", "failing"}
      BY <3>1, <1>p, <1>e, WorkerMoves
    <3>3. \A q \in Projects : active'[q] # 0 => active'[q] \in complete[q]
      BY <3>1, <1>p DEF RunDirs
    <3>4. QED
      BY <3>1, <3>2, <3>3 DEF RunDirs, OthersRun
  <2>5. CASE Prune(w)
    <3>1. /\ wrk[w].pc = "prune" /\ RunningAt(w) /\ UNCHANGED active /\ Proceed(w, "finish")
          /\ dirs' = [dirs EXCEPT ![p] = Kept(p)]
          /\ complete' = [complete EXCEPT ![p] = @ \cap Kept(p)]
      BY <2>5 DEF Prune, RunningAt, RunPcs
    <3>2. OthersRun(w) /\ wrk'[w].pc = "finish"
      BY <3>1, <1>p, <1>e, WorkerMoves
    <3>3. active[p] # 0 => active[p] \in Kept(p)
      BY <1>p DEF RunDirs, Kept
    <3>4. /\ dirs'[p] = Kept(p) /\ complete'[p] = complete[p] \cap Kept(p)
          /\ \A q \in Projects : q # p => dirs'[q] = dirs[q] /\ complete'[q] = complete[q]
      BY <3>1, <1>p
    <3>5. \A v \in Workers : wrk'[v].pc \in {"pipeline", "publish"} => v # w /\ wrk'[v].proj # p
      BY <3>1, <3>2, <2>a DEF OthersRun
    <3>6. QED
      BY <3>1, <3>2, <3>3, <3>4, <3>5, <1>p DEF RunDirs, OthersRun
  <2>6. CASE Progress(w)
    BY <1>2, <2>6 DEF Progress, memory, runs
  <2>7. QED
    BY <1>5, <2>1, <2>2, <2>3, <2>4, <2>5, <2>6 DEF RunStep
<1>6. CASE Crash
  BY <1>1, <1>6 DEF Crash, RestingWorker, disk, runs
<1>7. CASE \E p \in Projects : RepairOrphan(p) \/ AbortRepair(p)
  BY <1>2, <1>7 DEF RepairOrphan, AbortRepair, disk, runs
<1>8. CASE \E r \in Requests, p \in Projects, op \in {"get", "enqueue"} : Lookup(r, p, op)
  BY <1>2, <1>8 DEF Lookup, disk, runs
<1>9. CASE UNCHANGED vars
  BY <1>2, <1>9 DEF vars, memory, disk, runs
<1>10. QED
  BY <1>3, <1>4, <1>5, <1>6, <1>7, <1>8, <1>9 DEF Next

LEMMA DirsAreImmutable ==
  ASSUME WarmInv, RunDirs
  PROVE  RunDirsImmutable
<1> SUFFICES ASSUME NEW p \in Projects, NEW i \in 0..MaxJobs
             PROVE /\ Cardinality(Writers(p, i)) <= 1
                   /\ i \in complete[p] => Writers(p, i) = {}
  BY DEF RunDirsImmutable
<1>1. \A v, w \in Writers(p, i) : v = w
  BY DEF Writers, WarmInv, Alone, RunningAt, RunPcs
<1>2. Cardinality(Writers(p, i)) <= 1
  <2>1. CASE Writers(p, i) = {}
    BY <2>1, FS_EmptySet
  <2>2. CASE Writers(p, i) # {}
    <3>1. PICK w : Writers(p, i) = {w}
      BY <1>1, <2>2
    <3>2. QED
      BY <3>1, FS_Singleton
  <2>3. QED
    BY <2>1, <2>2
<1>3. QED
  BY <1>2 DEF RunDirs, Writers

(* The pointer readers resolve always names a run that is complete and     *)
(* that the retention has not deleted, and no directory has two writers or *)
(* is written once it is complete.                                         *)
THEOREM RunsStay == Warm /\ Spec => []ActiveRunStays /\ []RunDirsImmutable
<1>1. Warm /\ Init => WarmInv /\ RunDirs
  <2>1. Warm /\ Init => RunDirs
    BY DEF Warm, Init, RestingWorker, RunDirs
  <2>2. QED
    BY <2>1, InitWarm
<1>2. Warm /\ WarmInv /\ RunDirs /\ [Next]_vars => WarmInv' /\ RunDirs'
  BY NextWarm, NextRunDirs
<1>3. WarmInv /\ RunDirs => ActiveRunStays /\ RunDirsImmutable
  BY DirsAreImmutable DEF RunDirs, ActiveRunStays
<1>4. CASE Warm
  BY <1>1, <1>2, <1>3, <1>4, PTL DEF Spec
<1>5. QED
  BY <1>4

-----------------------------------------------------------------------------
(* Jobs and published runs, by number.  Every number in use was admitted;  *)
(* a worker runs the job that the map holds for its project, so what it    *)
(* publishes is never older than what was published before it.             *)

(* The records that a thread is about to write. *)
Writing(w) == wrk[w].pc \in {"started", "finished", "failed"}

Counted ==
    /\ \A p \in Projects :
          jobs[p].id <= admitted[p] /\ latest[p].id <= admitted[p] /\ active[p] <= admitted[p]
    /\ \A r \in Requests : req[r].pc = "persist" => req[r].job.id <= admitted[req[r].proj]
    /\ \A w \in Workers : Writing(w) => wrk[w].job.id <= admitted[wrk[w].proj]

InStep ==
    /\ \A w \in Workers : RunningAt(w) => wrk[w].id = jobs[wrk[w].proj].id
    /\ \A p \in Projects : IsActive(jobs[p]) => active[p] <= jobs[p].id
    /\ \A w \in Workers : wrk[w].pc \in {"prune", "finish"} => active[wrk[w].proj] >= wrk[w].id

(* The steps of a run, one by one, as its worker and its record show them. *)
LEMMA RunSteps ==
  ASSUME Warm, WarmInv, NEW w \in Workers, RunStep(w)
  PROVE  /\ UNCHANGED <<pool, req, booting, admitted>>
         /\ OthersRun(w)
         /\ wrk'[w].pc # "idle" => wrk'[w].proj = wrk[w].proj /\ wrk'[w].id = wrk[w].id
         /\ \/ /\ UNCHANGED jobs
               /\ ~Writing(w)'
               /\ RunningAt(w)' => RunningAt(w)
            \/ \E st \in {"processed", "failed"} :
               /\ RunningAt(w) /\ ~RunningAt(w)'
               /\ jobs' = [jobs EXCEPT ![wrk[w].proj] = Marked(wrk[w].proj, st)]
               /\ wrk'[w].job = jobs'[wrk[w].proj]
               /\ st = "processed" => wrk[w].pc = "finish"
               /\ UNCHANGED <<latest, active>>
         /\ \/ UNCHANGED latest
            \/ /\ Writing(w)
               /\ latest' = [latest EXCEPT ![wrk[w].proj] = Snapshot(wrk[w].proj, wrk[w].job)]
            \/ latest' = [latest EXCEPT ![wrk[w].proj] = jobs[wrk[w].proj]]
         /\ \/ UNCHANGED active
            \/ /\ wrk[w].pc = "publish"
               /\ active' = [active EXCEPT ![wrk[w].proj] = wrk[w].id]
               /\ UNCHANGED latest
         /\ wrk'[w].pc = "finish" => wrk[w].pc \in {"prune", "finish"}
         /\ wrk'[w].pc = "prune" => active' = [active EXCEPT ![wrk[w].proj] = wrk[w].id]
<1> DEFINE p == wrk[w].proj
<1>p. /\ jobs \in [Projects -> Job] /\ wrk \in [Workers -> Worker]
      /\ p \in Projects /\ wrk[w].id \in Nat
  BY DEF WarmInv, TypeOK, Worker
<1>e. WrkPcs = {"idle", "started", "mkdir", "pipeline", "publish", "prune",
                "finish", "finished", "failing", "failed"}
  BY DEF WrkPcs
<1>c. {"queued", "running", "processed", "failed"} \subseteq JobStates
  BY DEF JobStates, ActiveStates
<1>1. CASE PersistRunning(w)
  BY <1>1, <1>p, <1>e, WorkerMoves DEF PersistRunning, Writing, RunningAt, RunPcs, runs
<1>2. CASE MakeRunDir(w)
  <2>1. Proceed(w, "pipeline") \/ Proceed(w, "failing")
    BY <1>2 DEF MakeRunDir
  <2>2. /\ OthersRun(w) /\ wrk'[w].pc \in {"pipeline", "failing"}
        /\ wrk'[w].proj = p /\ wrk'[w].id = wrk[w].id
    BY <2>1, <1>p, <1>e, WorkerMoves
  <2>3. QED
    BY <1>2, <2>2 DEF MakeRunDir, Writing, RunningAt, RunPcs
<1>3. CASE Progress(w)
  BY <1>3 DEF Progress, memory, runs, OthersRun, Writing, RunningAt, RunPcs
<1>4. CASE RunPipeline(w)
  BY <1>4, <1>p, <1>e, WorkerMoves DEF RunPipeline, Writing, RunningAt, RunPcs
<1>5. CASE Publish(w)
  BY <1>5, <1>p, <1>e, WorkerMoves DEF Publish, Writing, RunningAt, RunPcs
<1>6. CASE Prune(w)
  BY <1>6, <1>p, <1>e, WorkerMoves DEF Prune, Writing, RunningAt, RunPcs
<1>7. CASE Finish(w)
  <2>1. /\ Update(w, p, "processed", "finished", wrk[w].id) /\ wrk[w].pc = "finish"
        /\ UNCHANGED <<pool, req, booting, admitted, latest, active>>
    BY <1>7 DEF Finish, disk
  <2>2. /\ OthersRun(w) /\ wrk'[w].pc = "finished" /\ wrk'[w].proj = p
        /\ wrk'[w].id = wrk[w].id /\ wrk'[w].job = jobs'[p]
    BY <2>1, <1>p, <1>c, <1>e, UpdateMoves
  <2>3. jobs' = [jobs EXCEPT ![p] = Marked(p, "processed")]
    BY <2>1 DEF Update
  <2>4. RunningAt(w) /\ ~RunningAt(w)'
    BY <2>1, <2>2 DEF RunningAt, RunPcs
  <2>5. QED
    BY <2>1, <2>2, <2>3, <2>4
<1>8. CASE PersistFinished(w)
  BY <1>8, <1>p, <1>e, WorkerMoves
     DEF PersistFinished, Fault, Warm, Writing, RunningAt, RunPcs, runs
<1>9. CASE Fail(w)
  <2>1. /\ Update(w, p, "failed", "failed", wrk[w].id) /\ wrk[w].pc = "failing"
        /\ UNCHANGED <<pool, req, booting, admitted, latest, active>>
    BY <1>9 DEF Fail, disk
  <2>2. /\ OthersRun(w) /\ wrk'[w].pc = "failed" /\ wrk'[w].proj = p
        /\ wrk'[w].id = wrk[w].id /\ wrk'[w].job = jobs'[p]
    BY <2>1, <1>p, <1>c, <1>e, UpdateMoves
  <2>3. jobs' = [jobs EXCEPT ![p] = Marked(p, "failed")]
    BY <2>1 DEF Update
  <2>4. RunningAt(w) /\ ~RunningAt(w)'
    BY <2>1, <2>2 DEF RunningAt, RunPcs
  <2>5. QED
    BY <2>1, <2>2, <2>3, <2>4
<1>10. CASE PersistFailed(w)
  BY <1>10, <1>p, <1>e, WorkerMoves DEF PersistFailed, Writing, RunningAt, RunPcs, runs
<1>11. QED
  BY <1>1, <1>2, <1>3, <1>4, <1>5, <1>6, <1>7, <1>8, <1>9, <1>10 DEF RunStep

(* What a request does, in a warm cache, to the jobs and to the records.   *)
LEMMA RequestSteps ==
  ASSUME Warm, WarmInv, NEW r \in Requests, RequestStep(r)
  PROVE  /\ UNCHANGED <<wrk, booting, active>> /\ OthersWait(r)
         /\ \/ /\ Admits(req[r].proj) /\ UNCHANGED latest
               /\ req'[r].pc = "persist" /\ req'[r].proj = req[r].proj
               /\ req'[r].job = New(req[r].proj)
            \/ /\ UNCHANGED <<jobs, admitted>> /\ req'[r].pc # "persist"
               /\ \/ UNCHANGED latest
                  \/ /\ req[r].pc = "persist"
                     /\ latest' = [latest EXCEPT ![req[r].proj] =
                                     Snapshot(req[r].proj, req[r].job)]
<1>p. /\ req \in [Requests -> Request] /\ req[r].proj \in Projects
      /\ admitted \in [Projects -> Nat]
  BY DEF WarmInv, TypeOK, Request
<1>d. ReqPcs = {"idle", "load", "interrupt", "install", "admit", "persist", "submit"}
  BY DEF ReqPcs
<1>1. CASE LoadRecord(r) \/ PersistInterrupted(r) \/ InstallLoaded(r)
  BY <1>1 DEF LoadRecord, PersistInterrupted, InstallLoaded, WarmInv, Cached
<1>2. CASE Admit(r)
  <2>1. UNCHANGED <<wrk, booting, active, latest>>
    BY <1>2 DEF Admit, disk
  <2>2. CASE MayAdmit(req[r].proj)
    <3>1. Admits(req[r].proj) /\ Carry(r, "persist", New(req[r].proj))
      BY <1>2, <2>1, <2>2 DEF Admit, Admits, New
    <3>2. New(req[r].proj) \in Job
      BY <1>p DEF New, Job, JobStates, ActiveStates
    <3>3. QED
      BY <2>1, <3>1, <3>2, <1>p, <1>d, RequestMoves
  <2>3. CASE ~MayAdmit(req[r].proj)
    BY <1>2, <2>1, <2>3, <1>p, RequestMoves DEF Admit
  <2>4. QED
    BY <2>2, <2>3
<1>3. CASE PersistAdmitted(r)
  BY <1>3, <1>p, <1>d, RequestMoves DEF PersistAdmitted, runs
<1>4. CASE Submit(r)
  BY <1>4, <1>p, RequestMoves DEF Submit, disk
<1>5. QED
  BY <1>1, <1>2, <1>3, <1>4 DEF RequestStep

(* What taking a job does. *)
LEMMA TakeSteps ==
  ASSUME WarmInv, NEW w \in Workers, TakeJob(w)
  PROVE  \E p \in Projects :
            /\ IsActive(jobs[p])
            /\ jobs' = [jobs EXCEPT ![p] = Marked(p, "running")]
            /\ OthersRun(w) /\ wrk'[w].pc = "started" /\ wrk'[w].proj = p
            /\ wrk'[w].id = jobs[p].id /\ wrk'[w].job = jobs'[p]
            /\ UNCHANGED <<req, latest, active, admitted, booting>>
<1> DEFINE p == Head(pool)
<1>p. jobs \in [Projects -> Job] /\ wrk \in [Workers -> Worker] /\ pool \in Seq(Projects)
  BY DEF WarmInv, TypeOK
<1>1. /\ p \in Projects /\ 1 \in DOMAIN pool /\ p = pool[1]
      /\ Update(w, p, "running", "started", jobs[p].id)
      /\ UNCHANGED <<req, latest, active, admitted, booting>>
  BY <1>p DEF TakeJob, disk
<1>2. IsActive(jobs[p])
  BY <1>1 DEF WarmInv, Shown
<1>3. "running" \in JobStates /\ "started" \in WrkPcs /\ jobs[p].id \in Nat
  BY <1>p, <1>1 DEF JobStates, ActiveStates, WrkPcs, Job
<1>4. /\ OthersRun(w) /\ wrk'[w].pc = "started" /\ wrk'[w].proj = p
      /\ wrk'[w].id = jobs[p].id /\ wrk'[w].job = jobs'[p]
  BY <1>1, <1>3, <1>p, UpdateMoves
<1>5. jobs' = [jobs EXCEPT ![p] = Marked(p, "running")]
  BY <1>1 DEF Update
<1>6. QED
  BY <1>1, <1>2, <1>4, <1>5

(* A change of state keeps the number of the job. *)
LEMMA MarkKeepsId ==
  ASSUME jobs \in [Projects -> Job], NEW p \in Projects, NEW st,
         jobs' = [jobs EXCEPT ![p] = Marked(p, st)]
  PROVE  /\ \A q \in Projects : jobs'[q].id = jobs[q].id
         /\ \A q \in Projects : q # p => jobs'[q] = jobs[q]
         /\ jobs'[p].state = st
BY DEF Marked, Job

LEMMA NextCounted == Warm /\ WarmInv /\ Counted /\ InStep /\ [Next]_vars => Counted'
<1> SUFFICES ASSUME Warm, WarmInv, Counted, InStep, [Next]_vars PROVE Counted'
  OBVIOUS
<1>p. /\ jobs \in [Projects -> Job] /\ latest \in [Projects -> Job]
      /\ req \in [Requests -> Request] /\ wrk \in [Workers -> Worker]
      /\ admitted \in [Projects -> Nat] /\ active \in [Projects -> Nat]
      /\ \A p \in Projects : jobs[p].id \in Nat /\ latest[p].id \in Nat
      /\ \A r \in Requests : req[r].proj \in Projects /\ req[r].job \in Job /\ req[r].job.id \in Nat
      /\ \A w \in Workers : wrk[w].proj \in Projects /\ wrk[w].job \in Job /\ wrk[w].id \in Nat
                            /\ wrk[w].job.id \in Nat
  BY DEF WarmInv, TypeOK, Request, Worker, Job
<1>s. /\ \A r \in Requests : Snapshot(req[r].proj, req[r].job).id = req[r].job.id
      /\ \A w \in Workers : Snapshot(wrk[w].proj, wrk[w].job).id = wrk[w].job.id
  BY <1>p, SnapshotOfJob
<1>1. ASSUME NEW r \in Requests, RequestStep(r) PROVE Counted'
  <2>a. UNCHANGED <<wrk, booting, active>> /\ OthersWait(r)
    BY <1>1, RequestSteps
  <2>1. ASSUME Admits(req[r].proj), UNCHANGED latest,
               req'[r].pc = "persist", req'[r].proj = req[r].proj, req'[r].job = New(req[r].proj)
        PROVE Counted'
    <3> DEFINE q == req[r].proj
    <3>1. /\ \A p \in Projects : admitted'[p] \in Nat /\ admitted[p] <= admitted'[p]
          /\ admitted'[q] = New(q).id /\ q \in Projects
      BY <2>1, <1>p DEF Admits, New
    <3>2. \A p \in Projects : jobs'[p] = IF p = q THEN New(q) ELSE jobs[p]
      BY <2>1, <1>p DEF Admits
    <3> HIDE DEF q
    <3>3. \A p \in Projects : jobs'[p].id <= admitted'[p]
      BY <3>1, <3>2, <1>p DEF Counted
    <3>4. \A p \in Projects : latest'[p].id <= admitted'[p] /\ active'[p] <= admitted'[p]
      BY <3>1, <2>1, <2>a, <1>p DEF Counted
    <3>5. \A s \in Requests : req'[s].pc = "persist" => req'[s].job.id <= admitted'[req'[s].proj]
      BY <3>1, <2>1, <2>a, <1>p DEF Counted, OthersWait, q
    <3>6. ASSUME NEW w \in Workers, Writing(w)'
          PROVE  wrk'[w].job.id <= admitted'[wrk'[w].proj]
      <4>1. wrk'[w] = wrk[w] /\ wrk[w].job.id <= admitted[wrk[w].proj]
        BY <3>6, <2>a DEF Counted, Writing
      <4>2. QED
        BY <4>1, <3>1, <1>p
    <3>7. QED
      BY <3>3, <3>4, <3>5, <3>6 DEF Counted, Writing
  <2>2. ASSUME UNCHANGED <<jobs, admitted>>, req'[r].pc # "persist",
               \/ UNCHANGED latest
               \/ /\ req[r].pc = "persist"
                  /\ latest' = [latest EXCEPT ![req[r].proj] = Snapshot(req[r].proj, req[r].job)]
        PROVE Counted'
    <3>1. \A p \in Projects : latest'[p].id <= admitted[p]
      BY <2>2, <1>p, <1>s DEF Counted
    <3>2. QED
      BY <2>2, <2>a, <3>1 DEF Counted, OthersWait, Writing
  <2>3. QED
    BY <1>1, <2>1, <2>2, RequestSteps
<1>2. ASSUME NEW w \in Workers, TakeJob(w) PROVE Counted'
  <2>1. PICK p \in Projects :
            /\ jobs' = [jobs EXCEPT ![p] = Marked(p, "running")]
            /\ OthersRun(w) /\ wrk'[w].pc = "started" /\ wrk'[w].proj = p
            /\ wrk'[w].job = jobs'[p]
            /\ UNCHANGED <<req, latest, active, admitted>>
    BY <1>2, TakeSteps
  <2>2. \A q \in Projects : jobs'[q].id = jobs[q].id
    BY <2>1, <1>p, MarkKeepsId
  <2>3. QED
    BY <2>1, <2>2 DEF Counted, OthersRun, Writing
<1>3. ASSUME NEW w \in Workers, RunStep(w) PROVE Counted'
  <2>1. UNCHANGED <<req, admitted>> /\ OthersRun(w)
    BY <1>3, RunSteps
  <2>2. \A p \in Projects : jobs'[p].id = jobs[p].id
    BY <1>3, <1>p, RunSteps, MarkKeepsId
  <2>3. Writing(w)' => wrk'[w].job = jobs'[wrk'[w].proj] /\ wrk'[w].proj \in Projects
    BY <1>3, <1>p, RunSteps DEF Writing
  <2>4. \A p \in Projects : latest'[p].id <= admitted[p]
    BY <1>3, <1>p, <1>s, RunSteps DEF Counted
  <2>5. \A p \in Projects : active'[p] <= admitted[p]
    <3>1. wrk[w].pc = "publish" => wrk[w].id <= admitted[wrk[w].proj]
      BY <1>p DEF InStep, Counted, RunningAt, RunPcs
    <3>2. QED
      BY <1>3, <3>1, <1>p, RunSteps DEF Counted
  <2>6. QED
    BY <2>1, <2>2, <2>3, <2>4, <2>5 DEF Counted, OthersRun, Writing
<1>4. CASE Crash
  BY <1>4, <1>p DEF Crash, RestingRequest, RestingWorker, NoJob, disk, Counted, Writing
<1>5. ASSUME NEW p \in Projects, RepairOrphan(p) PROVE Counted'
  <2>1. Recovered(latest[p]).id = latest[p].id
    BY <1>p, RecordsKeepId DEF Recovered
  <2>2. QED
    BY <1>5, <2>1, <1>p DEF RepairOrphan, runs, Counted, Writing
<1>6. ASSUME NEW p \in Projects, AbortRepair(p) PROVE Counted'
  BY <1>6 DEF AbortRepair, disk, Counted, Writing
<1>7. ASSUME NEW r \in Requests, NEW p \in Projects, NEW op \in {"get", "enqueue"},
             Lookup(r, p, op)
      PROVE Counted'
  <2>1. req'[r].pc # "persist" /\ OthersWait(r)
    BY <1>7, <1>p DEF Lookup, OthersWait
  <2>2. QED
    BY <1>7, <2>1 DEF Lookup, disk, Counted, OthersWait, Writing
<1>8. CASE UNCHANGED vars
  BY <1>8 DEF vars, memory, disk, Counted, Writing
<1>9. QED
  BY <1>1, <1>2, <1>3, <1>4, <1>5, <1>6, <1>7, <1>8 DEF Next

LEMMA NextInStep == Warm /\ WarmInv /\ Counted /\ InStep /\ [Next]_vars => InStep'
<1> SUFFICES ASSUME Warm, WarmInv, Counted, InStep, [Next]_vars PROVE InStep'
  OBVIOUS
<1>p. /\ jobs \in [Projects -> Job] /\ latest \in [Projects -> Job]
      /\ wrk \in [Workers -> Worker]
      /\ admitted \in [Projects -> Nat] /\ active \in [Projects -> Nat]
      /\ \A p \in Projects : jobs[p].id \in Nat
      /\ \A r \in Requests : req[r].proj \in Projects
      /\ \A w \in Workers : wrk[w].proj \in Projects /\ wrk[w].id \in Nat
  BY DEF WarmInv, TypeOK, Request, Worker, Job
<1>1. CASE UNCHANGED <<jobs, wrk, active>>
  BY <1>1 DEF InStep, IsActive, RunningAt
<1>2. ASSUME NEW r \in Requests, RequestStep(r) PROVE InStep'
  <2> DEFINE q == req[r].proj
  <2>1. UNCHANGED <<wrk, active>> /\ (UNCHANGED jobs \/ Admits(q))
    BY <1>2, RequestSteps
  <2>2. CASE Admits(q)
    <3>1. \A p \in Projects : jobs'[p] = IF p = q THEN New(q) ELSE jobs[p]
      BY <2>2, <1>p DEF Admits
    <3>2. \A w \in Workers : RunningAt(w) => wrk[w].proj # q
      BY <2>2 DEF Admits, MayAdmit, WarmInv, Shown
    <3>3. active[q] <= New(q).id
      BY <1>p DEF Counted, New
    <3> HIDE DEF q
    <3>4. QED
      BY <2>1, <3>1, <3>2, <3>3, <1>p DEF InStep, IsActive, RunningAt
  <2>3. QED
    BY <1>1, <2>1, <2>2
<1>3. ASSUME NEW w \in Workers, TakeJob(w) PROVE InStep'
  <2>1. PICK p \in Projects :
            /\ IsActive(jobs[p])
            /\ jobs' = [jobs EXCEPT ![p] = Marked(p, "running")]
            /\ OthersRun(w) /\ wrk'[w].pc = "started" /\ wrk'[w].proj = p
            /\ wrk'[w].id = jobs[p].id
            /\ UNCHANGED active
    BY <1>3, TakeSteps
  <2>2. \A q \in Projects : /\ jobs'[q].id = jobs[q].id
                            /\ IsActive(jobs'[q]) => IsActive(jobs[q])
    BY <2>1, <1>p, MarkKeepsId
  <2>3. QED
    BY <2>1, <2>2, <1>p DEF InStep, IsActive, RunningAt, OthersRun
<1>4. ASSUME NEW w \in Workers, RunStep(w) PROVE InStep'
  <2> DEFINE q == wrk[w].proj
  <2>1. /\ OthersRun(w) /\ (RunningAt(w)' => RunningAt(w))
        /\ RunningAt(w)' => wrk'[w].proj = q /\ wrk'[w].id = wrk[w].id
    BY <1>4, RunSteps DEF RunningAt, RunPcs
  <2>2. \A p \in Projects : /\ jobs'[p].id = jobs[p].id
                            /\ IsActive(jobs'[p]) => IsActive(jobs[p])
    <3>1. CASE UNCHANGED jobs
      BY <3>1 DEF IsActive
    <3>2. ASSUME NEW st \in {"processed", "failed"}, jobs' = [jobs EXCEPT ![q] = Marked(q, st)]
          PROVE  \A p \in Projects : /\ jobs'[p].id = jobs[p].id
                                     /\ IsActive(jobs'[p]) => IsActive(jobs[p])
      BY <3>2, <1>p, MarkKeepsId DEF IsActive, ActiveStates
    <3>3. QED
      BY <1>4, <3>1, <3>2, RunSteps
  <2>3. \/ UNCHANGED active
        \/ /\ wrk[w].pc = "publish"
           /\ active' = [active EXCEPT ![q] = wrk[w].id]
    BY <1>4, RunSteps
  <2>4. wrk[w].pc = "publish" => RunningAt(w) /\ wrk[w].id = jobs[q].id
    BY DEF RunningAt, RunPcs, InStep
  <2>5. \A p \in Projects : IsActive(jobs'[p]) => active'[p] <= jobs'[p].id
    BY <2>2, <2>3, <2>4, <1>p DEF InStep
  <2>6. \A v \in Workers : RunningAt(v)' => wrk'[v].id = jobs'[wrk'[v].proj].id
    BY <2>1, <2>2, <1>p DEF InStep, RunningAt, OthersRun
  <2>7. ASSUME NEW v \in Workers, wrk'[v].pc \in {"prune", "finish"}
        PROVE  active'[wrk'[v].proj] >= wrk'[v].id
    <3>1. CASE v = w
      <4>1. wrk'[w].proj = q /\ wrk'[w].id = wrk[w].id
        BY <2>1, <2>7, <3>1 DEF RunningAt, RunPcs
      <4>2. CASE wrk'[w].pc = "prune"
        BY <1>4, <3>1, <4>1, <4>2, <1>p, RunSteps
      <4>3. CASE wrk'[w].pc = "finish"
        <5>1. wrk[w].pc \in {"prune", "finish"} /\ UNCHANGED active
          BY <1>4, <4>3, <2>3, RunSteps
        <5>2. QED
          BY <3>1, <4>1, <5>1 DEF InStep
      <4>4. QED
        BY <2>7, <3>1, <4>2, <4>3
    <3>2. CASE v # w
      <4>1. wrk'[v] = wrk[v] /\ RunningAt(v)
        BY <2>1, <2>7, <3>2 DEF OthersRun, RunningAt, RunPcs
      <4>2. wrk[w].pc = "publish" => wrk[v].proj # q
        BY <2>4, <3>2, <4>1 DEF WarmInv, Alone
      <4>3. active'[wrk[v].proj] = active[wrk[v].proj]
        BY <2>3, <4>2, <1>p
      <4>4. QED
        BY <2>7, <4>1, <4>3 DEF InStep
    <3>3. QED
      BY <3>1, <3>2
  <2>8. QED
    BY <2>5, <2>6, <2>7 DEF InStep, RunningAt, IsActive
<1>5. CASE Crash
  BY <1>5 DEF Crash, RestingWorker, NoJob, InStep, RunningAt, RunPcs, IsActive, ActiveStates
<1>6. ASSUME NEW p \in Projects, RepairOrphan(p) PROVE InStep'
  <2>1. \A w \in Workers : wrk'[w].pc = "idle"
    BY <1>6 DEF RepairOrphan, WarmInv, Cached
  <2>2. ~IsActive(Recovered(latest[p]))
    BY <1>p DEF Recovered, IsActive, ActiveStates, Job
  <2>3. QED
    BY <1>6, <2>1, <2>2, <1>p DEF RepairOrphan, runs, InStep, RunningAt, RunPcs, IsActive
<1>7. ASSUME NEW p \in Projects, AbortRepair(p) PROVE InStep'
  BY <1>1, <1>7 DEF AbortRepair, disk
<1>8. ASSUME NEW r \in Requests, NEW p \in Projects, NEW op \in {"get", "enqueue"},
             Lookup(r, p, op)
      PROVE InStep'
  BY <1>1, <1>8 DEF Lookup, disk
<1>9. CASE UNCHANGED vars
  BY <1>1, <1>9 DEF vars, memory, disk
<1>10. QED
  BY <1>2, <1>3, <1>4, <1>5, <1>6, <1>7, <1>8, <1>9 DEF Next

(* No record says more than the pointer readers resolve.                   *)
Reached(p, job) == job.state = "processed" => active[p] >= job.id

Truthful ==
    /\ \A p \in Projects : Reached(p, jobs[p]) /\ Reached(p, latest[p])
    /\ \A r \in Requests : req[r].pc = "persist" => Reached(req[r].proj, req[r].job)
    /\ \A w \in Workers : Writing(w) => Reached(wrk[w].proj, wrk[w].job)

LEMMA NextTruthful == Warm /\ WarmInv /\ InStep /\ Truthful /\ [Next]_vars => Truthful'
<1> SUFFICES ASSUME Warm, WarmInv, InStep, Truthful, [Next]_vars PROVE Truthful'
  OBVIOUS
<1>p. /\ jobs \in [Projects -> Job] /\ latest \in [Projects -> Job]
      /\ req \in [Requests -> Request] /\ wrk \in [Workers -> Worker]
      /\ active \in [Projects -> Nat]
      /\ \A p \in Projects : jobs[p].id \in Nat /\ latest[p].id \in Nat
      /\ \A r \in Requests : req[r].proj \in Projects /\ req[r].job.id \in Nat
      /\ \A w \in Workers : wrk[w].proj \in Projects /\ wrk[w].id \in Nat /\ wrk[w].job.id \in Nat
  BY DEF WarmInv, TypeOK, Request, Worker, Job
<1>s. /\ \A r \in Requests : req[r].pc = "persist" =>
            Reached(req[r].proj, Snapshot(req[r].proj, req[r].job))
      /\ \A w \in Workers : Writing(w) => Reached(wrk[w].proj, Snapshot(wrk[w].proj, wrk[w].job))
  BY <1>p DEF Truthful, Snapshot
<1>1. CASE UNCHANGED <<jobs, latest, req, wrk, active>>
  BY <1>1 DEF Truthful, Reached, Writing
<1>2. ASSUME NEW r \in Requests, RequestStep(r) PROVE Truthful'
  <2> DEFINE q == req[r].proj
  <2>1. UNCHANGED <<wrk, active>> /\ OthersWait(r)
    BY <1>2, RequestSteps
  <2>2. ASSUME Admits(q), UNCHANGED latest, req'[r].job = New(q)
        PROVE Truthful'
    <3>1. New(q).state # "processed"
      BY DEF New
    <3>2. \A p \in Projects : jobs'[p] = IF p = q THEN New(q) ELSE jobs[p]
      BY <2>2, <1>p DEF Admits
    <3> HIDE DEF q
    <3>3. QED
      BY <2>1, <2>2, <3>1, <3>2 DEF Truthful, Reached, Writing, OthersWait
  <2>3. ASSUME UNCHANGED jobs, req'[r].pc # "persist",
               \/ UNCHANGED latest
               \/ /\ req[r].pc = "persist"
                  /\ latest' = [latest EXCEPT ![q] = Snapshot(q, req[r].job)]
        PROVE Truthful'
    <3>1. \A p \in Projects : Reached(p, latest'[p])
      BY <2>3, <1>p, <1>s DEF Truthful
    <3>2. QED
      BY <2>1, <2>3, <3>1 DEF Truthful, Reached, Writing, OthersWait
  <2>4. QED
    BY <1>2, <2>2, <2>3, RequestSteps
<1>3. ASSUME NEW w \in Workers, TakeJob(w) PROVE Truthful'
  <2>1. PICK p \in Projects :
            /\ jobs' = [jobs EXCEPT ![p] = Marked(p, "running")]
            /\ OthersRun(w) /\ wrk'[w].proj = p /\ wrk'[w].job = jobs'[p]
            /\ UNCHANGED <<req, latest, active>>
    BY <1>3, TakeSteps
  <2>2. \A q \in Projects : q # p => jobs'[q] = jobs[q]
    BY <2>1, <1>p
  <2>3. jobs'[p].state = "running"
    BY <2>1, <1>p, MarkKeepsId
  <2>4. QED
    BY <2>1, <2>2, <2>3 DEF Truthful, Reached, Writing, OthersRun
<1>4. ASSUME NEW w \in Workers, RunStep(w) PROVE Truthful'
  <2> DEFINE q == wrk[w].proj
  <2>1. UNCHANGED req /\ OthersRun(w)
    BY <1>4, RunSteps
  <2>2. \A p \in Projects : active'[p] \in Nat /\ active'[p] >= active[p]
    <3>1. wrk[w].pc = "publish" => active[q] <= wrk[w].id
      BY <1>p DEF InStep, RunningAt, RunPcs, WarmInv, Shown
    <3>2. \/ UNCHANGED active
          \/ wrk[w].pc = "publish" /\ active' = [active EXCEPT ![q] = wrk[w].id]
      BY <1>4, RunSteps
    <3>3. QED
      BY <3>1, <3>2, <1>p
  <2>3. \A p \in Projects : Reached(p, jobs'[p])
    <3>1. CASE UNCHANGED jobs
      BY <3>1 DEF Truthful
    <3>2. ASSUME NEW st \in {"processed", "failed"}, RunningAt(w),
                 st = "processed" => wrk[w].pc = "finish",
                 jobs' = [jobs EXCEPT ![q] = Marked(q, st)]
          PROVE  \A p \in Projects : Reached(p, jobs'[p])
      <4>1. /\ jobs'[q].id = jobs[q].id /\ jobs'[q].state = st
            /\ \A p \in Projects : p # q => jobs'[p] = jobs[p]
        BY <3>2, <1>p, MarkKeepsId
      <4>2. st = "processed" => active[q] >= jobs[q].id
        BY <3>2 DEF InStep
      <4>3. QED
        BY <4>1, <4>2 DEF Truthful, Reached
    <3>3. QED
      BY <1>4, <3>1, <3>2, RunSteps
  <2>4. \A p \in Projects : Reached(p, latest'[p])
    <3>1. PICK job : \/ latest' = latest
                     \/ Reached(q, job) /\ latest' = [latest EXCEPT ![q] = job]
      <4>1. Reached(q, jobs[q]) /\ (Writing(w) => Reached(q, Snapshot(q, wrk[w].job)))
        BY <1>p, <1>s DEF Truthful
      <4>2. QED
        BY <1>4, <4>1, RunSteps
    <3>2. QED
      BY <3>1, <1>p DEF Truthful
  <2>5. Writing(w)' => wrk'[w].job = jobs'[q] /\ wrk'[w].proj = q
    BY <1>4, RunSteps DEF Writing
  <2>6. \A p \in Projects : jobs'[p].id \in Nat /\ latest'[p].id \in Nat
    BY NextTypeOK DEF WarmInv, TypeOK, Job
  <2>7. \A p \in Projects : Reached(p, jobs[p])' /\ Reached(p, latest[p])'
    BY <2>2, <2>3, <2>4, <2>6, <1>p DEF Reached
  <2>8. \A r \in Requests : req'[r].pc = "persist" => Reached(req[r].proj, req[r].job)'
    BY <2>1, <2>2, <1>p DEF Truthful, Reached
  <2>9. \A v \in Workers : Writing(v)' => Reached(wrk[v].proj, wrk[v].job)'
    BY <2>1, <2>2, <2>5, <2>7, <1>p DEF Truthful, Reached, Writing, OthersRun
  <2>10. QED
    BY <2>7, <2>8, <2>9 DEF Truthful, Reached, Writing
<1>5. CASE Crash
  BY <1>5 DEF Crash, RestingRequest, RestingWorker, NoJob, disk, Truthful, Reached, Writing
<1>6. ASSUME NEW p \in Projects, RepairOrphan(p) PROVE Truthful'
  <2>1. Reached(p, Recovered(latest[p]))
    BY <1>p DEF Recovered, Truthful, Reached, Job
  <2>2. QED
    BY <1>6, <2>1, <1>p DEF RepairOrphan, runs, Truthful, Reached, Writing
<1>7. ASSUME NEW p \in Projects, AbortRepair(p) PROVE Truthful'
  BY <1>1, <1>7 DEF AbortRepair, disk
<1>8. ASSUME NEW r \in Requests, NEW p \in Projects, NEW op \in {"get", "enqueue"},
             Lookup(r, p, op)
      PROVE Truthful'
  <2>1. req'[r].pc # "persist" /\ OthersWait(r)
    BY <1>8, <1>p DEF Lookup, OthersWait
  <2>2. QED
    BY <1>8, <2>1 DEF Lookup, disk, Truthful, Reached, OthersWait, Writing
<1>9. CASE UNCHANGED vars
  BY <1>1, <1>9 DEF vars, memory, disk
<1>10. QED
  BY <1>2, <1>3, <1>4, <1>5, <1>6, <1>7, <1>8, <1>9 DEF Next

(* A job shown as processed, in memory or in its record, is one whose run  *)
(* readers see, or that a later run has replaced.                          *)
THEOREM ProcessedMeansPublished == Warm /\ Spec => []ProcessedIsPublished
<1> DEFINE Inv == WarmInv /\ Counted /\ InStep /\ Truthful
<1>1. Warm /\ Init => Inv
  <2>1. Warm /\ Init => Counted /\ InStep /\ Truthful
    BY DEF Warm, Init, RestingRequest, RestingWorker, Counted, InStep, Truthful, Reached,
           Writing, RunningAt, RunPcs, IsActive, ActiveStates
  <2>2. QED
    BY <2>1, InitWarm
<1>2. Warm /\ Inv /\ [Next]_vars => Inv'
  BY NextWarm, NextCounted, NextInStep, NextTruthful
<1>3. Inv => ProcessedIsPublished
  BY DEF Truthful, Reached, ProcessedIsPublished
<1>4. CASE Warm
  BY <1>1, <1>2, <1>3, <1>4, PTL DEF Spec
<1>5. QED
  BY <1>4

-----------------------------------------------------------------------------
(* The scheduler implements ProjectRuns, step by step.                     *)

Current == [p \in Projects |-> IF IsActive(jobs[p]) THEN jobs[p].id ELSE 0]

(* ProjectRuns counts as this module does. *)
LEMMA SameCardinality == \A S : Promise!Cardinality(S) = Cardinality(S)
BY DEF Promise!Cardinality, Cardinality

LEMMA InitMaps == Init => Promise!Init
<1> SUFFICES ASSUME Init PROVE Promise!Init
  OBVIOUS
<1>1. \A p \in Projects : ~IsActive(jobs[p])
  BY DEF Init, NoJob, IsActive, ActiveStates
<1>2. /\ admitted \in [Projects -> Nat] /\ active \in [Projects -> Nat]
      /\ \A p \in Projects : active[p] <= admitted[p]
  BY DEF Init
<1>3. QED
  BY <1>1, <1>2 DEF Promise!Init

LEMMA StepMaps ==
  ASSUME Warm, WarmInv, InStep, [Next]_vars
  PROVE  [Promise!Next]_(Promise!vars)
<1> DEFINE Step == \/ \E p \in Projects : Promise!Begin(p) \/ Promise!Publish(p) \/ Promise!End(p)
                   \/ Promise!Lose
                   \/ UNCHANGED <<Current, active, admitted>>
<1> SUFFICES Step
  BY DEF Promise!Next, Promise!vars, Current
<1>p. /\ jobs \in [Projects -> Job] /\ latest \in [Projects -> Job]
      /\ admitted \in [Projects -> Nat] /\ active \in [Projects -> Nat]
      /\ \A p \in Projects : jobs[p].id \in Nat
      /\ \A w \in Workers : wrk[w].proj \in Projects
  BY DEF WarmInv, TypeOK, Worker, Job
<1>1. ASSUME NEW q \in Projects, Admits(q) PROVE Step
  <2>1. Cardinality(Promise!Busy) < Capacity
    <3>1. Promise!Busy \in SUBSET ActiveProjects
      BY DEF Promise!Busy, ActiveProjects
    <3>2. Cardinality(Promise!Busy) <= Cardinality(ActiveProjects)
      BY <3>1, ActiveIsFinite, FS_Subset
    <3>3. Cardinality(Promise!Busy) \in Nat
      BY <3>1, ActiveIsFinite, FS_Subset, FS_CardinalityType
    <3>4. QED
      BY <1>1, <3>2, <3>3, ActiveIsFinite DEF Admits, MayAdmit
  <2>2. Current[q] = 0
    BY <1>1 DEF Current, Admits, MayAdmit
  <2>3. Current' = [Current EXCEPT ![q] = admitted[q] + 1]
    <3>1. \A p \in Projects : jobs'[p] = IF p = q THEN New(q) ELSE jobs[p]
      BY <1>1, <1>p DEF Admits
    <3>2. IsActive(New(q)) /\ New(q).id = admitted[q] + 1
      BY DEF New, IsActive, ActiveStates
    <3>3. \A p \in Projects : Current'[p] = IF p = q THEN admitted[q] + 1 ELSE Current[p]
      BY <3>1, <3>2 DEF Current, IsActive
    <3>4. QED
      BY <3>3 DEF Current
  <2>4. Promise!Begin(q)
    BY <1>1, <2>1, <2>2, <2>3, SameCardinality DEF Promise!Begin, Current, Admits
  <2>5. QED
    BY <2>4
<1>2. ASSUME NEW q \in Projects, UNCHANGED <<active, admitted>>,
             \A p \in Projects : p # q => jobs'[p] = jobs[p],
             ~IsActive(jobs'[q])
      PROVE Step
  <2>1. \A p \in Projects : Current'[p] = IF p = q THEN 0 ELSE Current[p]
    BY <1>2 DEF Current, IsActive
  <2>2. Current' = [Current EXCEPT ![q] = 0]
    BY <2>1 DEF Current
  <2>3. CASE Current[q] = 0
    BY <1>2, <2>2, <2>3 DEF Current
  <2>4. CASE Current[q] # 0
    <3>1. Promise!End(q)
      BY <1>2, <2>2, <2>4 DEF Promise!End, Current
    <3>2. QED
      BY <3>1
  <2>5. QED
    BY <2>3, <2>4
<1>3. ASSUME NEW q \in Projects, NEW st \in {"running", "processed", "failed"}, Marks(q, st)
      PROVE Step
  <2>1. /\ \A p \in Projects : jobs'[p].id = jobs[p].id
        /\ \A p \in Projects : p # q => jobs'[p] = jobs[p]
        /\ jobs'[q].state = st
    BY <1>3, <1>p, MarkKeepsId DEF Marks
  <2>2. CASE st = "running"
    <3>1. \A p \in Projects : IsActive(jobs'[p]) <=> IsActive(jobs[p])
      BY <1>3, <2>1, <2>2 DEF Marks, IsActive, ActiveStates
    <3>2. \A p \in Projects : Current'[p] = Current[p]
      BY <2>1, <3>1 DEF Current, IsActive
    <3>3. Current' = Current
      BY <3>2 DEF Current
    <3>4. QED
      BY <1>3, <3>3 DEF Marks
  <2>3. CASE st # "running"
    BY <1>2, <1>3, <2>1, <2>3 DEF Marks, IsActive, ActiveStates
  <2>4. QED
    BY <2>2, <2>3
<1>4. ASSUME NEW w \in Workers, Publishes(w) PROVE Step
  <2> DEFINE q == wrk[w].proj
  <2>1. RunningAt(w) /\ q \in Projects
    BY <1>4, <1>p DEF Publishes, RunningAt, RunPcs
  <2>2. IsActive(jobs[q]) /\ jobs[q].id # 0 /\ wrk[w].id = jobs[q].id
    BY <1>4, <2>1 DEF Publishes, WarmInv, Shown, Cached, InStep
  <2>3. Current[q] # 0 /\ wrk[w].id = Current[q]
    BY <2>1, <2>2 DEF Current
  <2>4. Promise!Publish(q)
    BY <1>4, <2>3 DEF Publishes, Promise!Publish, Current, IsActive
  <2>5. QED
    BY <2>1, <2>4
<1>5. CASE Loses
  <2>1. Current' = [p \in Projects |-> 0]
    BY <1>5 DEF Loses, Current, NoJob, IsActive, ActiveStates
  <2>2. Promise!Lose
    BY <1>5, <2>1 DEF Loses, Promise!Lose, Current
  <2>3. QED
    BY <2>2
<1>6. ASSUME NEW q \in Projects, Repairs(q) PROVE Step
  <2>1. ~IsActive(Recovered(latest[q]))
    BY <1>p DEF Recovered, IsActive, ActiveStates, Job
  <2>2. /\ \A p \in Projects : p # q => jobs'[p] = jobs[p]
        /\ jobs'[q] = Recovered(latest[q])
    BY <1>6, <1>p DEF Repairs
  <2>3. QED
    BY <1>2, <1>6, <2>1, <2>2 DEF Repairs, IsActive
<1>7. CASE UNCHANGED <<jobs, admitted, active>>
  BY <1>7 DEF Current, IsActive
<1>8. QED
  BY <1>1, <1>3, <1>4, <1>5, <1>6, <1>7, WarmStep

(* In a warm cache the scheduler implements ProjectRuns: at most one run   *)
(* per project, at most Capacity of them, none published but the one in    *)
(* progress, and runs numbered as they begin.                              *)
THEOREM SchedulerImplementsPromise == Warm /\ Spec => ImplementsProjectRuns
<1> DEFINE Inv == WarmInv /\ Counted /\ InStep
<1>1. Warm /\ Init => Inv /\ Promise!Init
  <2>1. Warm /\ Init => Counted /\ InStep
    BY DEF Warm, Init, RestingRequest, RestingWorker, Counted, InStep,
           Writing, RunningAt, RunPcs, IsActive, ActiveStates
  <2>2. QED
    BY <2>1, InitWarm, InitMaps
<1>2. Warm /\ Inv /\ [Next]_vars => Inv'
  BY NextWarm, NextCounted, NextInStep
<1>3. Warm /\ Inv /\ [Next]_vars => [Promise!Next]_(Promise!vars)
  BY StepMaps
<1>4. CASE Warm
  BY <1>1, <1>2, <1>3, <1>4, PTL DEF Spec, ImplementsProjectRuns, Promise!Spec
<1>5. QED
  BY <1>4

-----------------------------------------------------------------------------
(* Warm or not, and whatever crashes: until a write fails, no job is shown *)
(* in progress that nobody works on.  A record that a thread is about to   *)
(* write or install as the end of a job is never that of an active one.    *)

Ends ==
    /\ \A r \in Requests : req[r].pc \in {"interrupt", "install"} => ~IsActive(req[r].job)
    /\ \A w \in Workers : wrk[w].pc \in {"finished", "failed"} => ~IsActive(wrk[w].job)

Worked(p) ==
    \/ \E r \in Requests : Holding(r) /\ req[r].proj = p
    \/ \E i \in DOMAIN pool : pool[i] = p
    \/ \E w \in Workers : RunningAt(w) /\ wrk[w].proj = p

Closing(p) == \E w \in Workers : wrk[w].pc \in {"finished", "failed"} /\ wrk[w].proj = p

InHand(p) ==
    /\ IsActive(jobs[p]) => Worked(p)
    /\ p \notin booting /\ IsActive(latest[p]) => Worked(p) \/ Closing(p)

NoGhosts == Ends /\ (faults = 0 => \A p \in Projects : InHand(p))

LEMMA NextEnds == TypeOK /\ Ends /\ [Next]_vars => Ends'
<1> SUFFICES ASSUME TypeOK, Ends, [Next]_vars PROVE Ends'
  OBVIOUS
<1>p. /\ jobs \in [Projects -> Job] /\ latest \in [Projects -> Job] /\ pool \in Seq(Projects)
      /\ req \in [Requests -> Request] /\ wrk \in [Workers -> Worker]
      /\ \A r \in Requests : req[r].proj \in Projects /\ req[r].job \in Job
      /\ \A w \in Workers : wrk[w].proj \in Projects /\ wrk[w].job \in Job /\ wrk[w].id \in Nat
      /\ \A p \in Projects : admitted[p] \in Nat
  BY DEF TypeOK, Request, Worker
<1>d. ReqPcs = {"idle", "load", "interrupt", "install", "admit", "persist", "submit"}
  BY DEF ReqPcs
<1>e. WrkPcs = {"idle", "started", "mkdir", "pipeline", "publish", "prune",
                "finish", "finished", "failing", "failed"}
  BY DEF WrkPcs
<1>c. {"queued", "running", "processed", "failed"} \subseteq JobStates
  BY DEF JobStates, ActiveStates
<1>1. ASSUME NEW r \in Requests, OthersWait(r), UNCHANGED wrk,
             req'[r].pc \in {"interrupt", "install"} => ~IsActive(req'[r].job)
      PROVE Ends'
  BY <1>1 DEF Ends, OthersWait, IsActive
<1>2. ASSUME NEW w \in Workers, OthersRun(w), UNCHANGED req,
             wrk'[w].pc \in {"finished", "failed"} => ~IsActive(wrk'[w].job)
      PROVE Ends'
  BY <1>2 DEF Ends, OthersRun, IsActive
<1>3. CASE UNCHANGED <<req, wrk>>
  BY <1>3 DEF Ends, IsActive
<1>4. ASSUME NEW r \in Requests, RequestStep(r) PROVE Ends'
  <2>1. CASE LoadRecord(r)
    <3> DEFINE job == latest[req[r].proj]
               lost == [job EXCEPT !.state = "failed"]
    <3>1. job \in Job /\ lost \in Job /\ ~IsActive(lost)
      BY <1>p, <1>c DEF Job, IsActive, ActiveStates
    <3> HIDE DEF job, lost
    <3>2. UNCHANGED wrk /\ (Goto(r, AfterGet(req[r].op)) \/ Carry(r, "interrupt", lost)
                              \/ (Carry(r, "install", job) /\ ~IsActive(job)))
      BY <2>1 DEF LoadRecord, job, lost
    <3>3. OthersWait(r) /\ (req'[r].pc \in {"interrupt", "install"} => ~IsActive(req'[r].job))
      BY <3>1, <3>2, <1>p, <1>d, RequestMoves DEF AfterGet
    <3>4. QED
      BY <1>1, <3>2, <3>3
  <2>2. CASE PersistInterrupted(r)
    <3>1. OthersWait(r) /\ UNCHANGED wrk
          /\ (req'[r].pc = "idle" \/ (req'[r].job = req[r].job /\ req[r].pc = "interrupt"))
      BY <2>2, <1>p, <1>d, RequestMoves DEF PersistInterrupted
    <3>2. QED
      BY <1>1, <3>1 DEF Ends
  <2>3. CASE InstallLoaded(r)
    <3>1. NoJob \in Job /\ AfterGet(req[r].op) \in ReqPcs \ {"interrupt", "install"}
      BY <1>c, <1>d DEF NoJob, Job, AfterGet, JobStates
    <3>2. OthersWait(r) /\ req'[r].pc = AfterGet(req[r].op) /\ UNCHANGED wrk
      BY <2>3, <3>1, <1>p, RequestMoves DEF InstallLoaded
    <3>3. QED
      BY <1>1, <3>1, <3>2
  <2>4. CASE Admit(r)
    <3> DEFINE new == [id |-> admitted[req[r].proj] + 1, state |-> "queued"]
    <3>1. UNCHANGED wrk /\ (EndCall(r) \/ Carry(r, "persist", new))
      BY <2>4 DEF Admit
    <3>2. new \in Job
      BY <1>p, <1>c DEF Job
    <3> HIDE DEF new
    <3>3. OthersWait(r) /\ req'[r].pc \in {"idle", "persist"}
      BY <3>1, <3>2, <1>p, <1>d, RequestMoves
    <3>4. QED
      BY <1>1, <3>1, <3>3
  <2>5. CASE PersistAdmitted(r) \/ Submit(r)
    <3>1. OthersWait(r) /\ req'[r].pc \in {"idle", "submit"} /\ UNCHANGED wrk
      BY <2>5, <1>p, <1>d, RequestMoves DEF PersistAdmitted, Submit
    <3>2. QED
      BY <1>1, <3>1
  <2>6. QED
    BY <1>4, <2>1, <2>2, <2>3, <2>4, <2>5 DEF RequestStep
<1>5. ASSUME NEW w \in Workers, TakeJob(w) PROVE Ends'
  <2>1. Head(pool) \in Projects
    BY <1>5, <1>p DEF TakeJob
  <2>2. OthersRun(w) /\ wrk'[w].pc = "started" /\ UNCHANGED req
    BY <1>5, <2>1, <1>p DEF TakeJob, Update, OthersRun
  <2>3. QED
    BY <1>2, <2>2
<1>6. ASSUME NEW w \in Workers, RunStep(w) PROVE Ends'
  <2>1. CASE Finish(w) \/ Fail(w)
    <3>1. /\ OthersRun(w) /\ UNCHANGED req
          /\ wrk'[w].job = jobs'[wrk[w].proj]
          /\ jobs'[wrk[w].proj].state \in {"processed", "failed"}
      BY <2>1, <1>p, <1>c, <1>e, UpdateMoves DEF Finish, Fail
    <3>2. QED
      BY <1>2, <3>1 DEF IsActive, ActiveStates
  <2>2. CASE MakeRunDir(w) \/ RunPipeline(w) \/ Publish(w) \/ Prune(w)
    <3>1. \/ Proceed(w, "pipeline") \/ Proceed(w, "failing") \/ Proceed(w, "publish")
          \/ Proceed(w, "prune") \/ Proceed(w, "finish")
      BY <2>2 DEF MakeRunDir, RunPipeline, Publish, Prune
    <3>2. OthersRun(w) /\ wrk'[w].pc \notin {"finished", "failed"}
      BY <3>1, <1>p, <1>e, WorkerMoves
    <3>3. QED
      BY <1>2, <2>2, <3>2 DEF MakeRunDir, RunPipeline, Publish, Prune
  <2>3. CASE PersistRunning(w) \/ PersistFinished(w) \/ PersistFailed(w)
    <3>1. OthersRun(w) /\ wrk'[w].pc \notin {"finished", "failed"} /\ UNCHANGED req
      BY <2>3, <1>p, <1>e, WorkerMoves DEF PersistRunning, PersistFinished, PersistFailed
    <3>2. QED
      BY <1>2, <3>1
  <2>4. CASE Progress(w)
    BY <1>3, <2>4 DEF Progress, memory
  <2>5. QED
    BY <1>6, <2>1, <2>2, <2>3, <2>4 DEF RunStep
<1>7. CASE Crash
  BY <1>7 DEF Crash, RestingRequest, RestingWorker, Ends
<1>8. CASE \E p \in Projects : RepairOrphan(p) \/ AbortRepair(p)
  BY <1>3, <1>8 DEF RepairOrphan, AbortRepair
<1>9. ASSUME NEW r \in Requests, NEW p \in Projects, NEW op \in {"get", "enqueue"},
             Lookup(r, p, op)
      PROVE Ends'
  <2>1. OthersWait(r) /\ req'[r].pc \in {"load", "admit"} /\ UNCHANGED wrk
    BY <1>9, <1>p DEF Lookup, OthersWait
  <2>2. QED
    BY <1>1, <2>1
<1>10. CASE UNCHANGED vars
  BY <1>3, <1>10 DEF vars, memory
<1>11. QED
  BY <1>4, <1>5, <1>6, <1>7, <1>8, <1>9, <1>10 DEF Next

LEMMA NextInHand ==
  ASSUME TypeOK, Ends, faults = 0, \A p \in Projects : InHand(p), [Next]_vars, faults' = 0
  PROVE  \A p \in Projects : InHand(p)'
<1> DEFINE Good == \A p \in Projects : InHand(p)'
<1> SUFFICES Good
  OBVIOUS
<1>p. /\ jobs \in [Projects -> Job] /\ latest \in [Projects -> Job] /\ pool \in Seq(Projects)
      /\ req \in [Requests -> Request] /\ wrk \in [Workers -> Worker]
      /\ booting \subseteq Projects
      /\ \A r \in Requests : req[r].proj \in Projects /\ req[r].job \in Job
      /\ \A w \in Workers : wrk[w].proj \in Projects /\ wrk[w].job \in Job /\ wrk[w].id \in Nat
      /\ \A p \in Projects : admitted[p] \in Nat
  BY DEF TypeOK, Request, Worker
<1>d. ReqPcs = {"idle", "load", "interrupt", "install", "admit", "persist", "submit"}
  BY DEF ReqPcs
<1>e. WrkPcs = {"idle", "started", "mkdir", "pipeline", "publish", "prune",
                "finish", "finished", "failing", "failed"}
  BY DEF WrkPcs
<1>c. {"queued", "running", "processed", "failed"} \subseteq JobStates
  BY DEF JobStates, ActiveStates
<1>f. \A point : ~Fault(point)
  BY DEF Fault
(* A step that takes nobody's work away, and after which no job is active  *)
(* that was not, or somebody works on it.                                  *)
<1>1. ASSUME \A p \in Projects : Worked(p) => Worked(p)',
             \A p \in Projects : Closing(p) => Closing(p)' \/ ~IsActive(latest'[p]) \/ Worked(p)',
             \A p \in Projects : IsActive(jobs'[p]) => IsActive(jobs[p]) \/ Worked(p)',
             \A p \in Projects : IsActive(latest'[p]) =>
                IsActive(latest[p]) \/ IsActive(jobs[p]) \/ Worked(p)',
             UNCHANGED booting
      PROVE Good
  BY <1>1 DEF InHand, IsActive
(* The moves of one thread. *)
<1>r. ASSUME NEW r \in Requests, OthersWait(r), UNCHANGED <<pool, wrk>>,
             Holding(r) => Holding(r)' /\ req'[r].proj = req[r].proj
      PROVE  \A p \in Projects : (Worked(p) => Worked(p)') /\ (Closing(p) => Closing(p)')
  BY <1>r DEF Worked, Closing, Holding, RunningAt, OthersWait
<1>w. ASSUME NEW w \in Workers, OthersRun(w), UNCHANGED <<pool, req>>,
             RunningAt(w) => RunningAt(w)' /\ wrk'[w].proj = wrk[w].proj,
             wrk[w].pc \notin {"finished", "failed"}
      PROVE  \A p \in Projects : (Worked(p) => Worked(p)') /\ (Closing(p) => Closing(p)')
  BY <1>w DEF Worked, Closing, Holding, RunningAt, OthersRun
<1>2. ASSUME NEW r \in Requests, RequestStep(r) PROVE Good
  <2> DEFINE q == req[r].proj
  <2>1. CASE LoadRecord(r)
    <3> DEFINE job == latest[q]
               lost == [job EXCEPT !.state = "failed"]
    <3>1. job \in Job /\ lost \in Job /\ AfterGet(req[r].op) \in ReqPcs
      BY <1>p, <1>c, <1>d DEF Job, AfterGet
    <3> HIDE DEF job, lost
    <3>2. /\ UNCHANGED <<jobs, pool, wrk, booting, latest>> /\ req[r].pc = "load"
          /\ \/ Goto(r, AfterGet(req[r].op)) \/ Carry(r, "interrupt", lost)
             \/ Carry(r, "install", job)
      BY <2>1 DEF LoadRecord, job, lost, disk
    <3>3. OthersWait(r)
      BY <3>1, <3>2, <1>p, <1>d, RequestMoves
    <3>4. QED
      BY <1>1, <1>r, <3>2, <3>3 DEF Holding
  <2>2. CASE PersistInterrupted(r)
    <3>1. /\ UNCHANGED <<jobs, pool, wrk, booting>> /\ req[r].pc = "interrupt"
          /\ latest' = [latest EXCEPT ![q] = req[r].job] /\ Goto(r, "install")
      BY <2>2, <1>f DEF PersistInterrupted
    <3>2. OthersWait(r) /\ ~IsActive(req[r].job)
      BY <3>1, <1>p, <1>d, RequestMoves DEF Ends
    <3>3. \A p \in Projects : IsActive(latest'[p]) => IsActive(latest[p])
      BY <3>1, <3>2, <1>p
    <3>4. QED
      BY <1>1, <1>r, <3>1, <3>2, <3>3 DEF Holding
  <2>3. CASE InstallLoaded(r)
    <3>1. /\ UNCHANGED <<latest, pool, wrk, booting>> /\ req[r].pc = "install"
          /\ jobs' = [jobs EXCEPT ![q] = req[r].job] /\ Carry(r, AfterGet(req[r].op), NoJob)
      BY <2>3 DEF InstallLoaded, disk
    <3>2. OthersWait(r) /\ ~IsActive(req[r].job)
      <4>1. NoJob \in Job /\ AfterGet(req[r].op) \in ReqPcs
        BY <1>c, <1>d DEF NoJob, Job, AfterGet, JobStates
      <4>2. QED
        BY <3>1, <4>1, <1>p, RequestMoves DEF Ends
    <3>3. \A p \in Projects : IsActive(jobs'[p]) => IsActive(jobs[p])
      BY <3>1, <3>2, <1>p
    <3>4. QED
      BY <1>1, <1>r, <3>1, <3>2, <3>3 DEF Holding
  <2>4. CASE Admit(r)
    <3> DEFINE new == [id |-> admitted[q] + 1, state |-> "queued"]
    <3>1. /\ UNCHANGED <<latest, pool, wrk, booting>> /\ req[r].pc = "admit"
          /\ \/ EndCall(r) /\ UNCHANGED jobs
             \/ jobs' = [jobs EXCEPT ![q] = new] /\ Carry(r, "persist", new)
      BY <2>4 DEF Admit, disk
    <3>2. new \in Job
      BY <1>p, <1>c DEF Job
    <3> HIDE DEF new
    <3>3. CASE EndCall(r) /\ UNCHANGED jobs
      <4>1. OthersWait(r)
        BY <3>3, <1>p, RequestMoves
      <4>2. QED
        BY <1>1, <1>r, <3>1, <3>3, <4>1 DEF Holding
    <3>4. CASE jobs' = [jobs EXCEPT ![q] = new] /\ Carry(r, "persist", new)
      <4>1. OthersWait(r) /\ req'[r].pc = "persist" /\ req'[r].proj = q
        BY <3>2, <3>4, <1>p, <1>d, RequestMoves
      <4>2. Worked(q)'
        BY <4>1 DEF Worked, Holding
      <4>3. \A p \in Projects : p # q => jobs'[p] = jobs[p]
        BY <3>4, <1>p
      <4>4. QED
        BY <1>1, <1>r, <3>1, <4>1, <4>2, <4>3 DEF Holding
    <3>5. QED
      BY <3>1, <3>3, <3>4
  <2>5. CASE PersistAdmitted(r)
    <3>1. /\ UNCHANGED <<jobs, pool, wrk, booting>> /\ req[r].pc = "persist"
          /\ latest' = [latest EXCEPT ![q] = Snapshot(q, req[r].job)] /\ Goto(r, "submit")
      BY <2>5, <1>f DEF PersistAdmitted
    <3>2. OthersWait(r) /\ req'[r].pc = "submit" /\ req'[r].proj = q
      BY <3>1, <1>p, <1>d, RequestMoves
    <3>3. Worked(q)'
      BY <3>2 DEF Worked, Holding
    <3>4. \A p \in Projects : p # q => latest'[p] = latest[p]
      BY <3>1, <1>p
    <3>5. QED
      BY <1>1, <1>r, <3>1, <3>2, <3>3, <3>4 DEF Holding
  <2>6. CASE Submit(r)
    <3>1. /\ UNCHANGED <<jobs, latest, wrk, booting>> /\ req[r].pc = "submit"
          /\ EndCall(r)
      BY <2>6, <1>p DEF Submit, disk
    <3>0. PICK p0 \in Projects : req[r].proj = p0 /\ pool' = Append(pool, p0)
      BY <2>6, <1>p DEF Submit
    <3>2. /\ DOMAIN pool \subseteq DOMAIN pool' /\ \A i \in DOMAIN pool : pool'[i] = pool[i]
          /\ Len(pool) + 1 \in DOMAIN pool' /\ pool'[Len(pool) + 1] = p0
      BY <3>0, <1>p
    <3>3. OthersWait(r)
      BY <3>1, <1>p, RequestMoves
    <3>4. Worked(p0)'
      BY <3>2 DEF Worked
    <3>5. \A p \in Projects : Worked(p) => Worked(p)'
      BY <3>0, <3>1, <3>2, <3>3, <3>4 DEF Worked, Holding, RunningAt, OthersWait
    <3>6. \A p \in Projects : Closing(p) => Closing(p)'
      BY <3>1 DEF Closing
    <3>7. QED
      BY <1>1, <3>1, <3>5, <3>6
  <2>7. QED
    BY <1>2, <2>1, <2>2, <2>3, <2>4, <2>5, <2>6 DEF RequestStep
<1>3. ASSUME NEW w \in Workers, TakeJob(w) PROVE Good
  <2>0. PICK q \in Projects : q = Head(pool)
    BY <1>3, <1>p DEF TakeJob
  <2>1. /\ wrk[w].pc = "idle" /\ q = Head(pool) /\ pool # <<>>
        /\ pool' = Tail(pool) /\ UNCHANGED <<req, booting, latest>>
    BY <1>3, <2>0 DEF TakeJob, disk
  <2>2. /\ \A p \in Projects : p # q => jobs'[p] = jobs[p]
        /\ OthersRun(w) /\ wrk'[w].pc = "started" /\ wrk'[w].proj = q
    BY <1>3, <2>1, <1>p DEF TakeJob, Update, OthersRun
  <2>3. Worked(q)'
    BY <2>2 DEF Worked, RunningAt, RunPcs
  <2>4. ASSUME NEW i \in DOMAIN pool
        PROVE  pool[i] = q \/ \E j \in DOMAIN pool' : pool'[j] = pool[i]
    <3>1. /\ Len(pool) \in Nat /\ Len(pool) # 0 /\ i \in 1..Len(pool)
          /\ DOMAIN pool' = 1..(Len(pool) - 1)
          /\ \A j \in 1..(Len(pool) - 1) : pool'[j] = pool[j + 1]
          /\ q = pool[1]
      BY <2>1, <1>p
    <3>2. CASE i # 1
      <4>1. i - 1 \in DOMAIN pool' /\ (i - 1) + 1 = i
        BY <3>1, <3>2
      <4>2. QED
        BY <3>1, <4>1
    <3>3. QED
      BY <3>1, <3>2
  <2>5. \A p \in Projects : Worked(p) => Worked(p)'
    <3>1. ASSUME NEW p \in Projects, NEW i \in DOMAIN pool, pool[i] = p PROVE Worked(p)'
      <4>1. p = q \/ \E j \in DOMAIN pool' : pool'[j] = p
        BY <3>1, <2>4
      <4>2. QED
        BY <4>1, <2>3 DEF Worked
    <3>2. ASSUME NEW p \in Projects, NEW v \in Workers, RunningAt(v), wrk[v].proj = p
          PROVE  Worked(p)'
      BY <3>2, <2>1, <2>2 DEF Worked, RunningAt, RunPcs, OthersRun
    <3>3. ASSUME NEW p \in Projects, NEW r \in Requests, Holding(r), req[r].proj = p
          PROVE  Worked(p)'
      BY <3>3, <2>1 DEF Worked, Holding
    <3>4. QED
      BY <3>1, <3>2, <3>3 DEF Worked
  <2>6. \A p \in Projects : Closing(p) => Closing(p)'
    BY <2>1, <2>2 DEF Closing, OthersRun
  <2>7. QED
    BY <1>1, <2>1, <2>2, <2>3, <2>5, <2>6
<1>4. ASSUME NEW w \in Workers, RunStep(w) PROVE Good
  <2> DEFINE q == wrk[w].proj
  <2>1. CASE PersistRunning(w)
    <3>1. /\ UNCHANGED <<jobs, pool, req, booting>> /\ wrk[w].pc = "started"
          /\ latest' = [latest EXCEPT ![q] = Snapshot(q, wrk[w].job)] /\ Proceed(w, "mkdir")
      BY <2>1, <1>f DEF PersistRunning
    <3>2. OthersRun(w) /\ wrk'[w].pc = "mkdir" /\ wrk'[w].proj = q
      BY <3>1, <1>p, <1>e, WorkerMoves
    <3>3. Worked(q)'
      BY <3>2 DEF Worked, RunningAt, RunPcs
    <3>4. \A p \in Projects : p # q => latest'[p] = latest[p]
      BY <3>1, <1>p
    <3>5. QED
      BY <1>1, <1>w, <3>1, <3>2, <3>3, <3>4 DEF RunningAt, RunPcs
  <2>2. CASE MakeRunDir(w) \/ RunPipeline(w) \/ Publish(w) \/ Prune(w)
    <3>1. /\ UNCHANGED <<jobs, latest, pool, req, booting>>
          /\ wrk[w].pc \in {"mkdir", "pipeline", "publish", "prune"}
          /\ \/ Proceed(w, "pipeline") \/ Proceed(w, "failing") \/ Proceed(w, "publish")
             \/ Proceed(w, "prune") \/ Proceed(w, "finish")
      BY <2>2 DEF MakeRunDir, RunPipeline, Publish, Prune
    <3>2. /\ OthersRun(w) /\ wrk'[w].proj = q
          /\ wrk'[w].pc \in {"pipeline", "failing", "publish", "prune", "finish"}
      BY <3>1, <1>p, <1>e, WorkerMoves
    <3>3. QED
      BY <1>1, <1>w, <3>1, <3>2 DEF RunningAt, RunPcs
  <2>3. CASE Progress(w)
    <3>1. /\ UNCHANGED <<jobs, pool, req, wrk, booting>>
          /\ latest' = [latest EXCEPT ![q] = jobs[q]]
      BY <2>3 DEF Progress, memory
    <3>2. \A p \in Projects : IsActive(latest'[p]) => IsActive(latest[p]) \/ IsActive(jobs[p])
      BY <3>1, <1>p
    <3>3. \A p \in Projects : (Worked(p) => Worked(p)') /\ (Closing(p) => Closing(p)')
      BY <3>1 DEF Worked, Closing, Holding, RunningAt
    <3>4. QED
      BY <1>1, <3>1, <3>2, <3>3
  <2>4. CASE Finish(w) \/ Fail(w)
    <3>1. /\ UNCHANGED <<latest, pool, req, booting>> /\ RunningAt(w)
          /\ \A p \in Projects : p # q => jobs'[p] = jobs[p]
          /\ jobs'[q].state \in {"processed", "failed"}
          /\ OthersRun(w) /\ wrk'[w].pc \in {"finished", "failed"} /\ wrk'[w].proj = q
      BY <2>4, <1>p, <1>c, <1>e, UpdateMoves DEF Finish, Fail, disk, RunningAt, RunPcs
    <3>2. ~IsActive(jobs'[q]) /\ Closing(q)'
      BY <3>1 DEF IsActive, ActiveStates, Closing
    <3>3. \A p \in Projects : p # q => /\ Worked(p) => Worked(p)'
                                       /\ Closing(p) => Closing(p)'
      BY <3>1 DEF Worked, Closing, Holding, RunningAt, OthersRun
    <3>4. QED
      BY <3>1, <3>2, <3>3 DEF InHand
  <2>5. CASE PersistFinished(w) \/ PersistFailed(w)
    <3>1. /\ UNCHANGED <<jobs, pool, req, booting>> /\ wrk[w].pc \in {"finished", "failed"}
          /\ latest' = [latest EXCEPT ![q] = Snapshot(q, wrk[w].job)] /\ EndRun(w)
      BY <2>5, <1>f DEF PersistFinished, PersistFailed
    <3>2. OthersRun(w) /\ wrk'[w].pc = "idle"
      BY <3>1, <1>p, WorkerMoves
    <3>3. \A p \in Projects : Worked(p) => Worked(p)'
      BY <3>1, <3>2 DEF Worked, Holding, RunningAt, RunPcs, OthersRun
    <3>4. IsActive(latest'[q]) => IsActive(jobs[q])
      BY <3>1, <1>p DEF Ends, Snapshot
    <3>5. \A p \in Projects : p # q => latest'[p] = latest[p] /\ (Closing(p) => Closing(p)')
      BY <3>1, <3>2, <1>p DEF Closing, OthersRun
    <3>6. QED
      BY <3>1, <3>3, <3>4, <3>5 DEF InHand
  <2>6. QED
    BY <1>4, <2>1, <2>2, <2>3, <2>4, <2>5 DEF RunStep
<1>5. CASE Crash
  BY <1>5 DEF Crash, NoJob, IsActive, ActiveStates, InHand
<1>6. ASSUME NEW q \in Projects, RepairOrphan(q) PROVE Good
  <2>1. ~IsActive(Recovered(latest[q]))
    BY <1>p DEF Recovered, IsActive, ActiveStates, Job
  <2>2. /\ \A p \in Projects : p # q => jobs'[p] = jobs[p] /\ latest'[p] = latest[p]
        /\ ~IsActive(jobs'[q]) /\ ~IsActive(latest'[q])
        /\ booting' = booting \ {q} /\ UNCHANGED <<pool, req, wrk>>
    BY <1>6, <2>1, <1>p DEF RepairOrphan
  <2>3. QED
    BY <2>2 DEF InHand, Worked, Closing, Holding, RunningAt, IsActive
<1>7. ASSUME NEW p \in Projects, AbortRepair(p) PROVE Good
  BY <1>7, <1>f DEF AbortRepair
<1>8. ASSUME NEW r \in Requests, NEW q \in Projects, NEW op \in {"get", "enqueue"},
             Lookup(r, q, op)
      PROVE Good
  <2>1. OthersWait(r) /\ ~Holding(r) /\ UNCHANGED <<jobs, latest, pool, wrk, booting>>
    BY <1>8, <1>p DEF Lookup, OthersWait, Holding, disk
  <2>2. QED
    BY <1>1, <1>r, <2>1
<1>9. CASE UNCHANGED vars
  BY <1>9 DEF vars, memory, disk, InHand, Worked, Closing, Holding, RunningAt, IsActive
<1>10. QED
  BY <1>2, <1>3, <1>4, <1>5, <1>6, <1>7, <1>8, <1>9 DEF Next

LEMMA NextNoGhosts == TypeOK /\ NoGhosts /\ [Next]_vars => NoGhosts'
<1> SUFFICES ASSUME TypeOK, NoGhosts, [Next]_vars PROVE NoGhosts'
  OBVIOUS
<1>1. Ends'
  BY NextEnds DEF NoGhosts
<1>2. faults' = 0 => faults = 0
  <2>1. faults \in Nat /\ faults' \in Nat
    BY NextTypeOK DEF TypeOK
  <2>2. faults' = faults \/ faults' = faults + 1
    BY DEF Next, RequestStep, RunStep, Lookup, LoadRecord, PersistInterrupted, InstallLoaded, Admit,
       PersistAdmitted, Submit, TakeJob, PersistRunning, MakeRunDir, Progress, RunPipeline,
       Publish, Prune, Finish, PersistFinished, Fail, PersistFailed, Crash, RepairOrphan,
       AbortRepair, Fault, bounds, vars
  <2>3. QED
    BY <2>1, <2>2
<1>3. ASSUME faults' = 0 PROVE \A p \in Projects : InHand(p)'
  BY <1>2, <1>3, NextInHand DEF NoGhosts
<1>4. QED
  BY <1>1, <1>3 DEF NoGhosts

(* Until a write fails, a job that memory or the disk shows in progress    *)
(* while the server serves has a thread or a queue entry that will end it. *)
THEOREM NoGhostJobs == Spec => []NoGhostJob
<1>1. Init => NoGhosts
  BY DEF Init, RestingRequest, RestingWorker, NoJob, NoGhosts, Ends, InHand, IsActive, ActiveStates
<1>2. TypeOK /\ NoGhosts /\ [Next]_vars => TypeOK' /\ NoGhosts'
  BY NextTypeOK, NextNoGhosts
<1>3. NoGhosts => NoGhostJob
  <2>1. ASSUME NEW p \in Projects PROVE (Worked(p) => Claims(p) # {}) /\ (Closing(p) => Ending(p) # {})
    <3>1. Worked(p) => Admitting(p) # {} \/ Queued(p) # {} \/ Running(p) # {}
      BY DEF Worked, Admitting, Queued, Running, Holding, RunningAt
    <3>2. Closing(p) => Ending(p) # {}
      BY DEF Closing, Ending
    <3>3. /\ \A r \in Admitting(p) : <<r, "request">> \in Claims(p)
          /\ \A i \in Queued(p) : <<i, "queue">> \in Claims(p)
          /\ \A w \in Running(p) : <<w, "worker">> \in Claims(p)
      BY DEF Claims
    <3>4. QED
      BY <3>1, <3>2, <3>3
  <2>2. QED
    BY <2>1 DEF NoGhosts, InHand, NoGhostJob, Serving
<1>4. QED
  BY <1>1, <1>2, <1>3, InitTypeOK, PTL DEF Spec

=============================================================================
