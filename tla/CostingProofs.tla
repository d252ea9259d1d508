---------------------------- MODULE CostingProofs ----------------------------
(* What CostingState and PriceBook guarantee for every value of their      *)
(* constants.  The requests that take the project's recompute lock keep    *)
(* each other's edits and verdicts, and leave readers the report of what   *)
(* is stored; in the catalog, a basic is worth its matrix, a current       *)
(* verdict is about the matrix as it is, and an undo puts back what the    *)
(* book held before the change.                                            *)
EXTENDS CostingState, PriceBook, SelectionProofs

-----------------------------------------------------------------------------
(***************************************************************************)
(* CostingState, for every set of requests, overrides and verdicts.        *)
(***************************************************************************)


-----------------------------------------------------------------------------
(* Types *)

LEMMA RestTypes ==
    /\ DefaultOverrides \in Overrides /\ WorkspaceDefaults \in Overrides
    /\ NoReviews \in Reviews
    /\ Resting \in Call /\ NoJob \in Job
<1>1. DefaultOverrides \in Overrides /\ WorkspaceDefaults \in Overrides
  BY DEF DefaultOverrides, WorkspaceDefaults, Overrides
<1>2. NoReviews \in Reviews
  BY CostingAssumption DEF NoReviews, Reviews
<1>3. (CHOOSE e \in Elements : TRUE) \in Elements
  BY CostingAssumption
<1>4. Resting \in Call
  BY <1>1, <1>2, <1>3, CostingAssumption DEF Resting, Call, CallPcs, Ops
<1>5. NoJob \in Job
  BY <1>1, <1>2 DEF NoJob, Job, JobPcs
<1>6. QED
  BY <1>1, <1>2, <1>4, <1>5

LEMMA StoredType == TypeOK => Stored \in Overrides
BY RestTypes DEF TypeOK, Stored

(* What a move of one caller leaves of the callers' state. *)
OthersGo(c) == \A d \in Callers : d # c => call'[d] = call[d]

LEMMA CallMoves ==
  ASSUME call \in [Callers -> Call], NEW c \in Callers
  PROVE  /\ \A pc \in CallPcs : At(c, pc) =>
              /\ call' \in [Callers -> Call] /\ OthersGo(c)
              /\ call'[c] = [call[c] EXCEPT !.pc = pc]
         /\ Leave(c) =>
              call' \in [Callers -> Call] /\ OthersGo(c) /\ call'[c] = Resting
<1>1. \A pc \in CallPcs : [call[c] EXCEPT !.pc = pc] \in Call
  BY DEF Call
<1>2. ASSUME NEW pc \in CallPcs, At(c, pc)
      PROVE  /\ call' \in [Callers -> Call] /\ OthersGo(c)
             /\ call'[c] = [call[c] EXCEPT !.pc = pc]
  <2>1. call' = [call EXCEPT ![c] = [call[c] EXCEPT !.pc = pc]]
    BY <1>2 DEF At
  <2>2. QED
    BY <1>1, <2>1 DEF OthersGo
<1>3. ASSUME Leave(c)
      PROVE  call' \in [Callers -> Call] /\ OthersGo(c) /\ call'[c] = Resting
  BY <1>3, RestTypes DEF Leave, OthersGo
<1>4. QED
  BY <1>2, <1>3

LEMMA InitTypes == Init => TypeOK
<1> SUFFICES ASSUME Init PROVE TypeOK
  OBVIOUS
<1>1. /\ overrides \in Overrides \cup {None} /\ reviews \in Reviews /\ run \in Nat
      /\ report \in Report \cup {None} /\ derived \in Report \cup {None}
      /\ lock \in Callers \cup {Nobody} /\ job \in Job
      /\ calls \in Nat /\ crashes \in Nat
  BY RestTypes DEF Init
<1>2. call \in [Callers -> Call]
  BY RestTypes DEF Init
<1>3. overlapped \in BOOLEAN
  BY DEF Init
<1>4. QED
  BY <1>1, <1>2, <1>3 DEF TypeOK

LEMMA NextTypes == TypeOK /\ [Next]_vars => TypeOK'
<1> SUFFICES ASSUME TypeOK, [Next]_vars PROVE TypeOK'
  OBVIOUS
<1> USE DEF TypeOK
<1>r. Resting \in Call /\ NoJob \in Job /\ Stored \in Overrides /\ DefaultOverrides \in Overrides
  BY RestTypes, StoredType
<1>p. CallPcs = {"idle", "lock", "check", "look", "mark", "load", "input", "cost", "write", "save"}
  BY DEF CallPcs
<1>o. Ops = {"recompute", "review", "catalog"}
  BY DEF Ops
<1>j. JobPcs = {"idle", "overrides", "reviews", "rekey", "publish", "unlink"}
  BY DEF JobPcs
<1>1. ASSUME NEW c \in Callers, NEW seen \in 0..Stored.version, Recompute(c, seen) PROVE TypeOK'
  <2> DEFINE mine == [version |-> seen, by |-> c]
             new == [Resting EXCEPT !.pc = "lock", !.op = "recompute", !.overrides = mine]
  <2>1. mine \in Overrides
    BY <1>r DEF Overrides
  <2>2. new \in Call
    BY <1>r, <1>p, <1>o, <2>1 DEF Call
  <2>3. call' = [call EXCEPT ![c] = new] /\ Begin(c, "recompute")
    BY <1>1 DEF Recompute
  <2>4. QED
    BY <2>2, <2>3 DEF Begin, disk
<1>2. ASSUME NEW c \in Callers, NEW e \in Elements, NEW v \in Verdicts, SetDetectionReview(c, e, v)
      PROVE TypeOK'
  <2> DEFINE new == [Resting EXCEPT !.pc = "lock", !.op = "review", !.element = e, !.verdict = v]
  <2>1. new \in Call
    BY <1>r, <1>p, <1>o DEF Call
  <2>2. call' = [call EXCEPT ![c] = new] /\ Begin(c, "review")
    BY <1>2 DEF SetDetectionReview
  <2>3. QED
    BY <2>1, <2>2 DEF Begin, disk
<1>3. ASSUME NEW c \in Callers, RecomputeProject(c) PROVE TypeOK'
  <2>1. [Resting EXCEPT !.pc = "load"] \in Call
    BY <1>r, <1>p DEF Call
  <2>2. QED
    BY <1>3, <2>1 DEF RecomputeProject, Begin, disk
<1>4. ASSUME NEW c \in Callers, Acquire(c) PROVE TypeOK'
  BY <1>4, <1>p, CallMoves DEF Acquire, disk
<1>5. ASSUME NEW c \in Callers, CallStep(c) PROVE TypeOK'
  <2>c. /\ call[c] \in Call /\ call[c].overrides \in Overrides /\ call[c].reviews \in Reviews
        /\ call[c].element \in Elements /\ call[c].verdict \in Verdicts /\ call[c].run \in Nat
    BY DEF Call
  <2>1. CASE CheckVersion(c)
    <3>1. CASE Leave(c)
      BY <2>1, <3>1, CallMoves DEF CheckVersion, Leave, disk
    <3>2. CASE call' = [call EXCEPT ![c].pc = "input", ![c].overrides.version = @ + 1]
                 /\ UNCHANGED lock
      <4>1. [call[c].overrides EXCEPT !.version = @ + 1] \in Overrides
        BY <2>c DEF Overrides
      <4>2. [call[c] EXCEPT !.pc = "input", !.overrides.version = @ + 1] \in Call
        BY <2>c, <4>1, <1>p DEF Call
      <4>3. call' = [call EXCEPT ![c] = [call[c] EXCEPT !.pc = "input", !.overrides.version = @ + 1]]
        BY <3>2
      <4>4. QED
        BY <2>1, <3>2, <4>2, <4>3 DEF CheckVersion, disk
    <3>3. QED
      BY <2>1, <3>1, <3>2 DEF CheckVersion
  <2>2. CASE LoadReviews(c)
    <3>1. [call[c] EXCEPT !.pc = "mark", !.reviews = reviews] \in Call
      BY <2>c, <1>p DEF Call
    <3>2. call' = [call EXCEPT ![c] = [call[c] EXCEPT !.pc = "mark", !.reviews = reviews]]
      BY <2>2 DEF LoadReviews
    <3>3. QED
      BY <2>2, <3>1, <3>2 DEF LoadReviews, disk
  <2>3. CASE SaveReviews(c)
    <3>1. [Resting EXCEPT !.pc = "load", !.op = "review"] \in Call
      BY <1>r, <1>p, <1>o DEF Call
    <3>2. Marked(c) \in Reviews
      BY <2>c DEF Marked, Reviews
    <3>3. QED
      BY <2>3, <3>1, <3>2 DEF SaveReviews
  <2>4. CASE LoadOverrides(c)
    <3>1. [call[c] EXCEPT !.pc = "input", !.overrides = Stored] \in Call
      BY <2>c, <1>p, <1>r DEF Call
    <3>2. call' = [call EXCEPT ![c] = [call[c] EXCEPT !.pc = "input", !.overrides = Stored]]
      BY <2>4 DEF LoadOverrides
    <3>3. QED
      BY <2>4, <3>1, <3>2 DEF LoadOverrides, disk
  <2>5. CASE LoadInputs(c)
    <3>1. CASE Leave(c)
      BY <2>5, <3>1, CallMoves DEF LoadInputs, Leave, disk
    <3>2. CASE call' = [call EXCEPT ![c].pc = "cost", ![c].run = run] /\ UNCHANGED lock
      <4>1. [call[c] EXCEPT !.pc = "cost", !.run = run] \in Call
        BY <2>c, <1>p DEF Call
      <4>2. call' = [call EXCEPT ![c] = [call[c] EXCEPT !.pc = "cost", !.run = run]]
        BY <3>2
      <4>3. QED
        BY <2>5, <3>2, <4>1, <4>2 DEF LoadInputs, disk
    <3>3. QED
      BY <2>5, <3>1, <3>2 DEF LoadInputs
  <2>6. CASE BuildReport(c)
    <3>1. [call[c] EXCEPT !.pc = "write", !.reviews = reviews] \in Call
      BY <2>c, <1>p DEF Call
    <3>2. call' = [call EXCEPT ![c] = [call[c] EXCEPT !.pc = "write", !.reviews = reviews]]
      BY <2>6 DEF BuildReport
    <3>3. QED
      BY <2>6, <3>1, <3>2 DEF BuildReport, disk
  <2>7. CASE WriteReport(c)
    <3>1. derived' \in Report
      BY <2>7, <2>c DEF WriteReport, Report
    <3>2. QED
      BY <2>7, <3>1, <1>p, CallMoves DEF WriteReport
  <2>8. CASE SaveOverrides(c)
    BY <2>8, <2>c, CallMoves DEF SaveOverrides, Leave
  <2>9. QED
    BY <1>5, <2>1, <2>2, <2>3, <2>4, <2>5, <2>6, <2>7, <2>8 DEF CallStep
<1>6. CASE StartJob
  <2>1. [NoJob EXCEPT !.pc = "overrides"] \in Job
    BY <1>r, <1>j DEF Job
  <2>2. QED
    BY <1>6, <2>1 DEF StartJob, disk
<1>7. CASE JobStep
  <2>j. job.overrides \in Overrides /\ job.reviews \in Reviews
    BY DEF Job
  <2>1. CASE ReadOverrides
    BY <2>1, <1>r, <1>j DEF ReadOverrides, Job, disk
  <2>2. CASE ReadReviews
    BY <2>2, <1>j DEF ReadReviews, Job, disk
  <2>3. CASE SaveRekeyed
    BY <2>3, <2>j, <1>j DEF SaveRekeyed, Job
  <2>4. CASE PublishRun
    <3>1. report' \in Report
      BY <2>4, <2>j DEF PublishRun, Report
    <3>2. [NoJob EXCEPT !.pc = "unlink"] \in Job
      BY <1>r, <1>j DEF Job
    <3>3. QED
      BY <2>4, <3>1, <3>2 DEF PublishRun
  <2>5. CASE DropDerived \/ JobFails
    BY <2>5, <1>r DEF DropDerived, JobFails, disk
  <2>6. QED
    BY <1>7, <2>1, <2>2, <2>3, <2>4, <2>5 DEF JobStep
<1>8. CASE Crash
  BY <1>8, <1>r DEF Crash, disk
<1>9. CASE UNCHANGED vars
  BY <1>9 DEF vars, disk
<1>10. QED
  BY <1>1, <1>2, <1>3, <1>4, <1>5, <1>6, <1>7, <1>8, <1>9 DEF Next

(* The files and the threads' state stay well formed. *)
THEOREM CostingTypes == Spec => []TypeOK
BY InitTypes, NextTypes, PTL DEF Spec

-----------------------------------------------------------------------------
(* The section under the lock.                                             *)
(*                                                                         *)
(* Callers past the lock are alone with the files as long as `overlapped`  *)
(* is false: those that take the lock because one of them holds it, a      *)
(* change of the catalog and the processing job because they overlap       *)
(* nobody.  What the caller that is alone has in hand is then what the     *)
(* files hold.                                                             *)

InSection(c) == call[c].pc \notin {"idle", "lock"}
Costing(c) == call[c].pc \in {"input", "cost", "write", "save"}

(* Where each kind of request can be, and who holds the lock. *)
Shape ==
    \A c \in Callers :
        /\ call[c].pc = "check" => call[c].op = "recompute"
        /\ call[c].pc = "lock" => call[c].op \in {"recompute", "review"}
        /\ call[c].pc \in {"look", "mark"} => call[c].op = "review"
        /\ call[c].pc = "load" => call[c].op # "recompute"
        /\ InSection(c) /\ call[c].op # "catalog" => lock = c

(* Who may be active beside whom. *)
Serial ==
    /\ JobActive => \A c \in Callers : ~Calling(c)
    /\ \A c, d \in Callers : Calling(c) /\ Calling(d) /\ call[c].op = "catalog" => c = d

(* What a request has read is what is stored; an edit is one version ahead. *)
Read ==
    \A c \in Callers :
        /\ Costing(c) /\ call[c].op = "recompute" =>
              call[c].overrides.version = Stored.version + 1
        /\ Costing(c) /\ call[c].op # "recompute" => call[c].overrides = Stored
        /\ call[c].pc = "mark" => call[c].reviews = reviews
        /\ call[c].pc \in {"cost", "write", "save"} => call[c].run = run /\ run # 0
        /\ call[c].pc \in {"write", "save"} => call[c].reviews = reviews
        /\ call[c].pc = "save" =>
              derived = [run |-> call[c].run, overrides |-> call[c].overrides,
                         reviews |-> call[c].reviews]

(* And so is what the job has read. *)
Taken ==
    /\ job.pc \in {"reviews", "rekey", "publish"} => job.overrides = Stored
    /\ job.pc \in {"rekey", "publish"} => job.reviews = reviews

(* Readers are shown what is stored, but between the write of a verdict or *)
(* of a report and the end of its request.                                 *)
Latest == [run |-> run, overrides |-> Stored, reviews |-> reviews]
SettledAt(c) ==
    /\ call[c].pc # "save"
    /\ call[c].op = "review" => call[c].pc \notin {"load", "input", "cost", "write"}
Settled == \A c \in Callers : SettledAt(c)
Current ==
    /\ job.pc = "unlink" => report = Latest
    /\ Settled /\ job.pc # "unlink" /\ run # 0 => Shown = Latest

Kept == Serial /\ Read /\ Taken /\ Current
SectionInv == Shape /\ (~overlapped => Kept)

LEMMA InSectionAlone ==
  ASSUME Shape, Serial, NEW c \in Callers, InSection(c), NEW d \in Callers, d # c
  PROVE  ~InSection(d)
BY DEF Shape, Serial, InSection, Calling

(* A caller at rest is nowhere. *)
LEMMA RestIsRest == Resting.pc = "idle" /\ Resting.op = "catalog" /\ NoJob.pc = "idle"
BY DEF Resting, NoJob

(* The steps of a request, as the shape of the requests needs them. *)
LEMMA NextShape == TypeOK /\ Shape /\ [Next]_vars => Shape'
<1> SUFFICES ASSUME TypeOK, Shape, [Next]_vars PROVE Shape'
  OBVIOUS
<1> DEFINE ShapeAt(c) ==
        /\ call[c].pc = "check" => call[c].op = "recompute"
        /\ call[c].pc = "lock" => call[c].op \in {"recompute", "review"}
        /\ call[c].pc \in {"look", "mark"} => call[c].op = "review"
        /\ call[c].pc = "load" => call[c].op # "recompute"
        /\ InSection(c) /\ call[c].op # "catalog" => lock = c
<1>c. call \in [Callers -> Call] /\ lock \in Callers \cup {Nobody}
  BY DEF TypeOK
<1>p. CallPcs = {"idle", "lock", "check", "look", "mark", "load", "input", "cost", "write", "save"}
  BY DEF CallPcs
<1>n. \A c \in Callers : c # Nobody
  BY CostingAssumption
<1>o. \A c \in Callers : call[c].op \in {"recompute", "review", "catalog"}
  BY <1>c DEF Call, Ops
(* A step of one caller that leaves the lock to whoever else holds it. *)
<1>1. ASSUME NEW c \in Callers, OthersGo(c), ShapeAt(c)',
             \A d \in Callers : d # c /\ lock = d => lock' = d
      PROVE Shape'
  BY <1>1 DEF Shape, OthersGo, InSection
<1>2. ASSUME UNCHANGED <<call, lock>> PROVE Shape'
  BY <1>2 DEF Shape, InSection
<1>3. ASSUME NEW c \in Callers, Leave(c) PROVE Shape'
  <2>1. OthersGo(c) /\ call'[c] = Resting
    BY <1>3, <1>c, CallMoves
  <2>2. \A d \in Callers : d # c /\ lock = d => lock' = d
    BY <1>3 DEF Leave
  <2>3. QED
    BY <1>1, <2>1, <2>2, RestIsRest DEF InSection
<1>4. ASSUME NEW c \in Callers, NEW new, call' = [call EXCEPT ![c] = new], UNCHANGED lock,
             \/ new.pc = "lock" /\ new.op \in {"recompute", "review"}
             \/ new.pc = "load" /\ new.op = "catalog"
             \/ new.pc = "mark" /\ call[c].pc = "look" /\ new.op = call[c].op
             \/ new.pc = "load" /\ call[c].pc = "mark" /\ new.op = call[c].op
             \/ new.pc \in {"input", "cost", "write", "save"} /\ InSection(c) /\ new.op = call[c].op
      PROVE Shape'
  <2>1. OthersGo(c) /\ call'[c] = new
    BY <1>4, <1>c DEF OthersGo
  <2>2. ShapeAt(c)'
    BY <1>4, <2>1, <1>o DEF Shape, InSection
  <2>3. QED
    BY <1>1, <1>4, <2>1, <2>2
<1>5. ASSUME NEW c \in Callers, NEW seen \in 0..Stored.version, Recompute(c, seen) PROVE Shape'
  <2> DEFINE new == [Resting EXCEPT !.pc = "lock", !.op = "recompute",
                                    !.overrides = [version |-> seen, by |-> c]]
  <2>1. call' = [call EXCEPT ![c] = new] /\ UNCHANGED lock
    BY <1>5 DEF Recompute, Begin
  <2>2. new.pc = "lock" /\ new.op = "recompute"
    BY DEF Resting
  <2> HIDE DEF new
  <2>3. QED
    BY <1>4, <2>1, <2>2
<1>6. ASSUME NEW c \in Callers, NEW e \in Elements, NEW v \in Verdicts, SetDetectionReview(c, e, v)
      PROVE Shape'
  <2> DEFINE new == [Resting EXCEPT !.pc = "lock", !.op = "review", !.element = e, !.verdict = v]
  <2>1. call' = [call EXCEPT ![c] = new] /\ UNCHANGED lock
    BY <1>6 DEF SetDetectionReview, Begin
  <2>2. new.pc = "lock" /\ new.op = "review"
    BY DEF Resting
  <2> HIDE DEF new
  <2>3. QED
    BY <1>4, <2>1, <2>2
<1>7. ASSUME NEW c \in Callers, RecomputeProject(c) PROVE Shape'
  <2> DEFINE new == [Resting EXCEPT !.pc = "load"]
  <2>1. call' = [call EXCEPT ![c] = new] /\ UNCHANGED lock
    BY <1>7 DEF RecomputeProject, Begin
  <2>2. new.pc = "load" /\ new.op = "catalog"
    BY DEF Resting
  <2> HIDE DEF new
  <2>3. QED
    BY <1>4, <2>1, <2>2
<1>8. ASSUME NEW c \in Callers, Acquire(c) PROVE Shape'
  <2> DEFINE pc == IF call[c].op = "recompute" THEN "check" ELSE "look"
  <2>1. call[c].pc = "lock" /\ lock = Nobody /\ lock' = c /\ At(c, pc)
    BY <1>8 DEF Acquire
  <2>2. OthersGo(c) /\ call'[c] = [call[c] EXCEPT !.pc = pc]
    BY <2>1, <1>c, <1>p, CallMoves
  <2>3. call'[c].pc = pc /\ call'[c].op = call[c].op
    BY <2>2, <1>c DEF Call
  <2>4. ShapeAt(c)'
    BY <2>1, <2>3 DEF Shape, InSection
  <2>5. QED
    BY <1>1, <1>n, <2>1, <2>2, <2>4
<1>9. ASSUME NEW c \in Callers, CallStep(c) PROVE Shape'
  <2>1. CASE Leave(c)
    BY <1>3, <2>1
  <2>2. CASE ~Leave(c)
    <3>1. UNCHANGED lock \/ SaveOverrides(c)
      BY <1>9, <2>2 DEF CallStep, CheckVersion, LoadReviews, SaveReviews, LoadOverrides, LoadInputs,
                        BuildReport, WriteReport
    <3>2. ~SaveOverrides(c)
      BY <2>2 DEF SaveOverrides
    <3>3. CASE CheckVersion(c)
      <4> DEFINE new == [call[c] EXCEPT !.pc = "input", !.overrides.version = @ + 1]
      <4>1. call' = [call EXCEPT ![c] = new] /\ call[c].pc = "check"
        BY <2>2, <3>3 DEF CheckVersion
      <4>2. new.pc = "input" /\ new.op = call[c].op
        BY <1>c DEF Call
      <4> HIDE DEF new
      <4>3. QED
        BY <1>4, <3>1, <3>2, <4>1, <4>2 DEF InSection
    <3>4. CASE LoadReviews(c)
      <4> DEFINE new == [call[c] EXCEPT !.pc = "mark", !.reviews = reviews]
      <4>1. call' = [call EXCEPT ![c] = new] /\ call[c].pc = "look"
        BY <3>4 DEF LoadReviews
      <4>2. new.pc = "mark" /\ new.op = call[c].op
        BY <1>c DEF Call
      <4> HIDE DEF new
      <4>3. QED
        BY <1>4, <3>1, <3>2, <4>1, <4>2
    <3>5. CASE SaveReviews(c)
      <4> DEFINE new == [Resting EXCEPT !.pc = "load", !.op = "review"]
      <4>1. call' = [call EXCEPT ![c] = new] /\ call[c].pc = "mark" /\ call[c].op = "review"
        BY <3>5 DEF SaveReviews, Shape
      <4>2. new.pc = "load" /\ new.op = "review"
        BY DEF Resting
      <4> HIDE DEF new
      <4>3. QED
        BY <1>4, <3>1, <3>2, <4>1, <4>2
    <3>6. CASE LoadOverrides(c)
      <4> DEFINE new == [call[c] EXCEPT !.pc = "input", !.overrides = Stored]
      <4>1. call' = [call EXCEPT ![c] = new] /\ call[c].pc = "load"
        BY <3>6 DEF LoadOverrides
      <4>2. new.pc = "input" /\ new.op = call[c].op
        BY <1>c DEF Call
      <4> HIDE DEF new
      <4>3. QED
        BY <1>4, <3>1, <3>2, <4>1, <4>2 DEF InSection
    <3>7. CASE LoadInputs(c)
      <4> DEFINE new == [call[c] EXCEPT !.pc = "cost", !.run = run]
      <4>1. call' = [call EXCEPT ![c] = new] /\ call[c].pc = "input"
        BY <2>2, <3>7 DEF LoadInputs
      <4>2. new.pc = "cost" /\ new.op = call[c].op
        BY <1>c DEF Call
      <4> HIDE DEF new
      <4>3. QED
        BY <1>4, <3>1, <3>2, <4>1, <4>2 DEF InSection
    <3>8. CASE BuildReport(c)
      <4> DEFINE new == [call[c] EXCEPT !.pc = "write", !.reviews = reviews]
      <4>1. call' = [call EXCEPT ![c] = new] /\ call[c].pc = "cost"
        BY <3>8 DEF BuildReport
      <4>2. new.pc = "write" /\ new.op = call[c].op
        BY <1>c DEF Call
      <4> HIDE DEF new
      <4>3. QED
        BY <1>4, <3>1, <3>2, <4>1, <4>2 DEF InSection
    <3>9. CASE WriteReport(c)
      <4> DEFINE new == [call[c] EXCEPT !.pc = "save"]
      <4>1. call' = [call EXCEPT ![c] = new] /\ call[c].pc = "write"
        BY <3>9 DEF WriteReport, At
      <4>2. new.pc = "save" /\ new.op = call[c].op
        BY <1>c DEF Call
      <4> HIDE DEF new
      <4>3. QED
        BY <1>4, <3>1, <3>2, <4>1, <4>2 DEF InSection
    <3>10. QED
      BY <1>9, <3>2, <3>3, <3>4, <3>5, <3>6, <3>7, <3>8, <3>9 DEF CallStep
  <2>3. QED
    BY <2>1, <2>2
<1>10. CASE StartJob \/ JobStep
  BY <1>2, <1>10 DEF StartJob, JobStep, ReadOverrides, ReadReviews, SaveRekeyed, PublishRun,
                     DropDerived, JobFails
<1>11. CASE Crash
  BY <1>11, RestIsRest DEF Crash, Shape, InSection
<1>12. CASE UNCHANGED vars
  BY <1>2, <1>12 DEF vars
<1>13. QED
  BY <1>5, <1>6, <1>7, <1>8, <1>9, <1>10, <1>11, <1>12 DEF Next

(* What the caller in the section has read, for one caller. *)
ReadAt(c) ==
    /\ Costing(c) /\ call[c].op = "recompute" =>
          call[c].overrides.version = Stored.version + 1
    /\ Costing(c) /\ call[c].op # "recompute" => call[c].overrides = Stored
    /\ call[c].pc = "mark" => call[c].reviews = reviews
    /\ call[c].pc \in {"cost", "write", "save"} => call[c].run = run /\ run # 0
    /\ call[c].pc \in {"write", "save"} => call[c].reviews = reviews
    /\ call[c].pc = "save" =>
          derived = [run |-> call[c].run, overrides |-> call[c].overrides,
                     reviews |-> call[c].reviews]

(* A step of the caller that is alone in the section: it keeps what it has *)
(* read, and leaves readers a current report if it leaves nothing pending. *)
LEMMA SectionStep ==
  ASSUME TypeOK, Shape, Kept, NEW c \in Callers, InSection(c), OthersGo(c), UNCHANGED job,
         call'[c].op = call[c].op \/ call'[c] = Resting, ReadAt(c)',
         SettledAt(c)' /\ run' # 0 => Shown' = Latest'
  PROVE  Kept'
<1>1. \A d \in Callers : d # c => ~InSection(d) /\ call'[d] = call[d]
  BY InSectionAlone DEF Kept, OthersGo
<1>2. ~JobActive /\ job' = job
  BY DEF Kept, Serial, InSection, Calling
<1>3. Calling(c)' => call'[c].op = call[c].op /\ Calling(c)
  BY RestIsRest DEF Calling, InSection
<1>4. Serial'
  <2>1. \A d \in Callers : Calling(d)' => Calling(d) /\ call'[d].op = call[d].op
    BY <1>1, <1>3 DEF Calling
  <2>2. QED
    BY <2>1, <1>2 DEF Kept, Serial, JobActive
<1>5. Read'
  <2>1. \A d \in Callers : d # c => ReadAt(d)'
    BY <1>1 DEF ReadAt, InSection, Costing
  <2>2. \A d \in Callers : ReadAt(d)'
    BY <2>1
  <2>3. QED
    BY <2>2 DEF ReadAt, Read
<1>6. Taken' /\ Current'
  BY <1>2 DEF Taken, Current, JobActive, Settled
<1>7. QED
  BY <1>4, <1>5, <1>6 DEF Kept

(* A step of a request that has not come to the section's reads. *)
LEMMA EntryStep ==
  ASSUME TypeOK, Kept, NEW c \in Callers, ~InSection(c), OthersGo(c), UNCHANGED <<disk, job>>,
         \/ call'[c].pc \in {"lock", "check", "look"}
         \/ call'[c].pc = "load" /\ call'[c].op = "catalog",
         Serial'
  PROVE  Kept'
<1>1. \A d \in Callers : d # c => call'[d] = call[d]
  BY DEF OthersGo
<1>2. Stored' = Stored /\ Shown' = Shown /\ Latest' = Latest
  BY DEF Stored, Shown, Latest, disk
<1>3. Read'
  <2>1. \A d \in Callers : d # c => ReadAt(d)'
    BY <1>1, <1>2 DEF Kept, Read, ReadAt, Costing, disk
  <2>2. ReadAt(c)'
    BY DEF ReadAt, Costing
  <2>3. \A d \in Callers : ReadAt(d)'
    BY <2>1, <2>2
  <2>4. QED
    BY <2>3 DEF ReadAt, Read
<1>4. Taken'
  BY <1>2 DEF Kept, Taken, disk
<1>5. Current'
  <2>1. SettledAt(c)
    BY DEF SettledAt, InSection
  <2>2. Settled' => Settled
    BY <1>1, <2>1 DEF Settled, SettledAt
  <2>3. QED
    BY <1>2, <2>2 DEF Kept, Current, disk
<1>6. QED
  BY <1>3, <1>4, <1>5 DEF Kept

(* A step with nobody calling, before it and after it. *)
LEMMA QuietStep ==
  ASSUME Kept, \A c \in Callers : ~Calling(c) /\ ~Calling(c)', Taken',
         job'.pc = "unlink" => report' = Latest',
         job'.pc # "unlink" /\ run' # 0 => Shown' = Latest'
  PROVE  Kept'
<1>1. Serial' /\ Read'
  BY DEF Serial, Read, Calling, Costing
<1>2. QED
  BY <1>1 DEF Kept, Current

LEMMA CallKept ==
  ASSUME TypeOK, Shape, Kept, NEW c \in Callers, CallStep(c)
  PROVE  Kept'
<1>c. /\ call \in [Callers -> Call] /\ Stored \in Overrides /\ job' = job
      /\ call[c] \in Call /\ call[c].overrides \in Overrides /\ reviews \in Reviews
  BY StoredType DEF TypeOK, Call, CallStep, CheckVersion, LoadReviews, SaveReviews, LoadOverrides,
     LoadInputs, BuildReport, WriteReport, SaveOverrides
<1>p. CallPcs = {"idle", "lock", "check", "look", "mark", "load", "input", "cost", "write", "save"}
  BY DEF CallPcs
<1>i. InSection(c)
  BY DEF InSection, CallStep, CheckVersion, LoadReviews, SaveReviews, LoadOverrides,
     LoadInputs, BuildReport, WriteReport, SaveOverrides
<1>j. ~JobActive
  BY <1>i DEF Kept, Serial, InSection, Calling
<1>r. ReadAt(c)
  BY DEF Kept, Read, ReadAt
(* Nobody else has anything pending. *)
<1>s. SettledAt(c) /\ run # 0 => Shown = Latest
  <2>1. \A d \in Callers : d # c => SettledAt(d)
    BY <1>i, InSectionAlone DEF Kept, InSection, SettledAt
  <2>2. QED
    BY <2>1, <1>j DEF Kept, Current, Settled, JobActive
(* A step that writes no file. *)
<1>1. ASSUME NEW new, call' = [call EXCEPT ![c] = new], new.op = call[c].op,
             UNCHANGED disk, ReadAt(c)', SettledAt(c)' => SettledAt(c)
      PROVE  Kept'
  <2>1. OthersGo(c) /\ call'[c] = new
    BY <1>1, <1>c DEF OthersGo
  <2>2. Shown' = Shown /\ Latest' = Latest /\ run' = run
    BY <1>1 DEF disk, Shown, Latest, Stored
  <2>3. QED
    BY SectionStep, <1>1, <1>i, <1>c, <1>s, <2>1, <2>2
(* A request that ends without having written anything it owes. *)
<1>2. ASSUME Leave(c), UNCHANGED disk, SettledAt(c) \/ run = 0 PROVE Kept'
  <2>1. OthersGo(c) /\ call'[c] = Resting
    BY <1>2, <1>c, CallMoves
  <2>2. Shown' = Shown /\ Latest' = Latest /\ run' = run
    BY <1>2 DEF disk, Shown, Latest, Stored
  <2>3. ReadAt(c)'
    BY <2>1, RestIsRest DEF ReadAt, Costing
  <2>4. QED
    BY SectionStep, <1>2, <1>i, <1>c, <1>s, <2>1, <2>2, <2>3
<1>3. CASE CheckVersion(c)
  <2>1. CASE Leave(c)
    BY <1>2, <1>3, <2>1 DEF CheckVersion, SettledAt, Shape, disk
  <2>2. CASE ~Leave(c)
    <3> DEFINE new == [call[c] EXCEPT !.pc = "input", !.overrides.version = @ + 1]
    <3>1. /\ call' = [call EXCEPT ![c] = new] /\ UNCHANGED disk /\ call[c].pc = "check"
          /\ call[c].overrides.version = Stored.version /\ call[c].op = "recompute"
      BY <1>3, <2>2 DEF CheckVersion, Shape
    <3>2. /\ new.pc = "input" /\ new.op = call[c].op
          /\ new.overrides.version = call[c].overrides.version + 1
      BY <1>c DEF Call, Overrides
    <3> HIDE DEF new
    <3>3. call'[c] = new
      BY <3>1, <1>c
    <3>4. ReadAt(c)'
      BY <3>1, <3>2, <3>3 DEF ReadAt, Stored, disk
    <3>5. QED
      BY <1>1, <3>1, <3>2, <3>3, <3>4 DEF SettledAt
  <2>3. QED
    BY <2>1, <2>2
<1>4. CASE LoadReviews(c)
  <2> DEFINE new == [call[c] EXCEPT !.pc = "mark", !.reviews = reviews]
  <2>1. call' = [call EXCEPT ![c] = new] /\ UNCHANGED disk /\ call[c].pc = "look"
    BY <1>4 DEF LoadReviews
  <2>2. new.pc = "mark" /\ new.op = call[c].op /\ new.reviews = reviews
    BY <1>c DEF Call
  <2> HIDE DEF new
  <2>3. call'[c] = new
    BY <2>1, <1>c
  <2>4. ReadAt(c)'
    BY <2>1, <2>2, <2>3 DEF ReadAt, Costing, disk
  <2>5. QED
    BY <1>1, <2>1, <2>2, <2>3, <2>4 DEF SettledAt
<1>5. CASE SaveReviews(c)
  <2> DEFINE new == [Resting EXCEPT !.pc = "load", !.op = "review"]
  <2>1. /\ call' = [call EXCEPT ![c] = new] /\ call[c].pc = "mark" /\ call[c].op = "review"
    BY <1>5 DEF SaveReviews, Shape
  <2>2. new.pc = "load" /\ new.op = "review"
    BY DEF Resting
  <2> HIDE DEF new
  <2>3. OthersGo(c) /\ call'[c] = new
    BY <2>1, <1>c DEF OthersGo
  <2>4. ReadAt(c)' /\ ~SettledAt(c)'
    BY <2>2, <2>3 DEF ReadAt, Costing, SettledAt
  <2>5. QED
    BY SectionStep, <1>i, <1>c, <2>1, <2>2, <2>3, <2>4
<1>6. CASE LoadOverrides(c)
  <2> DEFINE new == [call[c] EXCEPT !.pc = "input", !.overrides = Stored]
  <2>1. /\ call' = [call EXCEPT ![c] = new] /\ UNCHANGED disk /\ call[c].pc = "load"
        /\ call[c].op # "recompute"
    BY <1>6 DEF LoadOverrides, Shape
  <2>2. new.pc = "input" /\ new.op = call[c].op /\ new.overrides = Stored
    BY <1>c DEF Call
  <2> HIDE DEF new
  <2>3. call'[c] = new
    BY <2>1, <1>c
  <2>4. ReadAt(c)'
    BY <2>1, <2>2, <2>3 DEF ReadAt, Stored, disk
  <2>5. QED
    BY <1>1, <2>1, <2>2, <2>3, <2>4 DEF SettledAt
<1>7. CASE LoadInputs(c)
  <2>1. CASE run = 0
    BY <1>2, <1>7, <2>1 DEF LoadInputs
  <2>2. CASE run # 0
    <3> DEFINE new == [call[c] EXCEPT !.pc = "cost", !.run = run]
    <3>1. call' = [call EXCEPT ![c] = new] /\ UNCHANGED disk /\ call[c].pc = "input"
      BY <1>7, <2>2 DEF LoadInputs
    <3>2. /\ new.pc = "cost" /\ new.op = call[c].op /\ new.run = run
          /\ new.overrides = call[c].overrides
      BY <1>c DEF Call
    <3> HIDE DEF new
    <3>3. call'[c] = new
      BY <3>1, <1>c
    <3>4. ReadAt(c)'
      BY <1>r, <2>2, <3>1, <3>2, <3>3 DEF ReadAt, Costing, Stored, disk
    <3>5. QED
      BY <1>1, <3>1, <3>2, <3>3, <3>4 DEF SettledAt
  <2>3. QED
    BY <2>1, <2>2
<1>8. CASE BuildReport(c)
  <2> DEFINE new == [call[c] EXCEPT !.pc = "write", !.reviews = reviews]
  <2>1. call' = [call EXCEPT ![c] = new] /\ UNCHANGED disk /\ call[c].pc = "cost"
    BY <1>8 DEF BuildReport
  <2>2. /\ new.pc = "write" /\ new.op = call[c].op /\ new.run = call[c].run
        /\ new.overrides = call[c].overrides /\ new.reviews = reviews
    BY <1>c DEF Call
  <2> HIDE DEF new
  <2>3. call'[c] = new
    BY <2>1, <1>c
  <2>4. ReadAt(c)'
    BY <1>r, <2>1, <2>2, <2>3 DEF ReadAt, Costing, Stored, disk
  <2>5. QED
    BY <1>1, <2>1, <2>2, <2>3, <2>4 DEF SettledAt
<1>9. CASE WriteReport(c)
  <2> DEFINE new == [call[c] EXCEPT !.pc = "save"]
  <2>1. /\ call' = [call EXCEPT ![c] = new] /\ call[c].pc = "write"
        /\ UNCHANGED <<overrides, reviews, run>>
        /\ derived' = [run |-> call[c].run, overrides |-> call[c].overrides,
                       reviews |-> call[c].reviews]
    BY <1>9 DEF WriteReport, At
  <2>2. /\ new.pc = "save" /\ new.op = call[c].op /\ new.run = call[c].run
        /\ new.overrides = call[c].overrides /\ new.reviews = call[c].reviews
    BY <1>c DEF Call
  <2> HIDE DEF new
  <2>3. OthersGo(c) /\ call'[c] = new
    BY <2>1, <1>c DEF OthersGo
  <2>4. ReadAt(c)' /\ ~SettledAt(c)'
    BY <1>r, <2>1, <2>2, <2>3 DEF ReadAt, Costing, Stored, SettledAt
  <2>5. QED
    BY SectionStep, <1>i, <1>c, <2>2, <2>3, <2>4
<1>10. CASE SaveOverrides(c)
  <2>1. OthersGo(c) /\ call'[c] = Resting
    BY <1>10, <1>c, CallMoves DEF SaveOverrides
  <2>2. ReadAt(c)'
    BY <2>1, RestIsRest DEF ReadAt, Costing
  <2>3. /\ call[c].pc = "save" /\ UNCHANGED <<reviews, run, report, derived>>
        /\ overrides' = call[c].overrides
    BY <1>10 DEF SaveOverrides
  <2>4. Stored' = call[c].overrides
    BY <2>3, <1>c, NoneAssumption DEF Stored
  <2>5. derived' = Latest'
    BY <1>r, <2>3, <2>4 DEF ReadAt, Latest
  <2>6. derived' # None
    <3>1. derived' \in Report
      BY <1>r, <1>c, <2>3 DEF ReadAt, Report, Call
    <3>2. QED
      BY <3>1, NoneAssumption
  <2>7. Shown' = Latest'
    BY <2>5, <2>6 DEF Shown
  <2>8. QED
    BY SectionStep, <1>i, <1>c, <2>1, <2>2, <2>7
<1>11. QED
  BY <1>3, <1>4, <1>5, <1>6, <1>7, <1>8, <1>9, <1>10 DEF CallStep

LEMMA JobKept ==
  ASSUME TypeOK, Kept, StartJob \/ JobStep, ~overlapped'
  PROVE  Kept'
<1>q. /\ \A c \in Callers : ~Calling(c) /\ ~Calling(c)'
      /\ UNCHANGED overrides
  BY DEF StartJob, JobStep, ReadOverrides, ReadReviews, SaveRekeyed, PublishRun, DropDerived,
         JobFails, Kept, Serial, JobActive, Calling, disk
<1>s. Settled
  BY <1>q, RestIsRest DEF Settled, SettledAt, Calling
<1>u. Stored' = Stored
  BY <1>q DEF Stored
<1>j. job = [pc |-> job.pc, overrides |-> job.overrides, reviews |-> job.reviews]
  BY DEF TypeOK, Job
<1>n. NoJob = [pc |-> "idle", overrides |-> DefaultOverrides, reviews |-> NoReviews]
  BY DEF NoJob
<1>e. /\ StartJob => job'.pc = "overrides" /\ job.pc = "idle"
      /\ ReadOverrides => job'.pc = "reviews" /\ job'.overrides = Stored
      /\ ReadReviews => job'.pc \in {"rekey", "publish"} /\ job'.overrides = job.overrides
                          /\ job'.reviews = reviews
      /\ SaveRekeyed => job'.pc = "publish" /\ job'.overrides = job.overrides
                          /\ job'.reviews = job.reviews
      /\ PublishRun => job'.pc = "unlink"
      /\ DropDerived \/ JobFails => job'.pc = "idle"
  <2>1. StartJob => job'.pc = "overrides" /\ job.pc = "idle"
    BY <1>n DEF StartJob, JobActive
  <2>2. ReadOverrides => job'.pc = "reviews" /\ job'.overrides = Stored
    BY <1>j DEF ReadOverrides
  <2>3. ReadReviews => job'.pc \in {"rekey", "publish"} /\ job'.overrides = job.overrides
                         /\ job'.reviews = reviews
    BY <1>j DEF ReadReviews
  <2>4. SaveRekeyed => job'.pc = "publish" /\ job'.overrides = job.overrides
                         /\ job'.reviews = job.reviews
    BY <1>j DEF SaveRekeyed
  <2>5. PublishRun => job'.pc = "unlink"
    BY <1>n DEF PublishRun
  <2>6. DropDerived \/ JobFails => job'.pc = "idle"
    BY <1>n DEF DropDerived, JobFails
  <2>7. QED
    BY <2>1, <2>2, <2>3, <2>4, <2>5, <2>6
<1>1. Taken'
  BY <1>e, <1>u DEF Kept, Taken, StartJob, JobStep, ReadOverrides, ReadReviews, SaveRekeyed,
                    PublishRun, DropDerived, JobFails, disk
<1>2. CASE PublishRun
  <2>1. report' = Latest' /\ job'.pc = "unlink"
    BY <1>2, <1>e, <1>u DEF PublishRun, Kept, Taken, Latest
  <2>2. QED
    BY QuietStep, <1>q, <1>1, <2>1
<1>3. CASE DropDerived
  <2>1. Shown' = Latest' /\ job'.pc = "idle"
    BY <1>3, <1>e, <1>u DEF DropDerived, Kept, Current, Latest, Shown
  <2>2. QED
    BY QuietStep, <1>q, <1>1, <2>1
<1>4. CASE StartJob \/ ReadOverrides \/ ReadReviews \/ SaveRekeyed \/ JobFails
  <2>1. UNCHANGED <<overrides, run, report, derived, reviews>>
    BY <1>4 DEF StartJob, ReadOverrides, ReadReviews, SaveRekeyed, JobFails, disk, Kept, Taken
  <2>2. Shown' = Shown /\ Latest' = Latest /\ run' = run
    BY <2>1 DEF Shown, Latest, Stored
  <2>3. job.pc # "unlink" /\ job'.pc # "unlink"
    BY <1>4, <1>e DEF ReadOverrides, ReadReviews, SaveRekeyed, JobFails
  <2>4. QED
    BY QuietStep, <1>q, <1>s, <1>1, <2>2, <2>3 DEF Kept, Current
<1>5. QED
  BY <1>2, <1>3, <1>4 DEF JobStep

LEMMA NextKept ==
  ASSUME TypeOK, SectionInv, [Next]_vars, ~overlapped'
  PROVE  ~overlapped /\ Kept'
<1>1. ~overlapped
  BY DEF Next, Recompute, SetDetectionReview, RecomputeProject, Begin, Acquire, CallStep,
     CheckVersion, LoadReviews, SaveReviews, LoadOverrides, LoadInputs, BuildReport, WriteReport,
     SaveOverrides, StartJob, JobStep, ReadOverrides, ReadReviews, SaveRekeyed, PublishRun,
     DropDerived, JobFails, Crash, vars
<1>k. Kept /\ Shape
  BY <1>1 DEF SectionInv
<1>c. call \in [Callers -> Call]
  BY DEF TypeOK
<1>p. CallPcs = {"idle", "lock", "check", "look", "mark", "load", "input", "cost", "write", "save"}
  BY DEF CallPcs
(* A request begins: by ~overlapped' it has no one beside it that it, or a *)
(* change of the catalog, would have to wait for.                          *)
<1>2. ASSUME NEW c \in Callers, NEW op, Begin(c, op), NEW new, call' = [call EXCEPT ![c] = new],
             new.op = op, new.pc \in {"lock", "load"}, new.pc = "load" => op = "catalog"
      PROVE  Kept'
  <2>1. OthersGo(c) /\ call'[c] = new /\ UNCHANGED <<disk, job>> /\ ~InSection(c)
    BY <1>2, <1>c DEF OthersGo, Begin, InSection, Calling
  <2>2. /\ ~JobActive /\ ~JobActive' /\ ~Calling(c)
        /\ \A d \in Callers : Calling(d) => op # "catalog" /\ call[d].op # "catalog"
    BY <1>2 DEF Begin, JobActive
  <2>3. Serial'
    BY <2>1, <2>2, <1>2 DEF Serial, OthersGo, Calling
  <2>4. QED
    BY EntryStep, <1>k, <1>2, <2>1, <2>3
<1>3. ASSUME NEW c \in Callers, NEW seen \in 0..Stored.version, Recompute(c, seen) PROVE Kept'
  <2> DEFINE new == [Resting EXCEPT !.pc = "lock", !.op = "recompute",
                                    !.overrides = [version |-> seen, by |-> c]]
  <2>1. call' = [call EXCEPT ![c] = new] /\ Begin(c, "recompute")
    BY <1>3 DEF Recompute
  <2>2. new.pc = "lock" /\ new.op = "recompute"
    BY DEF Resting
  <2> HIDE DEF new
  <2>3. QED
    BY <1>2, <2>1, <2>2
<1>4. ASSUME NEW c \in Callers, NEW e \in Elements, NEW v \in Verdicts, SetDetectionReview(c, e, v)
      PROVE Kept'
  <2> DEFINE new == [Resting EXCEPT !.pc = "lock", !.op = "review", !.element = e, !.verdict = v]
  <2>1. call' = [call EXCEPT ![c] = new] /\ Begin(c, "review")
    BY <1>4 DEF SetDetectionReview
  <2>2. new.pc = "lock" /\ new.op = "review"
    BY DEF Resting
  <2> HIDE DEF new
  <2>3. QED
    BY <1>2, <2>1, <2>2
<1>5. ASSUME NEW c \in Callers, RecomputeProject(c) PROVE Kept'
  <2> DEFINE new == [Resting EXCEPT !.pc = "load"]
  <2>1. call' = [call EXCEPT ![c] = new] /\ Begin(c, "catalog")
    BY <1>5 DEF RecomputeProject
  <2>2. new.pc = "load" /\ new.op = "catalog"
    BY DEF Resting
  <2> HIDE DEF new
  <2>3. QED
    BY <1>2, <2>1, <2>2
<1>6. ASSUME NEW c \in Callers, Acquire(c) PROVE Kept'
  <2> DEFINE pc == IF call[c].op = "recompute" THEN "check" ELSE "look"
  <2>1. call[c].pc = "lock" /\ At(c, pc) /\ UNCHANGED <<disk, job>>
    BY <1>6 DEF Acquire
  <2>2. OthersGo(c) /\ call'[c] = [call[c] EXCEPT !.pc = pc]
    BY <2>1, <1>c, <1>p, CallMoves
  <2>3. call'[c].pc = pc /\ call'[c].op = call[c].op
    BY <2>2, <1>c DEF Call
  <2>4. \A d \in Callers : Calling(d)' => Calling(d) /\ call'[d].op = call[d].op
    BY <2>1, <2>2, <2>3 DEF OthersGo, Calling
  <2>5. Serial'
    BY <1>k, <2>1, <2>4 DEF Kept, Serial, JobActive
  <2>6. QED
    BY EntryStep, <1>k, <2>1, <2>2, <2>3, <2>5 DEF InSection
<1>7. ASSUME NEW c \in Callers, CallStep(c) PROVE Kept'
  BY CallKept, <1>k, <1>7
<1>8. CASE StartJob \/ JobStep
  BY JobKept, <1>1, <1>k, <1>8
<1>9. CASE Crash
  <2>1. /\ job.pc = "idle" /\ job'.pc = "idle" /\ UNCHANGED disk
        /\ \A c \in Callers : ~Calling(c) /\ ~Calling(c)'
    BY <1>9, RestIsRest DEF Crash, JobActive, Calling
  <2>2. Settled
    BY <2>1 DEF Settled, SettledAt, Calling
  <2>3. Shown' = Shown /\ Latest' = Latest /\ run' = run
    BY <2>1 DEF disk, Shown, Latest, Stored
  <2>4. QED
    BY QuietStep, <1>1, <1>k, <2>1, <2>2, <2>3 DEF Kept, Current, Taken
<1>10. CASE UNCHANGED vars
  BY <1>k, <1>10 DEF vars, disk, Kept, Serial, Read, Taken, Current, Settled, SettledAt, Shown, Latest,
                     Stored, JobActive, Calling, Costing
<1>11. QED
  BY <1>1, <1>3, <1>4, <1>5, <1>6, <1>7, <1>8, <1>9, <1>10 DEF Next

LEMMA SectionHolds == Spec => [](TypeOK /\ SectionInv)
<1>1. Init => SectionInv
  <2>1. Init => \A c \in Callers : call[c] = Resting
    BY DEF Init
  <2>2. Init => Shape /\ Kept
    BY <2>1, RestIsRest DEF Init, Shape, Kept, Serial, Read, Taken, Current, JobActive, Calling,
                            InSection, Costing
  <2>3. QED
    BY <2>2 DEF SectionInv
<1>2. TypeOK /\ SectionInv /\ [Next]_vars => TypeOK' /\ SectionInv'
  BY NextTypes, NextShape, NextKept DEF SectionInv
<1>3. QED
  BY <1>1, <1>2, InitTypes, PTL DEF Spec

-----------------------------------------------------------------------------
(* The promises *)

(* A step of the requests under the lock, or of a writer that overlaps     *)
(* nobody, changes the stored parameters to the version after them only.   *)
LEMMA StepBuildsOnSeen ==
  ASSUME TypeOK, SectionInv, [Next]_vars, ~overlapped'
  PROVE  BuildsOnSeen
<1>k. Kept
  BY NextKept DEF SectionInv
<1>1. ASSUME NEW c \in Callers, SaveOverrides(c) PROVE BuildsOnSeen
  <2>1. overrides' = call[c].overrides /\ call[c].pc = "save"
    BY <1>1 DEF SaveOverrides
  <2>2. Stored' = call[c].overrides
    BY <2>1, NoneAssumption DEF Stored, TypeOK, Call
  <2>3. \/ call[c].overrides = Stored
        \/ call[c].overrides.version = Stored.version + 1
    BY <1>k, <2>1 DEF Kept, Read, Costing
  <2>4. QED
    BY <2>2, <2>3 DEF BuildsOnSeen
<1>2. ASSUME UNCHANGED overrides PROVE BuildsOnSeen
  BY <1>2 DEF BuildsOnSeen, Stored
<1>3. UNCHANGED overrides \/ \E c \in Callers : SaveOverrides(c)
  BY DEF Next, Recompute, SetDetectionReview, RecomputeProject, Begin, Acquire, CallStep,
     CheckVersion, LoadReviews, SaveReviews, LoadOverrides, LoadInputs, BuildReport, WriteReport,
     StartJob, JobStep, ReadOverrides, ReadReviews, SaveRekeyed, PublishRun,
     DropDerived, JobFails, Crash, vars, disk
<1>4. QED
  BY <1>1, <1>2, <1>3

(* Such a step changes the verdict of the element its request is about.    *)
LEMMA StepKeepsReviews ==
  ASSUME TypeOK, SectionInv, [Next]_vars, ~overlapped'
  PROVE  ChangedByReview
<1>k. Kept
  BY NextKept DEF SectionInv
<1>1. ASSUME NEW c \in Callers, SaveReviews(c) PROVE ChangedByReview
  <2>1. /\ call[c].pc = "mark" /\ call[c].reviews = reviews
        /\ reviews' = [call[c].reviews EXCEPT ![call[c].element] = call[c].verdict]
    BY <1>1, <1>k DEF SaveReviews, Marked, Kept, Read
  <2>2. reviews \in [Elements -> Verdicts]
    BY DEF TypeOK, Reviews
  <2>3. \A e \in Elements : reviews'[e] # reviews[e] => SaysSo(c, e)
    BY <2>1, <2>2 DEF SaysSo
  <2>4. QED
    BY <2>3 DEF ChangedByReview
<1>2. ASSUME UNCHANGED reviews PROVE ChangedByReview
  BY <1>2 DEF ChangedByReview
<1>3. SaveRekeyed => UNCHANGED reviews
  BY <1>k DEF SaveRekeyed, Kept, Taken
<1>4. UNCHANGED reviews \/ SaveRekeyed \/ \E c \in Callers : SaveReviews(c)
  BY DEF Next, Recompute, SetDetectionReview, RecomputeProject, Begin, Acquire, CallStep,
     CheckVersion, LoadReviews, LoadOverrides, LoadInputs, BuildReport, WriteReport,
     SaveOverrides, StartJob, JobStep, ReadOverrides, ReadReviews, PublishRun,
     DropDerived, JobFails, Crash, vars, disk
<1>5. QED
  BY <1>1, <1>2, <1>3, <1>4

(* Edits and verdicts made under project_recompute_lock lose nothing of     *)
(* each other, and neither does a job or a change of the catalog that      *)
(* overlaps no one.                                                        *)
THEOREM LockKeepsEdits == Spec => LockedEditsBuildOnSeen /\ LockedReviewsSurvive
<1>1. TypeOK /\ SectionInv /\ [Next]_vars => overlapped' \/ BuildsOnSeen
  BY StepBuildsOnSeen
<1>2. TypeOK /\ SectionInv /\ [Next]_vars => overlapped' \/ ChangedByReview
  BY StepKeepsReviews
<1>3. QED
  BY <1>1, <1>2, SectionHolds, PTL DEF Spec, LockedEditsBuildOnSeen, LockedReviewsSurvive

(* At rest, what readers are shown is the published run costed with the    *)
(* parameters and the verdicts that are stored.                            *)
THEOREM ReadersSeeCurrent == Spec => []ShownIsCurrent
<1>1. TypeOK /\ SectionInv => ShownIsCurrent
  <2> SUFFICES ASSUME TypeOK, SectionInv, AtRest, ~overlapped, run # 0
               PROVE  Shown = [run |-> run, overrides |-> Stored, reviews |-> reviews]
    BY DEF ShownIsCurrent
  <2>1. Current /\ job.pc # "unlink"
    BY DEF SectionInv, Kept, AtRest, JobActive
  <2>2. \A c \in Callers : call[c].pc = "idle"
    BY DEF AtRest, Calling
  <2>3. Settled
    BY <2>2 DEF Settled, SettledAt
  <2>4. QED
    BY <2>1, <2>3 DEF Current, Latest
<1>2. QED
  BY <1>1, SectionHolds, PTL

-----------------------------------------------------------------------------
(***************************************************************************)
(* PriceBook, for every finite set of insumos, every set of concepts, of   *)
(* editors and of rows, and every depth at which the recomputation stops.  *)
(***************************************************************************)

-----------------------------------------------------------------------------
(* Prices and matrices. *)

Costos == [Insumos -> Nat]
Matrices == [Duenos -> Costos]
Composiciones == [Basicos -> Costos]
Tope == MaxBasicoDepth + 1

LEMMA TopeEs == Tope \in Nat /\ Tope \in 0..Tope /\ MaxBasicoDepth \in Nat
<1>1. MaxBasicoDepth \in Nat
  BY PriceBookAssumption
<1>2. QED
  BY <1>1 DEF Tope

LEMMA OrdenEs == Len(Orden) \in Nat /\ \A n \in 1..Len(Orden) : Orden[n] \in Insumos
<1>1. IsFiniteSet(Insumos)
  BY PriceBookAssumption
<1>2. /\ SetToSeq(Insumos) \in [1..Cardinality(Insumos) -> Insumos]
      /\ Len(SetToSeq(Insumos)) = Cardinality(Insumos) /\ Cardinality(Insumos) \in Nat
  BY <1>1, EnFila
<1> HIDE DEF Insumos
<1>3. QED
  BY <1>2 DEF Orden

(* A price that a matrix gives is a number, and the same for prices that   *)
(* are the same for its members.                                           *)
LEMMA TotalEs ==
  ASSUME NEW p \in Costos, NEW fila \in Costos
  PROVE  Total(p, fila) \in Nat
<1> DEFINE f == [n \in 1..Len(Orden) |-> fila[Orden[n]] * p[Orden[n]]]
<1>1. ASSUME NEW n \in 1..Len(Orden) PROVE f[n] \in Nat
  <2>1. fila[Orden[n]] \in Nat /\ p[Orden[n]] \in Nat
    BY OrdenEs DEF Costos
  <2>2. QED
    BY <2>1
<1> HIDE DEF f
<1>2. Len(Orden) \in 0..Len(Orden) /\ Len(Orden) \in Nat
  BY OrdenEs
<1>3. Added(f, Len(Orden)) \in Nat
  BY <1>1, <1>2, AddedSteps
<1>4. QED
  BY <1>3 DEF f, Total

LEMMA TotalIgual ==
  ASSUME NEW p \in Costos, NEW q \in Costos, NEW fila \in Costos,
         \A i \in Lineas(fila) : p[i] = q[i]
  PROVE  Total(q, fila) = Total(p, fila) /\ (Calculable(q, fila) <=> Calculable(p, fila))
<1> DEFINE f == [n \in 1..Len(Orden) |-> fila[Orden[n]] * p[Orden[n]]]
           g == [n \in 1..Len(Orden) |-> fila[Orden[n]] * q[Orden[n]]]
<1>1. ASSUME NEW n \in 1..Len(Orden) PROVE f[n] \in Nat /\ g[n] = f[n]
  <2>1. Orden[n] \in Insumos
    BY OrdenEs
  <2>2. fila[Orden[n]] \in Nat /\ p[Orden[n]] \in Nat /\ q[Orden[n]] \in Nat
    BY <2>1 DEF Costos
  <2>3. CASE fila[Orden[n]] > 0
    <3>1. p[Orden[n]] = q[Orden[n]]
      BY <2>1, <2>3 DEF Lineas
    <3>2. QED
      BY <2>2, <3>1
  <2>4. CASE fila[Orden[n]] = 0
    <3>1. 0 * p[Orden[n]] = 0 /\ 0 * q[Orden[n]] = 0
      BY <2>2
    <3>2. QED
      BY <2>4, <3>1
  <2>5. QED
    BY <2>2, <2>3, <2>4
<1> HIDE DEF f, g
<1>2. Len(Orden) \in 0..Len(Orden) /\ Len(Orden) \in Nat
  BY OrdenEs
<1>3. Added(g, Len(Orden)) = Added(f, Len(Orden))
  BY <1>1, <1>2, AddedAlike
<1>4. Total(q, fila) = Total(p, fila)
  BY <1>3 DEF f, g, Total
<1>5. QED
  BY <1>4 DEF Calculable

-----------------------------------------------------------------------------
(* The rounds. *)

(* A solution of the recursion, and all of them are alike where it counts. *)
LEMMA RondasSon ==
  ASSUME NEW c \in Composiciones
  PROVE  LET R == Rondas(c) IN
         /\ R[0] = {} /\ \A n \in 0..Tope : R[n] \in SUBSET Basicos
         /\ \A n \in 1..Tope :
              R[n] = R[n - 1] \cup {b \in Basicos : Lineas(c[b]) \cap Basicos \subseteq R[n - 1]}
<1> DEFINE Mas(v) == v \cup {b \in Basicos : Lineas(c[b]) \cap Basicos \subseteq v}
           step == [n \in 1..Tope |-> [v \in SUBSET Basicos |-> Mas(v)]]
           Solves(g) == g = [n \in 0..Tope |-> IF n = 0 THEN {} ELSE Mas(g[n - 1])]
           R == CHOOSE g : Solves(g)
<1>1. Rondas(c) = R
  BY DEF Rondas, Tope
<1>2. \A v \in SUBSET Basicos : Mas(v) \in SUBSET Basicos
  OBVIOUS
<1> HIDE DEF Mas
<1>3. step \in Steps(Tope, SUBSET Basicos) /\ \A n \in 1..Tope, v \in SUBSET Basicos : step[n][v] = Mas(v)
  BY <1>2 DEF Steps
<1> HIDE DEF step
<1>4. PICK F : Iteration(F, Tope, SUBSET Basicos, {}, step)
  <2>1. {} \in SUBSET Basicos
    OBVIOUS
  <2>2. QED
    BY <1>3, <2>1, TopeEs, Iterates
<1>5. /\ F \in [0..Tope -> SUBSET Basicos] /\ F[0] = {}
      /\ \A n \in 1..Tope : F[n] = step[n][F[n - 1]]
  BY <1>4 DEF Iteration
<1>6. \A n \in 1..Tope : n \in 0..Tope /\ n - 1 \in 0..Tope /\ n # 0
  BY TopeEs
<1>7. \A n \in 0..Tope : n # 0 => n \in 1..Tope
  BY TopeEs
<1>8. \A n \in 1..Tope : F[n] = Mas(F[n - 1])
  BY <1>3, <1>5, <1>6
<1>9. Solves(F)
  BY <1>5, <1>7, <1>8
<1>10. Solves(R)
  BY <1>9
<1> HIDE DEF R
<1>11. R[0] = {} /\ \A n \in 1..Tope : R[n] = Mas(R[n - 1])
  <2>1. R = [n \in 0..Tope |-> IF n = 0 THEN {} ELSE Mas(R[n - 1])]
    BY <1>10
  <2>2. \A n \in 0..Tope : R[n] = IF n = 0 THEN {} ELSE Mas(R[n - 1])
    BY <2>1
  <2>3. 0 \in 0..Tope
    BY TopeEs
  <2> HIDE DEF Solves
  <2>4. QED
    BY <1>6, <2>2, <2>3
<1> HIDE DEF Solves
<1>12. \A n \in 0..Tope : R[n] = F[n]
  <2>1. \A n \in 1..Tope : R[n - 1] = F[n - 1] => R[n] = F[n]
    BY <1>8, <1>11
  <2>2. R[0] = F[0] /\ Tope \in Nat
    BY <1>5, <1>11, TopeEs
  <2>3. QED
    BY <2>1, <2>2, OneIteration
<1>13. \A n \in 0..Tope : R[n] \in SUBSET Basicos
  BY <1>5, <1>12
<1>14. QED
  BY <1>1, <1>11, <1>13 DEF Mas

(* A básico is done after those below it, and what is done stays done.     *)
LEMMA DeAbajo ==
  ASSUME NEW c \in Composiciones
  PROVE  LET R == Rondas(c) IN
         \A n \in 1..Tope :
           /\ R[n - 1] \subseteq R[n]
           /\ \A b \in R[n] : Lineas(c[b]) \cap Basicos \subseteq R[n - 1]
<1> DEFINE R == Rondas(c)
           Bajo(b) == Lineas(c[b]) \cap Basicos
           Good == {n \in 0..Tope : n # 0 => R[n - 1] \subseteq R[n] /\ \A b \in R[n] : Bajo(b) \subseteq R[n - 1]}
<1>1. /\ R[0] = {} /\ \A n \in 0..Tope : R[n] \in SUBSET Basicos
      /\ \A n \in 1..Tope : R[n] = R[n - 1] \cup {b \in Basicos : Bajo(b) \subseteq R[n - 1]}
  BY RondasSon
<1> HIDE DEF R, Bajo
<1>2. 0 \in Good
  BY TopeEs
<1>3. ASSUME NEW n \in 1..Tope, n - 1 \in Good PROVE n \in Good
  <2>1. R[n] = R[n - 1] \cup {b \in Basicos : Bajo(b) \subseteq R[n - 1]}
    BY <1>1
  <2>2. \A b \in R[n - 1] : Bajo(b) \subseteq R[n - 1]
    <3>1. CASE n - 1 = 0
      BY <1>1, <3>1
    <3>2. CASE n - 1 # 0
      BY <1>3, <3>2
    <3>3. QED
      BY <3>1, <3>2
  <2>3. n \in 0..Tope
    BY TopeEs
  <2>4. QED
    BY <2>1, <2>2, <2>3
<1>4. 0..Tope \subseteq Good
  <2> HIDE DEF Good
  <2>1. QED
    BY <1>2, <1>3, TopeEs, UpTo
<1>5. \A n \in 1..Tope : n \in 0..Tope /\ n # 0
  BY TopeEs
<1>6. QED
  BY <1>4, <1>5 DEF R, Bajo

LEMMA HechosSon ==
  ASSUME NEW c \in Composiciones
  PROVE  Hechos(c) \subseteq Basicos /\ \A b \in Hechos(c) : Lineas(c[b]) \cap Basicos \subseteq Hechos(c)
<1>1. Tope \in 0..Tope /\ Tope \in 1..Tope
  BY TopeEs, PriceBookAssumption DEF Tope
<1>2. Hechos(c) = Rondas(c)[Tope]
  BY DEF Hechos, Tope
<1>3. Rondas(c)[Tope] \in SUBSET Basicos
  BY <1>1, RondasSon
<1>4. /\ Rondas(c)[Tope - 1] \subseteq Rondas(c)[Tope]
      /\ \A b \in Rondas(c)[Tope] : Lineas(c[b]) \cap Basicos \subseteq Rondas(c)[Tope - 1]
  BY <1>1, DeAbajo
<1>5. QED
  BY <1>2, <1>3, <1>4

(* Induction from below upwards. *)
LEMMA HaciaArriba ==
  ASSUME NEW c \in Composiciones, NEW Bien,
         \A b \in Hechos(c) : Lineas(c[b]) \cap Basicos \subseteq Bien => b \in Bien
  PROVE  Hechos(c) \subseteq Bien
<1> DEFINE R == Rondas(c)
           Bajo(b) == Lineas(c[b]) \cap Basicos
           Good == {n \in 0..Tope : R[n] \subseteq Hechos(c) => R[n] \subseteq Bien}
<1>1. Hechos(c) = R[Tope] /\ Tope \in 0..Tope
  BY TopeEs DEF Hechos, Tope
<1>2. R[0] = {}
  BY RondasSon
<1>3. \A n \in 1..Tope : R[n - 1] \subseteq R[n] /\ \A b \in R[n] : Bajo(b) \subseteq R[n - 1]
  BY DeAbajo
<1> HIDE DEF R
<1>4. 0 \in Good
  BY <1>2, TopeEs
<1>5. ASSUME NEW n \in 1..Tope, n - 1 \in Good PROVE n \in Good
  <2>1. n \in 0..Tope
    BY TopeEs
  <2>2. SUFFICES ASSUME R[n] \subseteq Hechos(c), NEW b \in R[n] PROVE b \in Bien
    BY <2>1
  <2>3. R[n - 1] \subseteq Bien
    BY <1>3, <1>5, <2>2
  <2>4. Bajo(b) \subseteq Bien
    BY <1>3, <2>3
  <2>5. QED
    BY <2>2, <2>4
<1>6. 0..Tope \subseteq Good
  <2> HIDE DEF Good
  <2>1. QED
    BY <1>4, <1>5, TopeEs, UpTo
<1>7. QED
  BY <1>1, <1>6

-----------------------------------------------------------------------------
(* What recompute_basicos computes: every básico that is done and has its  *)
(* prices below is the sum of its matrix, and nothing else has changed.    *)
Resuelve(q, p, c, hechos) ==
  /\ q \in Costos /\ \A i \in Insumos : i \notin hechos => q[i] = p[i]
  /\ \A b \in hechos : q[b] = IF Calculable(q, c[b]) THEN Total(q, c[b]) ELSE p[b]

LEMMA UnaMas ==
  ASSUME NEW c \in Composiciones, NEW p \in Costos, NEW n \in 1..Tope, NEW r,
         Resuelve(r, p, c, Rondas(c)[n - 1])
  PROVE  Resuelve(Ronda(r, c, Rondas(c)[n] \ Rondas(c)[n - 1]), p, c, Rondas(c)[n])
<1> DEFINE antes == Rondas(c)[n - 1]
           hechos == Rondas(c)[n]
           q == Ronda(r, c, hechos \ antes)
<1>1. n \in 0..Tope /\ n - 1 \in 0..Tope
  BY TopeEs
<1>2. hechos \in SUBSET Basicos /\ antes \subseteq hechos
  BY <1>1, RondasSon, DeAbajo
<1>3. \A b \in hechos : Lineas(c[b]) \cap Basicos \subseteq antes
  BY DeAbajo
<1>4. r \in Costos /\ (\A i \in Insumos : i \notin antes => r[i] = p[i])
      /\ \A b \in antes : r[b] = IF Calculable(r, c[b]) THEN Total(r, c[b]) ELSE p[b]
  BY DEF Resuelve
<1> HIDE DEF antes, hechos
<1>5. Basicos \subseteq Insumos /\ \A b \in Basicos : c[b] \in Costos
  BY DEF Insumos, Composiciones
<1>6. \A i \in Insumos : q[i] = IF i \in hechos \ antes /\ Calculable(r, c[i]) THEN Total(r, c[i]) ELSE r[i]
  BY DEF Ronda
<1>7. q \in Costos
  <2>1. \A i \in Insumos : q[i] \in Nat
    <3>1. ASSUME NEW i \in Insumos PROVE q[i] \in Nat
      <4>1. CASE i \in hechos
        BY <1>2, <1>4, <1>5, <1>6, <4>1, TotalEs DEF Costos
      <4>2. CASE i \notin hechos
        BY <1>4, <1>6, <4>2 DEF Costos
      <4>3. QED
        BY <4>1, <4>2
    <3>2. QED
      BY <3>1
  <2>2. q = [i \in Insumos |-> q[i]]
    BY DEF Ronda
  <2> HIDE DEF q
  <2>3. QED
    BY <2>1, <2>2 DEF Costos
<1> HIDE DEF q
<1>8. ASSUME NEW b \in hechos
      PROVE  Total(q, c[b]) = Total(r, c[b]) /\ (Calculable(q, c[b]) <=> Calculable(r, c[b]))
  <2>1. \A i \in Lineas(c[b]) : r[i] = q[i]
    BY <1>2, <1>3, <1>6 DEF Lineas
  <2>2. c[b] \in Costos
    BY <1>2, <1>5
  <2>3. QED
    BY <1>4, <1>7, <2>1, <2>2, TotalIgual
<1>9. \A i \in Insumos : i \notin hechos => q[i] = p[i]
  BY <1>2, <1>4, <1>6
<1>10. ASSUME NEW b \in hechos PROVE q[b] = IF Calculable(q, c[b]) THEN Total(q, c[b]) ELSE p[b]
  <2>1. b \in Insumos
    BY <1>2, <1>5
  <2>2. CASE b \in antes
    BY <1>4, <1>6, <1>8, <2>1, <2>2
  <2>3. CASE b \notin antes
    BY <1>4, <1>6, <1>8, <2>1, <2>3
  <2>4. QED
    BY <2>2, <2>3
<1>11. Resuelve(q, p, c, hechos)
  BY <1>7, <1>9, <1>10 DEF Resuelve
<1>12. QED
  BY <1>11 DEF q, hechos, antes

LEMMA Resuelto ==
  ASSUME NEW c \in Composiciones, NEW p \in Costos
  PROVE  Resuelve(Resueltos(p, c), p, c, Hechos(c))
<1> DEFINE R == Rondas(c)
           V == Costos
           Otra(v, n) == Ronda(v, c, R[n] \ R[n - 1])
           Solves(g) == g = [n \in 0..Tope |-> IF n = 0 THEN p ELSE Otra(g[n - 1], n)]
           g == CHOOSE g : Solves(g)
           step == [n \in 1..Tope |-> [v \in V |-> Otra(v, n)]]
<1>1. Resueltos(p, c) = g[Tope] /\ Hechos(c) = R[Tope]
  BY DEF Resueltos, Hechos, Tope
<1>2. ASSUME NEW n \in 1..Tope, NEW v \in V PROVE Otra(v, n) \in V
  <2>1. \A i \in Insumos : Otra(v, n)[i] \in Nat
    <3>1. ASSUME NEW i \in Insumos PROVE Otra(v, n)[i] \in Nat
      <4>1. CASE i \in R[n]
        <5>1. R[n] \in SUBSET Basicos
          BY RondasSon, TopeEs
        <5>2. c[i] \in Costos
          BY <4>1, <5>1 DEF Composiciones
        <5>3. QED
          BY <1>2, <5>2, TotalEs DEF Ronda, Costos
      <4>2. CASE i \notin R[n]
        BY <1>2, <4>2 DEF Ronda, Costos
      <4>3. QED
        BY <4>1, <4>2
    <3>2. QED
      BY <3>1
  <2>2. Otra(v, n) = [i \in Insumos |-> Otra(v, n)[i]]
    BY DEF Ronda
  <2> HIDE DEF Otra
  <2>3. QED
    BY <2>1, <2>2 DEF Costos
<1> HIDE DEF Otra
<1>3. step \in Steps(Tope, V) /\ \A n \in 1..Tope, v \in V : step[n][v] = Otra(v, n)
  BY <1>2 DEF Steps
<1> HIDE DEF step
<1>4. PICK F : Iteration(F, Tope, V, p, step)
  BY <1>3, TopeEs, Iterates
<1>5. F \in [0..Tope -> V] /\ F[0] = p /\ \A n \in 1..Tope : F[n] = step[n][F[n - 1]]
  BY <1>4 DEF Iteration
<1>6. \A n \in 1..Tope : n \in 0..Tope /\ n - 1 \in 0..Tope /\ n # 0
  BY TopeEs
<1>7. \A n \in 0..Tope : n # 0 => n \in 1..Tope
  BY TopeEs
<1>8. \A n \in 1..Tope : F[n] = Otra(F[n - 1], n)
  BY <1>3, <1>5, <1>6
<1>9. Solves(F)
  BY <1>5, <1>7, <1>8
<1>10. Solves(g)
  BY <1>9
<1> HIDE DEF g
<1>11. g[0] = p /\ \A n \in 1..Tope : g[n] = Otra(g[n - 1], n)
  <2>1. g = [n \in 0..Tope |-> IF n = 0 THEN p ELSE Otra(g[n - 1], n)]
    BY <1>10
  <2>2. \A n \in 0..Tope : g[n] = IF n = 0 THEN p ELSE Otra(g[n - 1], n)
    BY <2>1
  <2>3. 0 \in 0..Tope
    BY TopeEs
  <2> HIDE DEF Solves
  <2>4. QED
    BY <1>6, <2>2, <2>3
<1> HIDE DEF Solves
<1> DEFINE Good == {n \in 0..Tope : Resuelve(g[n], p, c, R[n])}
<1>12. 0 \in Good
  <2>1. R[0] = {} /\ 0 \in 0..Tope
    BY RondasSon, TopeEs
  <2> HIDE DEF R
  <2>2. QED
    BY <1>11, <2>1 DEF Resuelve
<1>13. ASSUME NEW n \in 1..Tope, n - 1 \in Good PROVE n \in Good
  <2>1. Resuelve(g[n - 1], p, c, R[n - 1])
    BY <1>13
  <2>2. Resuelve(Otra(g[n - 1], n), p, c, R[n])
    BY <2>1, UnaMas DEF Otra
  <2>3. QED
    BY <1>6, <1>11, <2>2
<1>14. 0..Tope \subseteq Good
  <2> HIDE DEF Good
  <2>1. QED
    BY <1>12, <1>13, TopeEs, UpTo
<1>15. QED
  BY <1>1, <1>14, TopeEs

-----------------------------------------------------------------------------
(* Básicos with all the prices below. *)

LEMMA Juntas ==
  ASSUME NEW c \in Composiciones, NEW p
  PROVE  \A b \in UNION Completas(p, c) :
           /\ b \in Basicos /\ \A i \in Lineas(c[b]) : p[i] > 0
           /\ Lineas(c[b]) \cap Basicos \subseteq UNION Completas(p, c)
<1>1. SUFFICES ASSUME NEW bs \in Completas(p, c), NEW b \in bs
               PROVE  /\ b \in Basicos /\ \A i \in Lineas(c[b]) : p[i] > 0
                      /\ Lineas(c[b]) \cap Basicos \subseteq UNION Completas(p, c)
  OBVIOUS
<1>2. /\ b \in Basicos /\ \A i \in Lineas(c[b]) : p[i] > 0
      /\ Lineas(c[b]) \cap Basicos \subseteq bs
  BY <1>1 DEF Completas
<1>3. QED
  BY <1>2

LEMMA UnaTambien ==
  ASSUME NEW c \in Composiciones, NEW p, NEW b \in Basicos,
         \A i \in Lineas(c[b]) : p[i] > 0,
         Lineas(c[b]) \cap Basicos \subseteq UNION Completas(p, c)
  PROVE  b \in UNION Completas(p, c)
<1> DEFINE U == UNION Completas(p, c)
           bs == U \cup {b}
<1>1. \A d \in U : /\ d \in Basicos /\ \A i \in Lineas(c[d]) : p[i] > 0
                   /\ Lineas(c[d]) \cap Basicos \subseteq U
  BY Juntas
<1> HIDE DEF U
<1>2. bs \in SUBSET Basicos
  BY <1>1
<1>3. \A d \in bs : Lineas(c[d]) \cap Basicos \subseteq bs /\ \A i \in Lineas(c[d]) : p[i] > 0
  BY <1>1 DEF U
<1>4. bs \in Completas(p, c)
  BY <1>2, <1>3 DEF Completas
<1>5. QED
  BY <1>4

(* Prices that are sums of the same matrices over the same prices are the  *)
(* same.                                                                   *)
Sumas(p, c) == \A b \in Completos(p, c) : p[b] = Total(p, c[b])

LEMMA Unicos ==
  ASSUME NEW c \in Composiciones, NEW p \in Costos, NEW q \in Costos,
         \A i \in Propios(c) : q[i] = p[i], Sumas(p, c), Sumas(q, c)
  PROVE  \A b \in Completos(p, c) : q[b] = p[b]
<1> DEFINE P == UNION Completas(p, c)
           Q == UNION Completas(q, c)
           Bien == {b \in Hechos(c) : b \in P => q[b] = p[b] /\ b \in Q}
<1>1. /\ Hechos(c) \subseteq Basicos
      /\ \A b \in Hechos(c) : Lineas(c[b]) \cap Basicos \subseteq Hechos(c)
  BY HechosSon
<1>2. \A b \in P : /\ b \in Basicos /\ \A i \in Lineas(c[b]) : p[i] > 0
                   /\ Lineas(c[b]) \cap Basicos \subseteq P
  BY Juntas
<1>3. ASSUME NEW b \in Hechos(c), Lineas(c[b]) \cap Basicos \subseteq Bien PROVE b \in Bien
  <2>1. SUFFICES ASSUME b \in P PROVE q[b] = p[b] /\ b \in Q
    OBVIOUS
  <2>2. \A i \in Lineas(c[b]) : q[i] = p[i] /\ (i \in Basicos => i \in Q)
    <3>1. ASSUME NEW i \in Lineas(c[b]) PROVE q[i] = p[i] /\ (i \in Basicos => i \in Q)
      <4>1. CASE i \in Basicos
        <5>1. i \in P /\ i \in Bien
          BY <1>2, <1>3, <2>1, <4>1
        <5>2. QED
          BY <5>1
      <4>2. CASE i \notin Basicos
        BY <4>2 DEF Propios, Lineas
      <4>3. QED
        BY <4>1, <4>2
    <3>2. QED
      BY <3>1
  <2>3. b \in Basicos /\ c[b] \in Costos
    BY <1>1 DEF Composiciones
  <2>4. b \in Q
    <3>1. \A i \in Lineas(c[b]) : q[i] > 0
      BY <1>2, <2>1, <2>2
    <3>2. Lineas(c[b]) \cap Basicos \subseteq UNION Completas(q, c)
      BY <2>2
    <3> HIDE DEF P, Q
    <3>3. b \in UNION Completas(q, c)
      BY <2>3, <3>1, <3>2, UnaTambien
    <3>4. QED
      BY <3>3 DEF Q
  <2>5. q[b] = p[b]
    <3>1. CASE b \in Propios(c)
      BY <3>1
    <3>2. CASE b \notin Propios(c)
      <4>1. p[b] = Total(p, c[b])
        BY <2>1, <3>2 DEF Sumas, Completos
      <4>2. q[b] = Total(q, c[b])
        BY <2>4, <3>2 DEF Sumas, Completos
      <4>3. Total(q, c[b]) = Total(p, c[b])
        BY <2>2, <2>3, TotalIgual
      <4>4. QED
        BY <4>1, <4>2, <4>3
    <3>3. QED
      BY <3>1, <3>2
  <2>6. QED
    BY <2>4, <2>5
<1>4. Hechos(c) \subseteq Bien
  <2> HIDE DEF Bien
  <2>1. QED
    BY <1>3, HaciaArriba
<1>5. QED
  BY <1>4 DEF Completos

-----------------------------------------------------------------------------
(* What a recomputation holds, as long as nothing was changed after it     *)
(* read: the básicos it computed from prices p, and what is stored now for *)
(* what it did not compute.                                                *)
Vale(computed, p, c) ==
  \E q \in Costos :
    /\ DOMAIN computed = {b \in Hechos(c) : Calculable(q, c[b])}
    /\ \A b \in DOMAIN computed : computed[b] = q[b] /\ q[b] = Total(q, c[b])
    /\ \A i \in Propios(c) : q[i] = p[i]

LEMMA SinTocar ==
  ASSUME NEW c \in Composiciones, NEW p \in Costos, NEW q, Resuelve(q, p, c, Hechos(c))
  PROVE  (\A i \in Propios(c) : q[i] = p[i]) /\ Sumas(q, c)
<1>1. /\ q \in Costos /\ \A i \in Insumos : i \notin Hechos(c) => q[i] = p[i]
      /\ \A b \in Hechos(c) : q[b] = IF Calculable(q, c[b]) THEN Total(q, c[b]) ELSE p[b]
  BY DEF Resuelve
<1>2. Hechos(c) \subseteq Basicos
  BY HechosSon
<1>3. ASSUME NEW i \in Propios(c) PROVE q[i] = p[i]
  <2>1. i \in Hechos(c) => ~Calculable(q, c[i])
    BY <1>2 DEF Propios, Calculable
  <2>2. i \in Insumos
    BY DEF Propios
  <2>3. QED
    BY <1>1, <2>1, <2>2
<1>4. ASSUME NEW b \in Completos(q, c) PROVE q[b] = Total(q, c[b])
  <2>1. b \in Hechos(c) /\ b \in UNION Completas(q, c) /\ b \notin Propios(c)
    BY DEF Completos
  <2>2. Lineas(c[b]) # {}
    BY <1>2, <2>1 DEF Propios, Insumos
  <2>3. \A i \in Lineas(c[b]) : q[i] > 0
    BY <2>1, Juntas
  <2>4. QED
    BY <1>1, <2>1, <2>2, <2>3 DEF Calculable
<1>5. QED
  BY <1>3, <1>4 DEF Sumas

LEMMA CalculadoVale ==
  ASSUME NEW c \in Composiciones, NEW p \in Costos
  PROVE  /\ Vale(Computados(p, c), p, c) /\ DOMAIN Computados(p, c) \in SUBSET Basicos
         /\ DOMAIN Computados(p, c) \cap Propios(c) = {}
         /\ Computados(p, c) \in [DOMAIN Computados(p, c) -> Nat]
<1> DEFINE q == Resueltos(p, c)
           bs == {b \in Hechos(c) : Calculable(q, c[b])}
<1>1. Resuelve(q, p, c, Hechos(c))
  BY Resuelto
<1>2. Computados(p, c) = [b \in bs |-> q[b]]
  BY DEF Computados
<1>3. Hechos(c) \subseteq Basicos
  BY HechosSon
<1> HIDE DEF q
<1>4. q \in Costos /\ (\A i \in Propios(c) : q[i] = p[i])
  BY <1>1, SinTocar DEF Resuelve
<1>5. \A b \in bs : q[b] = Total(q, c[b])
  BY <1>1 DEF Resuelve
<1>6. DOMAIN Computados(p, c) = bs /\ \A b \in bs : Computados(p, c)[b] = q[b]
  BY <1>2
<1>7. Vale(Computados(p, c), p, c)
  BY <1>4, <1>5, <1>6 DEF Vale
<1>8. bs \in SUBSET Basicos /\ bs \cap Propios(c) = {}
  BY <1>3 DEF Propios, Calculable
<1>9. \A b \in bs : q[b] \in Nat
  BY <1>4, <1>8 DEF Costos, Insumos
<1>10. Computados(p, c) \in [bs -> Nat]
  BY <1>2, <1>9
<1>11. QED
  BY <1>6, <1>7, <1>8, <1>10

(* Writing it gives every básico that has its prices below the sum of its  *)
(* matrix.                                                                 *)
LEMMA EscritoVale ==
  ASSUME NEW c \in Composiciones, NEW p \in Costos, NEW computed, Vale(computed, p, c),
         NEW r \in Costos,
         \A i \in Insumos : r[i] = IF i \in DOMAIN computed THEN computed[i] ELSE p[i]
  PROVE  Sumas(r, c)
<1>1. PICK q \in Costos :
        /\ DOMAIN computed = {b \in Hechos(c) : Calculable(q, c[b])}
        /\ \A b \in DOMAIN computed : computed[b] = q[b] /\ q[b] = Total(q, c[b])
        /\ \A i \in Propios(c) : q[i] = p[i]
  BY DEF Vale
<1> DEFINE U == UNION Completas(r, c)
           Bien == {b \in Hechos(c) : b \in U => r[b] = q[b]}
<1>2. /\ Hechos(c) \subseteq Basicos
      /\ \A b \in Hechos(c) : Lineas(c[b]) \cap Basicos \subseteq Hechos(c)
  BY HechosSon
<1>3. \A b \in U : /\ b \in Basicos /\ \A i \in Lineas(c[b]) : r[i] > 0
                   /\ Lineas(c[b]) \cap Basicos \subseteq U
  BY Juntas
<1>4. \A i \in Propios(c) : i \in Insumos /\ i \notin DOMAIN computed /\ r[i] = q[i]
  <2>1. \A i \in Propios(c) : i \in Insumos /\ i \notin DOMAIN computed
    BY <1>1, <1>2 DEF Propios, Calculable
  <2>2. QED
    BY <1>1, <2>1
<1>5. ASSUME NEW b \in Hechos(c), b \in U, b \notin Propios(c), Lineas(c[b]) \cap Basicos \subseteq Bien
      PROVE  r[b] = q[b] /\ q[b] = Total(q, c[b]) /\ \A i \in Lineas(c[b]) : q[i] = r[i]
  <2>1. \A i \in Lineas(c[b]) : q[i] = r[i]
    <3>1. ASSUME NEW i \in Lineas(c[b]) PROVE q[i] = r[i]
      <4>1. CASE i \in Basicos
        BY <1>3, <1>5, <4>1
      <4>2. CASE i \notin Basicos
        BY <1>4, <4>2 DEF Propios, Lineas
      <4>3. QED
        BY <4>1, <4>2
    <3>2. QED
      BY <3>1
  <2>2. Calculable(q, c[b])
    <3>1. Lineas(c[b]) # {}
      BY <1>2, <1>5 DEF Propios, Insumos
    <3>2. QED
      BY <1>3, <1>5, <2>1, <3>1 DEF Calculable
  <2>3. b \in DOMAIN computed /\ b \in Insumos
    BY <1>1, <1>2, <2>2 DEF Insumos
  <2>4. QED
    BY <1>1, <2>1, <2>3
<1>6. ASSUME NEW b \in Hechos(c), Lineas(c[b]) \cap Basicos \subseteq Bien PROVE b \in Bien
  BY <1>4, <1>5, <1>6
<1>7. Hechos(c) \subseteq Bien
  <2> HIDE DEF Bien
  <2>1. QED
    BY <1>6, HaciaArriba
<1>8. ASSUME NEW b \in Completos(r, c) PROVE r[b] = Total(r, c[b])
  <2>1. b \in Hechos(c) /\ b \in U /\ b \notin Propios(c)
    BY DEF Completos
  <2>2. Lineas(c[b]) \cap Basicos \subseteq Bien
    BY <1>2, <1>7, <2>1
  <2>3. r[b] = q[b] /\ q[b] = Total(q, c[b]) /\ \A i \in Lineas(c[b]) : q[i] = r[i]
    BY <1>5, <2>1, <2>2
  <2>4. c[b] \in Costos
    BY <1>2, <2>1 DEF Composiciones
  <2>5. Total(r, c[b]) = Total(q, c[b])
    BY <2>3, <2>4, TotalIgual
  <2>6. QED
    BY <2>3, <2>5
<1>9. QED
  BY <1>8 DEF Sumas

-----------------------------------------------------------------------------
(* Types. *)

Leida == [paso : {"leido"}, costo : Costos, matriz : Matrices]
Escrita == [paso : {"escrito"}]
Calculada == [paso : {"calculado"}, computed : UNION {[bs -> Nat] : bs \in SUBSET Basicos},
              edicion : Nat]
Aplicada == [paso : {"aplicado"}, conceptos : SUBSET Conceptos]
Tarea == {Libre} \cup Leida \cup Escrita \cup Calculada \cup Aplicada
Asiento == [costo : Costos, matriz : Matrices, codigos : SUBSET Insumos, duenos : SUBSET Duenos,
            deshecho : BOOLEAN, ultimo : BOOLEAN, firme : BOOLEAN]

BookTypeOK ==
  /\ costo \in Costos /\ matriz \in Matrices /\ diario \in Seq(Asiento)
  /\ veredicto \in [Conceptos -> Int] /\ tarea \in [Editors -> Tarea]
  /\ edicion \in Nat /\ retoques \in Nat /\ computada \in Nat
  /\ revisado \in [Conceptos -> BOOLEAN]

-----------------------------------------------------------------------------
(* The inductive invariant: what the requests hold, what the journal says, *)
(* and the prices and the verdicts.                                        *)

EnFecha ==
  LET c == Composicion(matriz) IN
  /\ computada <= edicion
  /\ \A e \in Editors : tarea[e].paso = "calculado" =>
       /\ tarea[e].edicion <= edicion
       /\ DOMAIN tarea[e].computed \cap Propios(c) = {}
       /\ tarea[e].edicion = edicion => Vale(tarea[e].computed, costo, c)

(* The last entry of the journal, if nobody else was changing the book when *)
(* it was written: all that it does not name is as it was then; and         *)
(* everything is, once it is undone.                                        *)
Asentado(a, p, m) ==
  LET propios == Propios(Composicion(a.matriz)) IN
  /\ \A d \in a.duenos : Lineas(a.matriz[d]) # {}
  /\ a.firme => Sumas(a.costo, Composicion(a.matriz))
  /\ a.firme /\ a.ultimo /\ ~a.deshecho =>
       /\ \A i \in propios \ a.codigos : p[i] = a.costo[i]
       /\ \A d \in Duenos \ a.duenos : m[d] = a.matriz[d]
  /\ a.firme /\ a.ultimo /\ a.deshecho =>
       m = a.matriz /\ \A i \in propios : p[i] = a.costo[i]

Asentados == \A n \in DOMAIN diario : Asentado(diario[n], costo, matriz)

Sumados == computada = edicion => Sumas(costo, Composicion(matriz))

BookInv == BookTypeOK /\ EnFecha /\ Asentados /\ Sumados /\ VerdictIsCurrent

-----------------------------------------------------------------------------
(* Matrices of básicos. *)

LEMMA Compone ==
  ASSUME NEW m \in Matrices
  PROVE  /\ Composicion(m) \in Composiciones /\ \A b \in Basicos : Composicion(m)[b] = m[b]
         /\ Propios(Composicion(m)) = {i \in Insumos : i \in Basicos => Lineas(m[i]) = {}}
<1>1. \A b \in Basicos : b \in Duenos /\ m[b] \in Costos
  BY DEF Matrices, Duenos
<1>2. Composicion(m) \in Composiciones /\ \A b \in Basicos : Composicion(m)[b] = m[b]
  BY <1>1 DEF Composicion, Composiciones
<1>3. QED
  BY <1>2 DEF Propios

LEMMA MismaComposicion ==
  ASSUME NEW m, NEW r, \A b \in Basicos : r[b] = m[b]
  PROVE  Composicion(r) = Composicion(m)
BY DEF Composicion

LEMMA ApuIgual ==
  ASSUME NEW p, NEW r, NEW c, NEW fila, \A i \in Propios(c) : r[i] = p[i]
  PROVE  Apu(r, c, fila) = Apu(p, c, fila)
<1> DEFINE limpio(x) == [i \in Insumos |-> IF i \in Basicos /\ Lineas(c[i]) # {} THEN 0 ELSE x[i]]
           Resto(l) ==
             LET precio == Resueltos(l, c)
                 hondos == Anidados(c, Lineas(fila) \cap Basicos)[MaxBasicoDepth - 1] IN
             IF \/ Lineas(fila) = {} \/ \E b \in hondos : Lineas(c[b]) # {}
                \/ \E i \in Lineas(fila) : precio[i] = 0
             THEN SinPrecio ELSE Total(precio, fila)
<1>1. Apu(r, c, fila) = Resto(limpio(r)) /\ Apu(p, c, fila) = Resto(limpio(p))
  BY DEF Apu
<1>2. limpio(r) = limpio(p)
  BY DEF Propios
<1> HIDE DEF Resto, limpio
<1>3. QED
  BY <1>1, <1>2

LEMMA ApuEs ==
  ASSUME NEW p \in Costos, NEW c \in Composiciones, NEW fila \in Costos
  PROVE  Apu(p, c, fila) \in Int
<1> DEFINE limpio == [i \in Insumos |-> IF i \in Basicos /\ Lineas(c[i]) # {} THEN 0 ELSE p[i]]
           hondos == Anidados(c, Lineas(fila) \cap Basicos)[MaxBasicoDepth - 1]
           precio == Resueltos(limpio, c)
<1>1. Apu(p, c, fila) = SinPrecio \/ Apu(p, c, fila) = Total(precio, fila)
  <2> HIDE DEF limpio, hondos
  <2>1. QED
    BY DEF Apu, limpio
<1>2. limpio \in Costos
  BY DEF Costos
<1> HIDE DEF limpio
<1>3. precio \in Costos
  BY <1>2, Resuelto DEF Resuelve
<1> HIDE DEF precio
<1>4. Total(precio, fila) \in Nat
  BY <1>3, TotalEs
<1>5. QED
  BY <1>1, <1>4 DEF SinPrecio

LEMMA ActualEs ==
  ASSUME BookTypeOK, NEW k \in Conceptos
  PROVE  ApuActual(k) \in Int
<1>1. costo \in Costos /\ Composicion(matriz) \in Composiciones /\ matriz[k] \in Costos
  <2>1. matriz \in Matrices /\ costo \in Costos
    BY DEF BookTypeOK
  <2>2. QED
    BY <2>1, Compone DEF Matrices, Duenos
<1>2. QED
  BY <1>1, ApuEs DEF ApuActual, ApuDe

-----------------------------------------------------------------------------
(* The journal. *)

LEMMA Anotadas ==
  ASSUME NEW d \in Seq(Asiento), NEW nuevas \in Seq(Asiento)
  PROVE  LET viejas == [i \in DOMAIN d |-> [d[i] EXCEPT !.ultimo = FALSE]]
             s == viejas \o nuevas IN
         /\ s \in Seq(Asiento)
         /\ \A n \in DOMAIN s : \/ \E i \in DOMAIN d : s[n] = [d[i] EXCEPT !.ultimo = FALSE]
                                \/ \E i \in DOMAIN nuevas : s[n] = nuevas[i]
<1> DEFINE viejas == [i \in DOMAIN d |-> [d[i] EXCEPT !.ultimo = FALSE]]
           s == viejas \o nuevas
<1>1. PICK N \in Nat : DOMAIN d = 1..N /\ \A i \in 1..N : d[i] \in Asiento
  BY ElementOfSeq, LenProperties
<1>2. viejas \in [1..N -> Asiento]
  <2>1. \A i \in 1..N : [d[i] EXCEPT !.ultimo = FALSE] \in Asiento
    BY <1>1 DEF Asiento
  <2>2. QED
    BY <1>1, <2>1
<1>3. viejas \in Seq(Asiento) /\ Len(viejas) = N
  <2>1. viejas \in Seq(Asiento)
    BY <1>2, SeqDef
  <2>2. DOMAIN viejas = 1..N
    BY <1>2
  <2>3. QED
    BY <2>1, <2>2, LenProperties
<1>4. \A i \in 1..N : viejas[i] = [d[i] EXCEPT !.ultimo = FALSE]
  BY <1>1
<1> HIDE DEF viejas
<1>5. PICK M \in Nat : Len(nuevas) = M /\ DOMAIN nuevas = 1..M
  BY LenProperties
<1>6. /\ s \in Seq(Asiento) /\ Len(s) = N + M
      /\ \A i \in 1..N + M : s[i] = IF i <= N THEN viejas[i] ELSE nuevas[i - N]
  BY <1>3, <1>5, ConcatProperties
<1>7. DOMAIN s = 1..(N + M)
  BY <1>6, LenProperties
<1> HIDE DEF s
<1>8. ASSUME NEW n \in DOMAIN s
      PROVE  \/ \E i \in DOMAIN d : s[n] = [d[i] EXCEPT !.ultimo = FALSE]
             \/ \E i \in DOMAIN nuevas : s[n] = nuevas[i]
  <2>1. n \in 1..(N + M)
    BY <1>7
  <2>2. CASE n <= N
    <3>1. n \in 1..N /\ s[n] = viejas[n]
      BY <1>6, <2>1, <2>2
    <3>2. s[n] = [d[n] EXCEPT !.ultimo = FALSE] /\ n \in DOMAIN d
      BY <1>1, <1>4, <3>1
    <3>3. QED
      BY <3>2
  <2>3. CASE ~(n <= N)
    <3>1. n - N \in 1..M /\ s[n] = nuevas[n - N]
      BY <1>6, <2>1, <2>3
    <3>2. QED
      BY <1>5, <3>1
  <2>4. QED
    BY <2>2, <2>3
<1>9. QED
  BY <1>6, <1>8 DEF s, viejas

-----------------------------------------------------------------------------
(* Types are kept. *)

LEMMA Siguiendo ==
  ASSUME BookTypeOK, NEW e \in Editors, NEW t \in Tarea, Sigue(e, t)
  PROVE  /\ tarea' \in [Editors -> Tarea] /\ tarea'[e] = t
         /\ \A f \in Editors : f # e => tarea'[f] = tarea[f]
BY DEF BookTypeOK, Sigue

LEMMA DeQuePaso ==
  ASSUME BookTypeOK, NEW e \in Editors
  PROVE  /\ tarea[e].paso = "leido" => tarea[e].costo \in Costos /\ tarea[e].matriz \in Matrices
         /\ tarea[e].paso = "calculado" =>
              /\ tarea[e].computed \in UNION {[bs -> Nat] : bs \in SUBSET Basicos}
              /\ tarea[e].edicion \in Nat
         /\ tarea[e].paso = "aplicado" => tarea[e].conceptos \in SUBSET Conceptos
<1>1. tarea[e] \in Tarea
  BY DEF BookTypeOK
<1>2. QED
  BY <1>1 DEF Tarea, Libre, Leida, Escrita, Calculada, Aplicada

LEMMA Anotado1 ==
  ASSUME BookTypeOK, NEW e \in Editors, tarea[e].paso = "leido",
         NEW cs \in SUBSET Insumos, NEW ds \in SUBSET Duenos
  PROVE  AsientoDiario(e, cs, ds) \in Asiento /\ <<AsientoDiario(e, cs, ds)>> \in Seq(Asiento)
<1>1. tarea[e].costo \in Costos /\ tarea[e].matriz \in Matrices
  BY DeQuePaso
<1>2. (tarea[e].costo = costo /\ tarea[e].matriz = matriz /\ computada = edicion) \in BOOLEAN
  OBVIOUS
<1>3. AsientoDiario(e, cs, ds) \in Asiento
  BY <1>1, <1>2 DEF AsientoDiario, Anotado, Asiento
<1>4. QED
  BY <1>3

(* The journal after a change that leaves no entry, and after an undo. *)
LEMMA Envejecidas ==
  ASSUME NEW d \in Seq(Asiento)
  PROVE  [i \in DOMAIN d |-> [d[i] EXCEPT !.ultimo = FALSE]] \in Seq(Asiento)
<1>1. PICK N \in Nat : DOMAIN d = 1..N /\ \A i \in 1..N : d[i] \in Asiento
  BY ElementOfSeq, LenProperties
<1>2. \A i \in 1..N : [d[i] EXCEPT !.ultimo = FALSE] \in Asiento
  BY <1>1 DEF Asiento
<1>3. [i \in DOMAIN d |-> [d[i] EXCEPT !.ultimo = FALSE]] \in [1..N -> Asiento]
  BY <1>1, <1>2
<1>4. QED
  BY <1>3, SeqDef

LEMMA Deshecho ==
  ASSUME NEW d \in Seq(Asiento), NEW n
  PROVE  [i \in DOMAIN d |->
            [d[i] EXCEPT !.ultimo = (@ /\ i = n), !.deshecho = (@ \/ i = n)]] \in Seq(Asiento)
<1>1. PICK N \in Nat : DOMAIN d = 1..N /\ \A i \in 1..N : d[i] \in Asiento
  BY ElementOfSeq, LenProperties
<1>2. \A i \in 1..N : [d[i] EXCEPT !.ultimo = (@ /\ i = n), !.deshecho = (@ \/ i = n)] \in Asiento
  BY <1>1 DEF Asiento
<1>3. [i \in DOMAIN d |->
        [d[i] EXCEPT !.ultimo = (@ /\ i = n), !.deshecho = (@ \/ i = n)]] \in [1..N -> Asiento]
  BY <1>1, <1>2
<1>4. QED
  BY <1>3, SeqDef

(* Two actions, of one choice. *)
Usan(e, old) == {d \in Duenos : tarea[e].matriz[d][old] > 0}
Sustituyendo(e, old, new) ==
  [d \in Duenos |-> IF d \in Usan(e, old) THEN Sustituida(tarea[e].matriz[d], old, new) ELSE matriz[d]]

Reemplaza(e, old, new) ==
  /\ tarea[e].paso = "leido" /\ old # new
  /\ Cambiar(costo, Sustituyendo(e, old, new), <<AsientoDiario(e, {}, Usan(e, old))>>)
  /\ Sigue(e, [paso |-> "escrito"])

Deshace(e, n) ==
  LET a == diario[n] IN
  /\ tarea[e] = Libre /\ ~a.deshecho /\ edicion' = edicion + 1
  /\ costo' = [i \in Insumos |-> IF i \in a.codigos THEN a.costo[i] ELSE costo[i]]
  /\ matriz' = [d \in Duenos |-> IF d \in a.duenos THEN a.matriz[d] ELSE matriz[d]]
  /\ diario' = [i \in DOMAIN diario |->
       [diario[i] EXCEPT !.ultimo = (@ /\ i = n), !.deshecho = (@ \/ i = n)]]
  /\ revisado' = [k \in Conceptos |-> FALSE]
  /\ Sigue(e, [paso |-> "escrito"])
  /\ UNCHANGED <<veredicto, retoques, computada>>

(* A matrix after a substitution has a member. *)
LEMMA Sustituye ==
  ASSUME NEW f \in Costos, NEW old \in Insumos, NEW new \in Insumos, old # new, f[old] > 0
  PROVE  Sustituida(f, old, new) \in Costos /\ Lineas(Sustituida(f, old, new)) # {}
<1>1. f[old] \in Nat /\ f[new] \in Nat /\ f[new] + f[old] \in Nat /\ f[new] + f[old] > 0
  BY DEF Costos
<1>2. Sustituida(f, old, new) \in Costos /\ Sustituida(f, old, new)[new] = f[new] + f[old]
  BY <1>1 DEF Sustituida, Costos
<1>3. QED
  BY <1>1, <1>2 DEF Lineas

LEMMA Sustituyen ==
  ASSUME BookTypeOK, NEW e \in Editors, NEW old \in Insumos, NEW new \in Insumos, Reemplaza(e, old, new)
  PROVE  /\ Sustituyendo(e, old, new) \in Matrices
         /\ \A d \in Usan(e, old) : /\ Lineas(tarea[e].matriz[d]) # {}
                                    /\ Lineas(Sustituyendo(e, old, new)[d]) # {}
<1>1. tarea[e].matriz \in Matrices /\ matriz \in Matrices /\ old # new
  BY DeQuePaso DEF Reemplaza, BookTypeOK
<1>2. ASSUME NEW d \in Usan(e, old)
      PROVE  /\ Sustituida(tarea[e].matriz[d], old, new) \in Costos
             /\ Lineas(Sustituida(tarea[e].matriz[d], old, new)) # {}
             /\ Lineas(tarea[e].matriz[d]) # {}
  <2>1. tarea[e].matriz[d] \in Costos /\ tarea[e].matriz[d][old] > 0
    BY <1>1 DEF Usan, Matrices
  <2>2. QED
    BY <1>1, <2>1, Sustituye DEF Lineas
<1>3. \A d \in Duenos : Sustituyendo(e, old, new)[d] =
        IF d \in Usan(e, old) THEN Sustituida(tarea[e].matriz[d], old, new) ELSE matriz[d]
  BY DEF Sustituyendo
<1>4. \A d \in Duenos : Sustituyendo(e, old, new)[d] \in Costos
  BY <1>1, <1>2, <1>3 DEF Matrices
<1>5. Sustituyendo(e, old, new) = [d \in Duenos |-> Sustituyendo(e, old, new)[d]]
  BY DEF Sustituyendo
<1>6. Usan(e, old) \subseteq Duenos
  BY DEF Usan
<1> HIDE DEF Sustituyendo
<1>7. QED
  BY <1>2, <1>3, <1>4, <1>5, <1>6 DEF Matrices

(* A change: the book, the journal and the counters. *)
LEMMA Cambiado ==
  ASSUME BookTypeOK, NEW p \in Costos, NEW m \in Matrices, NEW nuevas \in Seq(Asiento),
         Cambiar(p, m, nuevas), tarea' \in [Editors -> Tarea]
  PROVE  BookTypeOK'
<1>1. diario' \in Seq(Asiento)
  <2>1. diario \in Seq(Asiento)
    BY DEF BookTypeOK
  <2>2. QED
    BY <2>1, Anotadas DEF Cambiar
<1>2. edicion' \in Nat /\ revisado' \in [Conceptos -> BOOLEAN]
  BY DEF Cambiar, BookTypeOK
<1>3. QED
  BY <1>1, <1>2 DEF BookTypeOK, Cambiar

LEMMA Tecleado ==
  ASSUME BookTypeOK, NEW i \in Insumos, NEW c \in Capturas
  PROVE  [costo EXCEPT ![i] = c] \in Costos
<1>1. c \in Nat
  BY PriceBookAssumption
<1>2. QED
  BY <1>1 DEF BookTypeOK, Costos

LEMMA BookTypesInit == BookInit => BookTypeOK
<1> SUFFICES ASSUME BookInit PROVE BookTypeOK
  OBVIOUS
<1>1. MatrizInicial \in Matrices /\ PrecioInicial \in Costos
  BY PriceBookAssumption DEF Matrices, Costos
<1>2. Composicion(MatrizInicial) \in Composiciones
  BY <1>1, Compone
<1>3. costo \in Costos
  BY <1>1, <1>2, Resuelto DEF BookInit, Resuelve
<1>4. Libre \in Tarea
  BY DEF Tarea
<1>5. diario \in Seq(Asiento)
  BY DEF BookInit
<1>6. QED
  BY <1>1, <1>3, <1>4, <1>5 DEF BookInit, BookTypeOK, SinVeredicto

LEMMA BookTypesStep == BookTypeOK /\ [BookNext]_bookVars => BookTypeOK'
<1> SUFFICES ASSUME BookTypeOK, [BookNext]_bookVars PROVE BookTypeOK'
  OBVIOUS
<1>1. CASE UNCHANGED bookVars
  BY <1>1 DEF bookVars, BookTypeOK
<1>2. ASSUME NEW e \in Editors, LeerLibro(e) PROVE BookTypeOK'
  <2>1. [paso |-> "leido", costo |-> costo, matriz |-> matriz] \in Tarea
    BY DEF BookTypeOK, Tarea, Leida
  <2>2. tarea' \in [Editors -> Tarea]
    BY <1>2, <2>1, Siguiendo DEF LeerLibro
  <2>3. QED
    BY <1>2, <2>2 DEF LeerLibro, BookTypeOK
<1>3. [paso |-> "escrito"] \in Tarea /\ Libre \in Tarea /\ <<>> \in Seq(Asiento)
  BY DEF Tarea, Escrita
<1>4. ASSUME NEW e \in Editors, UpsertInsumo(e) PROVE BookTypeOK'
  <2>1. PICK i \in Insumos, c \in Capturas :
          Cambiar([costo EXCEPT ![i] = c], matriz, <<>>) /\ Sigue(e, [paso |-> "escrito"])
    BY <1>4 DEF UpsertInsumo
  <2>2. tarea' \in [Editors -> Tarea]
    BY <1>3, <2>1, Siguiendo
  <2>3. [costo EXCEPT ![i] = c] \in Costos /\ matriz \in Matrices
    BY Tecleado DEF BookTypeOK
  <2>4. QED
    BY <1>3, <2>1, <2>2, <2>3, Cambiado
<1>5. ASSUME NEW e \in Editors, ImportPrices(e) PROVE BookTypeOK'
  <2>1. PICK i \in Insumos, c \in Capturas :
          Cambiar([costo EXCEPT ![i] = c], matriz, <<>>) /\ UNCHANGED tarea
    BY <1>5 DEF ImportPrices
  <2>2. tarea' \in [Editors -> Tarea]
    BY <2>1 DEF BookTypeOK
  <2>3. [costo EXCEPT ![i] = c] \in Costos /\ matriz \in Matrices
    BY Tecleado DEF BookTypeOK
  <2>4. QED
    BY <1>3, <2>1, <2>2, <2>3, Cambiado
<1>6. ASSUME NEW e \in Editors, SetBasicoComponents(e) PROVE BookTypeOK'
  <2>1. PICK b \in Basicos, f \in Filas :
          Cambiar(costo, [matriz EXCEPT ![b] = f], <<>>) /\ Sigue(e, [paso |-> "escrito"])
    BY <1>6 DEF SetBasicoComponents
  <2>2. tarea' \in [Editors -> Tarea]
    BY <1>3, <2>1, Siguiendo
  <2>3. costo \in Costos /\ [matriz EXCEPT ![b] = f] \in Matrices
    <3>1. f \in Costos
      BY PriceBookAssumption DEF Costos
    <3>2. QED
      BY <3>1 DEF BookTypeOK, Matrices
  <2>4. QED
    BY <1>3, <2>1, <2>2, <2>3, Cambiado
<1>7. ASSUME NEW e \in Editors, SetApuComponents(e) PROVE BookTypeOK'
  <2>1. PICK k \in Conceptos, f \in Filas :
          /\ matriz' = [matriz EXCEPT ![k] = f] /\ retoques' = retoques + 1
          /\ diario' = [i \in DOMAIN diario |-> [diario[i] EXCEPT !.ultimo = FALSE]]
          /\ revisado' = [revisado EXCEPT ![k] = FALSE]
          /\ Sigue(e, [paso |-> "aplicado", conceptos |-> {k}])
          /\ UNCHANGED <<costo, veredicto, edicion, computada>>
    BY <1>7 DEF SetApuComponents
  <2>2. [paso |-> "aplicado", conceptos |-> {k}] \in Tarea
    BY DEF Tarea, Aplicada
  <2>3. tarea' \in [Editors -> Tarea]
    BY <2>1, <2>2, Siguiendo
  <2>4. matriz' \in Matrices
    <3>1. f \in Costos
      BY PriceBookAssumption DEF Costos
    <3>2. QED
      BY <2>1, <3>1 DEF BookTypeOK, Matrices
  <2>5. diario' \in Seq(Asiento)
    BY <2>1, Envejecidas DEF BookTypeOK
  <2>6. retoques' \in Nat /\ revisado' \in [Conceptos -> BOOLEAN]
    BY <2>1 DEF BookTypeOK
  <2>7. QED
    BY <2>1, <2>3, <2>4, <2>5, <2>6 DEF BookTypeOK
<1>8. ASSUME NEW e \in Editors, AdjustPrices(e) PROVE BookTypeOK'
  <2>1. PICK cs \in Lotes :
          /\ tarea[e].paso = "leido"
          /\ Cambiar([i \in Insumos |-> IF i \in cs THEN tarea[e].costo[i] * Factor ELSE costo[i]],
                     matriz, <<AsientoDiario(e, cs, {})>>)
          /\ Sigue(e, [paso |-> "escrito"])
    BY <1>8 DEF AdjustPrices
  <2>2. tarea' \in [Editors -> Tarea]
    BY <1>3, <2>1, Siguiendo
  <2>3. [i \in Insumos |-> IF i \in cs THEN tarea[e].costo[i] * Factor ELSE costo[i]] \in Costos
    <3>1. tarea[e].costo \in Costos /\ costo \in Costos
      BY <2>1, DeQuePaso DEF BookTypeOK
    <3>2. Factor \in Nat
      BY PriceBookAssumption
    <3>3. \A i \in Insumos : tarea[e].costo[i] * Factor \in Nat /\ costo[i] \in Nat
      BY <3>1, <3>2 DEF Costos
    <3>4. QED
      BY <3>3 DEF Costos
  <2>4. <<AsientoDiario(e, cs, {})>> \in Seq(Asiento)
    <3>1. cs \in SUBSET Insumos /\ {} \in SUBSET Duenos
      BY PriceBookAssumption
    <3>2. QED
      BY <2>1, <3>1, Anotado1
  <2>5. matriz \in Matrices
    BY DEF BookTypeOK
  <2>6. QED
    BY <2>1, <2>2, <2>3, <2>4, <2>5, Cambiado
<1>9. ASSUME NEW e \in Editors, ReplaceResource(e) PROVE BookTypeOK'
  <2>1. PICK old \in Insumos, new \in Insumos : Reemplaza(e, old, new)
    BY <1>9 DEF ReplaceResource, Reemplaza, Sustituyendo, Usan
  <2>2. tarea' \in [Editors -> Tarea]
    BY <1>3, <2>1, Siguiendo DEF Reemplaza
  <2>3. costo \in Costos /\ Sustituyendo(e, old, new) \in Matrices
    BY <2>1, Sustituyen DEF BookTypeOK
  <2>4. <<AsientoDiario(e, {}, Usan(e, old))>> \in Seq(Asiento)
    BY <2>1, Anotado1 DEF Reemplaza, Usan
  <2>5. QED
    BY <2>1, <2>2, <2>3, <2>4, Cambiado DEF Reemplaza
<1>10. ASSUME NEW e \in Editors, UndoAdjustment(e) PROVE BookTypeOK'
  <2>1. PICK n \in DOMAIN diario : Deshace(e, n)
    BY <1>10 DEF UndoAdjustment, Deshace
  <2>2. tarea' \in [Editors -> Tarea]
    BY <1>3, <2>1, Siguiendo DEF Deshace
  <2>3. diario[n] \in Asiento
    BY ElementOfSeq DEF BookTypeOK
  <2>4. costo' \in Costos /\ matriz' \in Matrices
    BY <2>1, <2>3 DEF Deshace, BookTypeOK, Costos, Matrices, Asiento
  <2>5. diario' \in Seq(Asiento)
    BY <2>1, Deshecho DEF Deshace, BookTypeOK
  <2>6. edicion' \in Nat /\ revisado' \in [Conceptos -> BOOLEAN]
    <3>1. edicion' = edicion + 1 /\ revisado' = [k \in Conceptos |-> FALSE]
      BY <2>1 DEF Deshace
    <3>2. edicion \in Nat
      BY DEF BookTypeOK
    <3>3. QED
      BY <3>1, <3>2
  <2>7. QED
    BY <2>1, <2>2, <2>4, <2>5, <2>6 DEF BookTypeOK, Deshace
<1>11. ASSUME NEW e \in Editors, Cortar(e) PROVE BookTypeOK'
  <2>1. tarea' \in [Editors -> Tarea]
    BY <1>3, <1>11, Siguiendo DEF Cortar
  <2>2. QED
    BY <1>11, <2>1 DEF Cortar, BookTypeOK
<1>12. ASSUME NEW e \in Editors, Calcular(e) PROVE BookTypeOK'
  <2> DEFINE t == [paso |-> "calculado", computed |-> Computados(costo, Composicion(matriz)),
                   edicion |-> edicion]
  <2>1. t \in Tarea
    <3>1. costo \in Costos /\ Composicion(matriz) \in Composiciones
      BY Compone DEF BookTypeOK
    <3> DEFINE x == Computados(costo, Composicion(matriz))
    <3>2. DOMAIN x \in SUBSET Basicos /\ x \in [DOMAIN x -> Nat]
      BY <3>1, CalculadoVale
    <3> HIDE DEF x
    <3>3. x \in UNION {[bs -> Nat] : bs \in SUBSET Basicos}
      BY <3>2
    <3>4. t \in Calculada
      BY <3>3 DEF Calculada, BookTypeOK, x
    <3>5. QED
      BY <3>4 DEF Tarea
  <2>2. Sigue(e, t)
    BY <1>12 DEF Calcular
  <2> HIDE DEF t
  <2>3. tarea' \in [Editors -> Tarea]
    BY <2>1, <2>2, Siguiendo
  <2>4. QED
    BY <1>12, <2>3 DEF Calcular, BookTypeOK
<1>13. ASSUME NEW e \in Editors, Aplicar(e) PROVE BookTypeOK'
  <2>1. [paso |-> "aplicado", conceptos |-> Conceptos] \in Tarea
    BY DEF Tarea, Aplicada
  <2>2. tarea' \in [Editors -> Tarea]
    BY <1>13, <2>1, Siguiendo DEF Aplicar
  <2>3. /\ tarea[e].computed \in UNION {[bs -> Nat] : bs \in SUBSET Basicos}
        /\ tarea[e].edicion \in Nat
    BY <1>13, DeQuePaso DEF Aplicar
  <2>4. costo' \in Costos
    <3> DEFINE x == tarea[e].computed
    <3>1. \A i \in DOMAIN x : x[i] \in Nat
      BY <2>3
    <3>2. costo' = [i \in Insumos |-> IF i \in DOMAIN x THEN x[i] ELSE costo[i]]
      BY <1>13 DEF Aplicar
    <3> HIDE DEF x
    <3>3. QED
      BY <3>1, <3>2 DEF Costos, BookTypeOK
  <2>5. computada' \in Nat
    BY <1>13, <2>3 DEF Aplicar
  <2>6. QED
    BY <1>13, <2>2, <2>4, <2>5 DEF Aplicar, BookTypeOK
<1>14. ASSUME NEW e \in Editors, Revalidar(e) PROVE BookTypeOK'
  <2>1. tarea' \in [Editors -> Tarea]
    BY <1>3, <1>14, Siguiendo DEF Revalidar
  <2>2. \A k \in Conceptos : ApuActual(k) \in Int
    BY ActualEs
  <2>3. veredicto' \in [Conceptos -> Int]
    BY <1>14, <2>2 DEF Revalidar, BookTypeOK
  <2>4. revisado' \in [Conceptos -> BOOLEAN]
    BY <1>14 DEF Revalidar, BookTypeOK
  <2>5. QED
    BY <1>14, <2>1, <2>3, <2>4 DEF Revalidar, BookTypeOK
<1>15. ASSUME NEW e \in Editors, ValidateConcept(e) PROVE BookTypeOK'
  <2>1. PICK k \in Conceptos :
          /\ veredicto' = [veredicto EXCEPT ![k] = ApuActual(k)]
          /\ UNCHANGED <<costo, matriz, diario, tarea, edicion, retoques, computada, revisado>>
    BY <1>15 DEF ValidateConcept
  <2>2. ApuActual(k) \in Int
    BY ActualEs
  <2>3. QED
    BY <2>1, <2>2 DEF BookTypeOK
<1>16. QED
  BY <1>1, <1>2, <1>4, <1>5, <1>6, <1>7, <1>8, <1>9, <1>10, <1>11, <1>12, <1>13, <1>14, <1>15
     DEF BookNext

-----------------------------------------------------------------------------
(* The invariant is kept. *)

LEMMA BookInicia == BookInit => BookInv
<1> SUFFICES ASSUME BookInit PROVE BookInv
  OBVIOUS
<1>1. BookTypeOK
  BY BookTypesInit
<1>2. MatrizInicial \in Matrices /\ PrecioInicial \in Costos
  BY PriceBookAssumption DEF Matrices, Costos
<1> DEFINE c == Composicion(MatrizInicial)
<1>3. c \in Composiciones
  BY <1>2, Compone
<1>4. Sumas(Resueltos(PrecioInicial, c), c)
  <2> HIDE DEF c
  <2>1. Resuelve(Resueltos(PrecioInicial, c), PrecioInicial, c, Hechos(c))
    BY <1>2, <1>3, Resuelto
  <2>2. QED
    BY <1>2, <1>3, <2>1, SinTocar
<1>5. Sumados
  BY <1>4 DEF Sumados, BookInit
<1>6. EnFecha
  BY DEF EnFecha, BookInit, Libre
<1>7. Asentados
  BY DEF Asentados, BookInit
<1>8. VerdictIsCurrent
  BY DEF VerdictIsCurrent, BookInit
<1>9. QED
  BY <1>1, <1>5, <1>6, <1>7, <1>8 DEF BookInv

(* A step that changes neither the book nor the journal. *)
LEMMA Quieta ==
  ASSUME BookInv, BookTypeOK', UNCHANGED <<costo, matriz, diario, edicion, computada>>,
         \A f \in Editors : tarea'[f] = tarea[f] \/ tarea'[f].paso # "calculado",
         VerdictIsCurrent'
  PROVE  BookInv'
<1>1. EnFecha'
  BY DEF BookInv, EnFecha
<1>2. Asentados'
  BY DEF BookInv, Asentados
<1>3. Sumados'
  BY DEF BookInv, Sumados
<1>4. QED
  BY <1>1, <1>2, <1>3 DEF BookInv

LEMMA MismoVeredicto ==
  ASSUME VerdictIsCurrent, UNCHANGED <<costo, matriz, veredicto, revisado>>
  PROVE  VerdictIsCurrent'
BY DEF VerdictIsCurrent, ApuActual, ApuDe

(* A change of prices, or of matrices of básicos. *)
LEMMA TrasCambio ==
  ASSUME BookInv, BookTypeOK', edicion' = edicion + 1, computada' = computada,
         revisado' = [k \in Conceptos |-> FALSE],
         \A f \in Editors : tarea'[f] = tarea[f] \/ tarea'[f].paso # "calculado",
         \A b \in Basicos : Lineas(matriz[b]) # {} => Lineas(matriz'[b]) # {},
         Asentados'
  PROVE  BookInv'
<1>1. BookTypeOK /\ EnFecha
  BY DEF BookInv
<1>2. Propios(Composicion(matriz')) \subseteq Propios(Composicion(matriz))
  <2>1. matriz \in Matrices /\ matriz' \in Matrices
    BY <1>1 DEF BookTypeOK
  <2>2. QED
    BY <2>1, Compone
<1>3. edicion \in Nat /\ computada \in Nat /\ computada <= edicion
  BY <1>1 DEF BookTypeOK, EnFecha
<1>4. EnFecha'
  <2>1. computada' <= edicion'
    BY <1>3
  <2>2. ASSUME NEW f \in Editors, tarea'[f].paso = "calculado"
        PROVE  /\ tarea'[f].edicion <= edicion'
               /\ DOMAIN tarea'[f].computed \cap Propios(Composicion(matriz')) = {}
               /\ tarea'[f].edicion # edicion'
    <3>1. tarea'[f] = tarea[f]
      BY <2>2
    <3>2. /\ tarea[f].edicion <= edicion
          /\ DOMAIN tarea[f].computed \cap Propios(Composicion(matriz)) = {}
      BY <1>1, <2>2, <3>1 DEF EnFecha
    <3>3. tarea[f].edicion \in Nat
      BY <1>1, <2>2, <3>1, DeQuePaso
    <3>4. tarea[f].edicion <= edicion + 1 /\ tarea[f].edicion # edicion + 1
      BY <1>3, <3>2, <3>3
    <3>5. QED
      BY <1>2, <3>1, <3>2, <3>4
  <2>3. QED
    BY <2>1, <2>2 DEF EnFecha
<1>5. Sumados'
  <2>1. computada' # edicion'
    BY <1>3
  <2>2. QED
    BY <2>1 DEF Sumados
<1>6. VerdictIsCurrent'
  BY DEF VerdictIsCurrent
<1>7. QED
  BY <1>4, <1>5, <1>6 DEF BookInv

LEMMA YaNoEsLaUltima ==
  ASSUME NEW a \in Asiento, NEW p, NEW m, NEW r, NEW s, Asentado(a, p, m)
  PROVE  Asentado([a EXCEPT !.ultimo = FALSE], r, s)
<1> DEFINE x == [a EXCEPT !.ultimo = FALSE]
<1>1. /\ x.costo = a.costo /\ x.matriz = a.matriz /\ x.duenos = a.duenos /\ x.firme = a.firme
      /\ x.ultimo = FALSE
  BY DEF Asiento
<1> HIDE DEF x
<1>2. Asentado(x, r, s)
  BY <1>1 DEF Asentado
<1>3. QED
  BY <1>2 DEF x

LEMMA AsentadosTras ==
  ASSUME BookInv, NEW p, NEW m, NEW nuevas \in Seq(Asiento), Cambiar(p, m, nuevas),
         \A i \in DOMAIN nuevas : Asentado(nuevas[i], p, m)
  PROVE  Asentados'
<1>1. costo' = p /\ matriz' = m
  BY DEF Cambiar
<1>2. diario \in Seq(Asiento) /\ \A i \in DOMAIN diario : Asentado(diario[i], costo, matriz)
  BY DEF BookInv, BookTypeOK, Asentados
<1>3. \A i \in DOMAIN diario : diario[i] \in Asiento
  BY <1>2, ElementOfSeq
<1>4. \A n \in DOMAIN diario' : \/ \E i \in DOMAIN diario : diario'[n] = [diario[i] EXCEPT !.ultimo = FALSE]
                                \/ \E i \in DOMAIN nuevas : diario'[n] = nuevas[i]
  <2> DEFINE s == [i \in DOMAIN diario |-> [diario[i] EXCEPT !.ultimo = FALSE]] \o nuevas
  <2>1. diario' = s
    BY DEF Cambiar
  <2>2. \A n \in DOMAIN s : \/ \E i \in DOMAIN diario : s[n] = [diario[i] EXCEPT !.ultimo = FALSE]
                           \/ \E i \in DOMAIN nuevas : s[n] = nuevas[i]
    BY <1>2, Anotadas
  <2> HIDE DEF s
  <2>3. QED
    BY <2>1, <2>2
<1>5. ASSUME NEW n \in DOMAIN diario' PROVE Asentado(diario'[n], costo', matriz')
  <2>1. CASE \E i \in DOMAIN diario : diario'[n] = [diario[i] EXCEPT !.ultimo = FALSE]
    <3>1. PICK i \in DOMAIN diario : diario'[n] = [diario[i] EXCEPT !.ultimo = FALSE]
      BY <2>1
    <3>2. Asentado([diario[i] EXCEPT !.ultimo = FALSE], costo', matriz')
      BY <1>2, <1>3, YaNoEsLaUltima
    <3>3. QED
      BY <3>1, <3>2
  <2>2. CASE \E i \in DOMAIN nuevas : diario'[n] = nuevas[i]
    BY <1>1, <2>2
  <2>3. QED
    BY <1>4, <2>1, <2>2
<1>6. QED
  BY <1>5 DEF Asentados

(* A change of prices that leaves no entry. *)
LEMMA TrasCaptura ==
  ASSUME BookInv, BookTypeOK', NEW p, NEW m, Cambiar(p, m, <<>>),
         \A f \in Editors : tarea'[f] = tarea[f] \/ tarea'[f].paso # "calculado",
         \A b \in Basicos : Lineas(matriz[b]) # {} => Lineas(m[b]) # {}
  PROVE  BookInv'
<1>1. <<>> \in Seq(Asiento) /\ DOMAIN <<>> = {}
  OBVIOUS
<1>2. Asentados'
  <2>1. \A i \in DOMAIN <<>> : Asentado(<<>>[i], p, m)
    BY <1>1
  <2>2. QED
    BY <1>1, <2>1, AsentadosTras
<1>3. /\ edicion' = edicion + 1 /\ computada' = computada /\ revisado' = [k \in Conceptos |-> FALSE]
      /\ matriz' = m
  BY DEF Cambiar
<1>4. QED
  BY <1>2, <1>3, TrasCambio

(* The entry of a change made on the book as it stood. *)
LEMMA Asienta ==
  ASSUME BookInv, NEW e \in Editors, NEW p, NEW m, NEW cs, NEW ds,
         \A d \in ds : Lineas(tarea[e].matriz[d]) # {},
         \A i \in Insumos \ cs : p[i] = costo[i],
         \A d \in Duenos \ ds : m[d] = matriz[d]
  PROVE  Asentado(AsientoDiario(e, cs, ds), p, m)
<1> DEFINE x == AsientoDiario(e, cs, ds)
<1>1. /\ x.costo = tarea[e].costo /\ x.matriz = tarea[e].matriz /\ x.codigos = cs /\ x.duenos = ds
      /\ x.deshecho = FALSE
      /\ x.firme => tarea[e].costo = costo /\ tarea[e].matriz = matriz /\ computada = edicion
  BY DEF AsientoDiario, Anotado
<1> HIDE DEF x
<1>2. x.firme => Sumas(x.costo, Composicion(x.matriz))
  BY <1>1 DEF BookInv, Sumados
<1>3. \A i \in Propios(Composicion(x.matriz)) : i \in Insumos
  BY DEF Propios
<1>4. Asentado(x, p, m)
  BY <1>1, <1>2, <1>3 DEF Asentado
<1>5. QED
  BY <1>4 DEF x

LEMMA DeshaceEnElDiario ==
  ASSUME BookTypeOK, NEW e \in Editors, NEW n \in DOMAIN diario, Deshace(e, n), NEW i \in DOMAIN diario'
  PROVE  /\ i \in DOMAIN diario
         /\ diario'[i].costo = diario[i].costo /\ diario'[i].matriz = diario[i].matriz
         /\ diario'[i].duenos = diario[i].duenos /\ diario'[i].firme = diario[i].firme
         /\ diario'[i].ultimo => i = n /\ diario[i].ultimo
         /\ i = n => diario'[i].deshecho = TRUE
<1>1. diario' = [j \in DOMAIN diario |->
        [diario[j] EXCEPT !.ultimo = (@ /\ j = n), !.deshecho = (@ \/ j = n)]]
  BY DEF Deshace
<1>2. i \in DOMAIN diario
      /\ diario'[i] = [diario[i] EXCEPT !.ultimo = (@ /\ i = n), !.deshecho = (@ \/ i = n)]
  BY <1>1
<1>3. diario[i] \in Asiento
  BY <1>2, ElementOfSeq DEF BookTypeOK
<1>4. QED
  BY <1>2, <1>3 DEF Asiento

(* An undo. *)
LEMMA TrasDeshacer ==
  ASSUME BookInv, BookTypeOK', NEW e \in Editors, NEW n \in DOMAIN diario, Deshace(e, n),
         \A f \in Editors : tarea'[f] = tarea[f] \/ tarea'[f].paso # "calculado"
  PROVE  BookInv'
<1> DEFINE a == diario[n]
           propios == Propios(Composicion(a.matriz))
<1>1. BookTypeOK /\ Asentados
  BY DEF BookInv
<1>2. a \in Asiento /\ a.matriz \in Matrices /\ a.duenos \in SUBSET Duenos
  <2>1. a \in Asiento
    BY <1>1, ElementOfSeq DEF BookTypeOK
  <2>2. QED
    BY <2>1 DEF Asiento
<1>3. /\ ~a.deshecho /\ edicion' = edicion + 1 /\ computada' = computada
      /\ revisado' = [k \in Conceptos |-> FALSE]
      /\ costo' = [i \in Insumos |-> IF i \in a.codigos THEN a.costo[i] ELSE costo[i]]
      /\ matriz' = [d \in Duenos |-> IF d \in a.duenos THEN a.matriz[d] ELSE matriz[d]]
  BY DEF Deshace
<1>4. \A d \in a.duenos : Lineas(a.matriz[d]) # {}
  BY <1>1 DEF Asentados, Asentado
<1>5. a.firme /\ a.ultimo =>
        /\ \A i \in propios \ a.codigos : costo[i] = a.costo[i]
        /\ \A d \in Duenos \ a.duenos : matriz[d] = a.matriz[d]
  BY <1>1, <1>3 DEF Asentados, Asentado
<1> HIDE DEF a
<1>6. ASSUME a.firme, a.ultimo
      PROVE  matriz' = a.matriz /\ \A i \in propios : costo'[i] = a.costo[i]
  <2>1. \A d \in Duenos : matriz'[d] = a.matriz[d]
    BY <1>3, <1>5, <1>6
  <2>2. matriz' = a.matriz
    BY <1>2, <1>3, <2>1 DEF Matrices
  <2>3. \A i \in propios : i \in Insumos
    BY DEF Propios
  <2> HIDE DEF propios
  <2>4. \A i \in propios : costo'[i] = a.costo[i]
    BY <1>3, <1>5, <1>6, <2>3
  <2>5. QED
    BY <2>2, <2>4
<1>7. ASSUME NEW i \in DOMAIN diario' PROVE Asentado(diario'[i], costo', matriz')
  <2>1. /\ i \in DOMAIN diario
        /\ diario'[i].costo = diario[i].costo /\ diario'[i].matriz = diario[i].matriz
        /\ diario'[i].duenos = diario[i].duenos /\ diario'[i].firme = diario[i].firme
        /\ diario'[i].ultimo => i = n /\ diario[i].ultimo
        /\ i = n => diario'[i].deshecho = TRUE
    BY <1>1, DeshaceEnElDiario
  <2>2. /\ \A d \in diario[i].duenos : Lineas(diario[i].matriz[d]) # {}
        /\ diario[i].firme => Sumas(diario[i].costo, Composicion(diario[i].matriz))
    BY <1>1, <2>1 DEF Asentados, Asentado
  <2> DEFINE x == diario'[i]
  <2>3. x.firme /\ x.ultimo => /\ x.deshecho = TRUE /\ x.matriz = a.matriz /\ x.costo = a.costo
                               /\ a.firme /\ a.ultimo
    BY <2>1 DEF a
  <2>4. /\ \A d \in x.duenos : Lineas(x.matriz[d]) # {}
        /\ x.firme => Sumas(x.costo, Composicion(x.matriz))
    BY <2>1, <2>2
  <2> HIDE DEF x
  <2>5. Asentado(x, costo', matriz')
    BY <1>6, <2>3, <2>4 DEF Asentado
  <2>6. QED
    BY <2>5 DEF x
<1>8. Asentados'
  BY <1>7 DEF Asentados
<1>9. \A b \in Basicos : Lineas(matriz[b]) # {} => Lineas(matriz'[b]) # {}
  BY <1>3, <1>4 DEF Duenos
<1>10. QED
  BY <1>3, <1>8, <1>9, TrasCambio

(* recompute_basicos reads. *)
LEMMA TrasCalcular ==
  ASSUME BookInv, NEW e \in Editors, Calcular(e), BookTypeOK'
  PROVE  BookInv'
<1> DEFINE x == Computados(costo, Composicion(matriz))
           t == [paso |-> "calculado", computed |-> x, edicion |-> edicion]
<1>1. BookTypeOK /\ EnFecha /\ Asentados /\ Sumados /\ VerdictIsCurrent
  BY DEF BookInv
<1>2. costo \in Costos /\ Composicion(matriz) \in Composiciones /\ edicion \in Nat
  BY <1>1, Compone DEF BookTypeOK
<1>3. Vale(x, costo, Composicion(matriz)) /\ DOMAIN x \cap Propios(Composicion(matriz)) = {}
  BY <1>2, CalculadoVale
<1> HIDE DEF x
<1>4. t.computed = x /\ t.edicion = edicion
  OBVIOUS
<1>5. /\ Sigue(e, t)
      /\ UNCHANGED <<costo, matriz, diario, veredicto, edicion, retoques, computada, revisado>>
  BY DEF Calcular, x
<1> HIDE DEF t
<1>6. tarea'[e] = t /\ \A f \in Editors : f # e => tarea'[f] = tarea[f]
  BY <1>1, <1>5 DEF Sigue, BookTypeOK
<1>7. EnFecha'
  <2>1. computada' <= edicion'
    BY <1>1, <1>5 DEF EnFecha
  <2>2. ASSUME NEW f \in Editors, tarea'[f].paso = "calculado"
        PROVE  /\ tarea'[f].edicion <= edicion'
               /\ DOMAIN tarea'[f].computed \cap Propios(Composicion(matriz')) = {}
               /\ tarea'[f].edicion = edicion' => Vale(tarea'[f].computed, costo', Composicion(matriz'))
    <3>1. CASE f = e
      BY <1>2, <1>3, <1>4, <1>5, <1>6, <3>1
    <3>2. CASE f # e
      BY <1>1, <1>5, <1>6, <2>2, <3>2 DEF EnFecha
    <3>3. QED
      BY <3>1, <3>2
  <2>3. QED
    BY <2>1, <2>2 DEF EnFecha
<1>8. Asentados' /\ Sumados'
  BY <1>1, <1>5 DEF Asentados, Sumados
<1>9. VerdictIsCurrent'
  BY <1>1, <1>5, MismoVeredicto
<1>10. QED
  BY <1>7, <1>8, <1>9 DEF BookInv

(* recompute_basicos writes. *)
LEMMA TrasAplicar ==
  ASSUME BookInv, NEW e \in Editors, Aplicar(e), BookTypeOK'
  PROVE  BookInv'
<1> DEFINE x == tarea[e].computed
           c == Composicion(matriz)
<1>1. BookTypeOK /\ EnFecha /\ Asentados /\ Sumados /\ VerdictIsCurrent
  BY DEF BookInv
<1>2. costo \in Costos /\ c \in Composiciones /\ edicion \in Nat /\ matriz \in Matrices
  BY <1>1, Compone DEF BookTypeOK
<1>3. /\ tarea[e].paso = "calculado" /\ computada' = tarea[e].edicion
      /\ costo' = [i \in Insumos |-> IF i \in DOMAIN x THEN x[i] ELSE costo[i]]
      /\ Sigue(e, [paso |-> "aplicado", conceptos |-> Conceptos])
      /\ UNCHANGED <<matriz, diario, veredicto, edicion, retoques, revisado>>
  BY DEF Aplicar
<1>4. /\ tarea[e].edicion <= edicion /\ DOMAIN x \cap Propios(c) = {}
      /\ tarea[e].edicion = edicion => Vale(x, costo, c)
  BY <1>1, <1>3 DEF EnFecha
<1>5. \A i \in Insumos : costo'[i] = IF i \in DOMAIN x THEN x[i] ELSE costo[i]
  BY <1>3
<1>6. costo' \in Costos
  BY DEF BookTypeOK
<1> HIDE DEF x, c
<1>7. \A i \in Propios(c) : costo'[i] = costo[i]
  BY <1>4, <1>5 DEF Propios
<1>8. Composicion(matriz') = c
  BY <1>3 DEF c
<1>9. Sumados'
  <2>1. ASSUME computada' = edicion' PROVE Sumas(costo', c)
    <3>1. Vale(x, costo, c)
      BY <1>3, <1>4, <2>1
    <3>2. QED
      BY <1>2, <1>5, <1>6, <3>1, EscritoVale
  <2>2. QED
    BY <1>8, <2>1 DEF Sumados
<1>10. \A f \in Editors : tarea'[f] = tarea[f] \/ tarea'[f].paso # "calculado"
  <2> DEFINE t == [paso |-> "aplicado", conceptos |-> Conceptos]
  <2>1. t.paso = "aplicado" /\ Sigue(e, t)
    BY <1>3
  <2> HIDE DEF t
  <2>2. QED
    BY <1>1, <2>1 DEF Sigue, BookTypeOK
<1>11. EnFecha'
  <2>1. computada' <= edicion'
    BY <1>3, <1>4
  <2>2. ASSUME NEW f \in Editors, tarea'[f].paso = "calculado"
        PROVE  /\ tarea'[f].edicion <= edicion'
               /\ DOMAIN tarea'[f].computed \cap Propios(Composicion(matriz')) = {}
               /\ tarea'[f].edicion = edicion' => Vale(tarea'[f].computed, costo', Composicion(matriz'))
    <3>1. tarea'[f] = tarea[f]
      BY <1>10, <2>2
    <3>2. /\ tarea[f].edicion <= edicion /\ DOMAIN tarea[f].computed \cap Propios(c) = {}
          /\ tarea[f].edicion = edicion => Vale(tarea[f].computed, costo, c)
      BY <1>1, <2>2, <3>1 DEF EnFecha, c
    <3>3. Vale(tarea[f].computed, costo, c) => Vale(tarea[f].computed, costo', c)
      BY <1>7 DEF Vale
    <3>4. QED
      BY <1>3, <1>8, <3>1, <3>2, <3>3
  <2>3. QED
    BY <2>1, <2>2 DEF EnFecha
<1>12. Asentados'
  <2>1. ASSUME NEW n \in DOMAIN diario PROVE Asentado(diario[n], costo', matriz)
    <3> DEFINE a == diario[n]
               propios == Propios(Composicion(a.matriz))
    <3>1. a.matriz \in Matrices
      <4>1. a \in Asiento
        BY <1>1, ElementOfSeq DEF BookTypeOK
      <4>2. QED
        BY <4>1 DEF Asiento
    <3>2. Asentado(a, costo, matriz)
      BY <1>1 DEF Asentados
    <3> HIDE DEF a
    <3>3. ASSUME a.firme, a.ultimo PROVE propios \subseteq Propios(c)
      <4>1. propios = {i \in Insumos : i \in Basicos => Lineas(a.matriz[i]) = {}}
        BY <3>1, Compone
      <4>2. Propios(c) = {i \in Insumos : i \in Basicos => Lineas(matriz[i]) = {}}
        BY <1>2, Compone DEF c
      <4>3. ASSUME NEW b \in Basicos, Lineas(a.matriz[b]) = {} PROVE Lineas(matriz[b]) = {}
        <5>1. b \in Duenos
          BY DEF Duenos
        <5>2. CASE a.deshecho
          BY <3>2, <3>3, <4>3, <5>2 DEF Asentado
        <5>3. CASE ~a.deshecho
          BY <3>2, <3>3, <4>3, <5>1, <5>3 DEF Asentado
        <5>4. QED
          BY <5>2, <5>3
      <4>4. QED
        BY <4>1, <4>2, <4>3
    <3>4. a.firme /\ a.ultimo => \A i \in propios : costo'[i] = costo[i]
      BY <1>7, <3>3
    <3>5. Asentado(a, costo', matriz)
      BY <3>2, <3>4 DEF Asentado
    <3>6. QED
      BY <3>5 DEF a
  <2>2. QED
    BY <1>3, <2>1 DEF Asentados
<1>13. VerdictIsCurrent'
  <2>1. ASSUME NEW k \in Conceptos PROVE ApuActual(k)' = ApuActual(k)
    <3>1. Apu(costo', c, matriz[k]) = Apu(costo, c, matriz[k])
      BY <1>7, ApuIgual
    <3>2. matriz' = matriz
      BY <1>3
    <3>3. QED
      BY <1>8, <3>1, <3>2 DEF ApuActual, ApuDe, c
  <2>2. QED
    BY <1>1, <1>3, <2>1 DEF VerdictIsCurrent
<1>14. QED
  BY <1>9, <1>11, <1>12, <1>13 DEF BookInv

(* The matrix of a concept: no básico depends on it. *)
LEMMA TrasApu ==
  ASSUME BookInv, NEW e \in Editors, SetApuComponents(e), BookTypeOK'
  PROVE  BookInv'
<1>1. BookTypeOK /\ EnFecha /\ Asentados /\ Sumados /\ VerdictIsCurrent
  BY DEF BookInv
<1>2. PICK k \in Conceptos, f \in Filas :
        /\ matriz' = [matriz EXCEPT ![k] = f]
        /\ diario' = [i \in DOMAIN diario |-> [diario[i] EXCEPT !.ultimo = FALSE]]
        /\ revisado' = [revisado EXCEPT ![k] = FALSE]
        /\ Sigue(e, [paso |-> "aplicado", conceptos |-> {k}])
        /\ UNCHANGED <<costo, veredicto, edicion, computada>>
  BY DEF SetApuComponents
<1>3. \A d \in Duenos : d # k => matriz'[d] = matriz[d]
  BY <1>1, <1>2 DEF BookTypeOK, Matrices
<1>4. \A b \in Basicos : b \in Duenos /\ b # k
  BY PriceBookAssumption DEF Duenos, Insumos
<1>5. Composicion(matriz') = Composicion(matriz)
  BY <1>3, <1>4, MismaComposicion
<1>6. \A g \in Editors : tarea'[g] = tarea[g] \/ tarea'[g].paso # "calculado"
  <2> DEFINE t == [paso |-> "aplicado", conceptos |-> {k}]
  <2>1. t.paso = "aplicado" /\ Sigue(e, t)
    BY <1>2
  <2> HIDE DEF t
  <2>2. QED
    BY <1>1, <2>1 DEF Sigue, BookTypeOK
<1>7. EnFecha'
  BY <1>1, <1>2, <1>5, <1>6 DEF EnFecha
<1>8. Sumados'
  BY <1>1, <1>2, <1>5 DEF Sumados
<1>9. Asentados'
  <2>1. ASSUME NEW n \in DOMAIN diario' PROVE Asentado(diario'[n], costo', matriz')
    <3>1. n \in DOMAIN diario /\ diario'[n] = [diario[n] EXCEPT !.ultimo = FALSE]
      BY <1>2
    <3>2. diario[n] \in Asiento /\ Asentado(diario[n], costo, matriz)
      BY <1>1, <3>1, ElementOfSeq DEF BookTypeOK, Asentados
    <3>3. QED
      BY <3>1, <3>2, YaNoEsLaUltima
  <2>2. QED
    BY <2>1 DEF Asentados
<1>10. VerdictIsCurrent'
  <2>1. ASSUME NEW d \in Conceptos, d # k PROVE ApuActual(d)' = ApuActual(d)
    <3>1. matriz'[d] = matriz[d]
      BY <1>3, <2>1 DEF Duenos
    <3>2. costo' = costo
      BY <1>2
    <3>3. QED
      BY <1>5, <3>1, <3>2 DEF ApuActual, ApuDe
  <2>2. ~revisado'[k] /\ \A d \in Conceptos : d # k => revisado'[d] = revisado[d]
    BY <1>1, <1>2 DEF BookTypeOK
  <2>3. QED
    BY <1>1, <1>2, <2>1, <2>2 DEF VerdictIsCurrent
<1>11. QED
  BY <1>7, <1>8, <1>9, <1>10 DEF BookInv

LEMMA TrasRevalidar ==
  ASSUME BookInv, NEW e \in Editors, Revalidar(e), BookTypeOK'
  PROVE  BookInv'
<1>1. BookTypeOK /\ VerdictIsCurrent
  BY DEF BookInv
<1>2. /\ Sigue(e, Libre) /\ UNCHANGED <<costo, matriz, diario, edicion, retoques, computada>>
      /\ veredicto' = [k \in Conceptos |->
           IF k \in tarea[e].conceptos /\ veredicto[k] # SinVeredicto /\ ApuActual(k) # SinPrecio
           THEN ApuActual(k) ELSE veredicto[k]]
      /\ revisado' = [k \in Conceptos |-> revisado[k] \/ k \in tarea[e].conceptos]
  BY DEF Revalidar
<1>3. ASSUME NEW k \in Conceptos PROVE ApuActual(k)' = ApuActual(k)
  BY <1>2 DEF ApuActual, ApuDe
<1>4. VerdictIsCurrent'
  <2>1. ASSUME NEW k \in Conceptos, revisado'[k], veredicto'[k] # SinVeredicto, ApuActual(k) # SinPrecio
        PROVE  veredicto'[k] = ApuActual(k)
    <3>1. CASE k \in tarea[e].conceptos /\ veredicto[k] # SinVeredicto
      BY <1>2, <2>1, <3>1
    <3>2. CASE k \in tarea[e].conceptos /\ veredicto[k] = SinVeredicto
      BY <1>2, <2>1, <3>2
    <3>3. CASE k \notin tarea[e].conceptos
      <4>1. revisado[k] /\ veredicto'[k] = veredicto[k]
        BY <1>2, <2>1, <3>3
      <4>2. QED
        BY <1>1, <2>1, <4>1 DEF VerdictIsCurrent
    <3>4. QED
      BY <3>1, <3>2, <3>3
  <2>2. QED
    BY <1>3, <2>1 DEF VerdictIsCurrent
<1>5. \A f \in Editors : tarea'[f] = tarea[f] \/ tarea'[f].paso # "calculado"
  <2>1. Libre.paso # "calculado"
    BY DEF Libre
  <2>2. QED
    BY <1>1, <1>2, <2>1 DEF Sigue, BookTypeOK
<1>6. QED
  BY <1>2, <1>4, <1>5, Quieta

LEMMA BookStep == BookInv /\ [BookNext]_bookVars => BookInv'
<1> SUFFICES ASSUME BookInv, [BookNext]_bookVars PROVE BookInv'
  OBVIOUS
<1>1. BookTypeOK /\ BookTypeOK'
  BY BookTypesStep DEF BookInv
<1>2. EnFecha /\ Asentados /\ Sumados /\ VerdictIsCurrent
  BY DEF BookInv
<1>3. costo \in Costos /\ matriz \in Matrices /\ Composicion(matriz) \in Composiciones
  BY <1>1, Compone DEF BookTypeOK
<1>4. [paso |-> "escrito"] \in Tarea /\ Libre \in Tarea /\ Libre.paso = "libre"
  BY DEF Tarea, Escrita, Libre
<1>5. CASE UNCHANGED bookVars
  <2>1. UNCHANGED <<costo, matriz, diario, veredicto, tarea, edicion, retoques, computada, revisado>>
    BY <1>5 DEF bookVars
  <2>2. QED
    BY <1>1, <1>2, <2>1, Quieta, MismoVeredicto
<1>6. ASSUME NEW e \in Editors, LeerLibro(e) PROVE BookInv'
  <2> DEFINE t == [paso |-> "leido", costo |-> costo, matriz |-> matriz]
  <2>1. t \in Tarea /\ t.paso = "leido"
    BY <1>3 DEF Tarea, Leida
  <2>2. Sigue(e, t) /\ UNCHANGED <<costo, matriz, diario, veredicto, edicion, retoques, computada, revisado>>
    BY <1>6 DEF LeerLibro
  <2> HIDE DEF t
  <2>3. \A f \in Editors : tarea'[f] = tarea[f] \/ tarea'[f].paso # "calculado"
    BY <1>1, <2>1, <2>2, Siguiendo
  <2>4. QED
    BY <1>1, <1>2, <2>2, <2>3, Quieta, MismoVeredicto
<1>7. ASSUME NEW e \in Editors, Sigue(e, [paso |-> "escrito"])
      PROVE  \A f \in Editors : tarea'[f] = tarea[f] \/ tarea'[f].paso # "calculado"
  <2> DEFINE t == [paso |-> "escrito"]
  <2>1. t.paso = "escrito" /\ t \in Tarea /\ Sigue(e, t)
    BY <1>4, <1>7
  <2> HIDE DEF t
  <2>2. QED
    BY <1>1, <2>1, Siguiendo
<1>8. ASSUME NEW e \in Editors, UpsertInsumo(e) PROVE BookInv'
  <2>1. PICK i \in Insumos, c \in Capturas :
          Cambiar([costo EXCEPT ![i] = c], matriz, <<>>) /\ Sigue(e, [paso |-> "escrito"])
    BY <1>8 DEF UpsertInsumo
  <2>2. QED
    BY <1>1, <1>7, <2>1, TrasCaptura
<1>9. ASSUME NEW e \in Editors, ImportPrices(e) PROVE BookInv'
  <2>1. PICK i \in Insumos, c \in Capturas :
          Cambiar([costo EXCEPT ![i] = c], matriz, <<>>) /\ UNCHANGED tarea
    BY <1>9 DEF ImportPrices
  <2>2. QED
    BY <1>1, <2>1, TrasCaptura
<1>10. ASSUME NEW e \in Editors, SetBasicoComponents(e) PROVE BookInv'
  <2>1. PICK b \in Basicos, f \in Filas :
          Cambiar(costo, [matriz EXCEPT ![b] = f], <<>>) /\ Sigue(e, [paso |-> "escrito"])
    BY <1>10 DEF SetBasicoComponents
  <2>2. Lineas(f) # {}
    BY PriceBookAssumption
  <2>3. \A d \in Basicos : d \in Duenos
    BY DEF Duenos
  <2>4. \A d \in Basicos : Lineas(matriz[d]) # {} => Lineas([matriz EXCEPT ![b] = f][d]) # {}
    BY <1>3, <2>2, <2>3 DEF Matrices
  <2>5. QED
    BY <1>1, <1>7, <2>1, <2>4, TrasCaptura
<1>11. ASSUME NEW e \in Editors, AdjustPrices(e) PROVE BookInv'
  <2>1. PICK cs \in Lotes :
          /\ tarea[e].paso = "leido"
          /\ Cambiar([i \in Insumos |-> IF i \in cs THEN tarea[e].costo[i] * Factor ELSE costo[i]],
                     matriz, <<AsientoDiario(e, cs, {})>>)
          /\ Sigue(e, [paso |-> "escrito"])
    BY <1>11 DEF AdjustPrices
  <2> DEFINE p == [i \in Insumos |-> IF i \in cs THEN tarea[e].costo[i] * Factor ELSE costo[i]]
             a == AsientoDiario(e, cs, {})
  <2>2. \A i \in Insumos \ cs : p[i] = costo[i]
    OBVIOUS
  <2>3. Cambiar(p, matriz, <<a>>)
    BY <2>1
  <2> HIDE DEF p
  <2>4. Asentado(a, p, matriz)
    BY <2>2, Asienta
  <2>5. <<a>> \in Seq(Asiento)
    <3>1. cs \in SUBSET Insumos /\ {} \in SUBSET Duenos
      BY PriceBookAssumption
    <3>2. QED
      BY <1>1, <2>1, <3>1, Anotado1
  <2> HIDE DEF a
  <2>6. Asentados'
    <3>1. \A i \in DOMAIN <<a>> : Asentado(<<a>>[i], p, matriz)
      BY <2>4
    <3>2. QED
      BY <2>3, <2>5, <3>1, AsentadosTras
  <2>7. /\ edicion' = edicion + 1 /\ computada' = computada /\ revisado' = [k \in Conceptos |-> FALSE]
        /\ matriz' = matriz
    BY <2>3 DEF Cambiar
  <2>8. QED
    BY <1>1, <1>7, <2>1, <2>6, <2>7, TrasCambio
<1>12. ASSUME NEW e \in Editors, ReplaceResource(e) PROVE BookInv'
  <2>1. PICK old \in Insumos, new \in Insumos : Reemplaza(e, old, new)
    BY <1>12 DEF ReplaceResource, Reemplaza, Sustituyendo, Usan
  <2> DEFINE ds == Usan(e, old)
             m == Sustituyendo(e, old, new)
             a == AsientoDiario(e, {}, ds)
  <2>2. Cambiar(costo, m, <<a>>) /\ Sigue(e, [paso |-> "escrito"]) /\ tarea[e].paso = "leido"
    BY <2>1 DEF Reemplaza
  <2>3. \A d \in ds : Lineas(tarea[e].matriz[d]) # {} /\ Lineas(m[d]) # {}
    BY <1>1, <2>1, Sustituyen
  <2>4. \A d \in Duenos \ ds : m[d] = matriz[d]
    BY DEF Sustituyendo
  <2>5. ds \in SUBSET Duenos
    BY DEF Usan
  <2> HIDE DEF m, ds
  <2>6. Asentado(a, costo, m)
    BY <2>3, <2>4, Asienta
  <2>7. <<a>> \in Seq(Asiento)
    BY <1>1, <2>2, <2>5, Anotado1
  <2> HIDE DEF a
  <2>8. Asentados'
    <3>1. \A i \in DOMAIN <<a>> : Asentado(<<a>>[i], costo, m)
      BY <2>6
    <3>2. QED
      BY <2>2, <2>7, <3>1, AsentadosTras
  <2>9. /\ edicion' = edicion + 1 /\ computada' = computada /\ revisado' = [k \in Conceptos |-> FALSE]
        /\ matriz' = m
    BY <2>2 DEF Cambiar
  <2>10. \A b \in Basicos : Lineas(matriz[b]) # {} => Lineas(matriz'[b]) # {}
    BY <2>3, <2>4, <2>9 DEF Duenos
  <2>11. QED
    BY <1>1, <1>7, <2>2, <2>8, <2>9, <2>10, TrasCambio
<1>13. ASSUME NEW e \in Editors, UndoAdjustment(e) PROVE BookInv'
  <2>1. PICK n \in DOMAIN diario : Deshace(e, n)
    BY <1>13 DEF UndoAdjustment, Deshace
  <2>2. Sigue(e, [paso |-> "escrito"])
    BY <2>1 DEF Deshace
  <2>3. \A f \in Editors : tarea'[f] = tarea[f] \/ tarea'[f].paso # "calculado"
    BY <1>7, <2>2
  <2>4. QED
    BY <1>1, <2>1, <2>3, TrasDeshacer
<1>14. ASSUME NEW e \in Editors, Cortar(e) PROVE BookInv'
  <2>1. Sigue(e, Libre) /\ UNCHANGED <<costo, matriz, diario, veredicto, edicion, retoques, computada, revisado>>
    BY <1>14 DEF Cortar
  <2>2. \A f \in Editors : tarea'[f] = tarea[f] \/ tarea'[f].paso # "calculado"
    BY <1>1, <1>4, <2>1, Siguiendo
  <2>3. QED
    BY <1>1, <1>2, <2>1, <2>2, Quieta, MismoVeredicto
<1>15. ASSUME NEW e \in Editors, Calcular(e) PROVE BookInv'
  BY <1>1, <1>15, TrasCalcular
<1>16. ASSUME NEW e \in Editors, Aplicar(e) PROVE BookInv'
  BY <1>1, <1>16, TrasAplicar
<1>17. ASSUME NEW e \in Editors, SetApuComponents(e) PROVE BookInv'
  BY <1>1, <1>17, TrasApu
<1>18. ASSUME NEW e \in Editors, Revalidar(e) PROVE BookInv'
  BY <1>1, <1>18, TrasRevalidar
<1>19. ASSUME NEW e \in Editors, ValidateConcept(e) PROVE BookInv'
  <2>1. PICK k \in Conceptos :
          /\ veredicto' = [veredicto EXCEPT ![k] = ApuActual(k)]
          /\ UNCHANGED <<costo, matriz, diario, tarea, edicion, retoques, computada, revisado>>
    BY <1>19 DEF ValidateConcept
  <2>2. \A c \in Conceptos : ApuActual(c)' = ApuActual(c)
    BY <2>1 DEF ApuActual, ApuDe
  <2>3. \A c \in Conceptos : veredicto'[c] = IF c = k THEN ApuActual(k) ELSE veredicto[c]
    BY <1>1, <2>1 DEF BookTypeOK
  <2>4. VerdictIsCurrent'
    BY <1>2, <2>1, <2>2, <2>3 DEF VerdictIsCurrent
  <2>5. QED
    BY <1>1, <2>1, <2>4, Quieta
<1>20. QED
  BY <1>5, <1>6, <1>8, <1>9, <1>10, <1>11, <1>12, <1>13, <1>14, <1>15, <1>16, <1>17, <1>18, <1>19
     DEF BookNext

(* The invariant of the price book (catalog_store.py, apu.py). *)
THEOREM BookInductive == BookSpec => []BookInv
<1>1. BookInit => BookInv
  BY BookInicia
<1>2. BookInv /\ [BookNext]_bookVars => BookInv'
  BY BookStep
<1>3. QED
  BY <1>1, <1>2, PTL DEF BookSpec

(* PriceBook.tla, types: the book, the journal and the requests hold prices *)
(* that are natural numbers, and matrices of them (catalog_store.py).       *)
THEOREM BookTypes == BookSpec => []BookTypeOK
<1>1. BookInv => BookTypeOK
  BY DEF BookInv
<1>2. QED
  BY <1>1, BookInductive, PTL

(* A básico that has all its prices below is the sum of its matrix, once    *)
(* the last edition is computed: recompute_basicos (catalog_store.py).      *)
THEOREM EveryBasicoIsItsMatrix == BookSpec => []BasicoIsItsMatrix
<1>1. BookInv => BasicoIsItsMatrix
  <2>1. SUFFICES ASSUME BookInv, computada = edicion, NEW b \in Basicos,
                        b \in Completos(costo, Composicion(matriz))
                 PROVE  costo[b] = Total(costo, matriz[b])
    BY DEF BasicoIsItsMatrix
  <2>2. Sumas(costo, Composicion(matriz))
    BY <2>1 DEF BookInv, Sumados
  <2>3. Composicion(matriz)[b] = matriz[b]
    BY DEF Composicion
  <2>4. QED
    BY <2>1, <2>2, <2>3 DEF Sumas
<1>2. QED
  BY <1>1, BookInductive, PTL

(* A verdict given after the last change is about the cost of now:          *)
(* _revalidate_priced (catalog_store.py), build_apu (apu.py).               *)
THEOREM VerdictsAreCurrent == BookSpec => []VerdictIsCurrent
<1>1. BookInv => VerdictIsCurrent
  BY DEF BookInv
<1>2. QED
  BY <1>1, BookInductive, PTL

(* Undoing the last entry of the journal leaves the book as it was:         *)
(* undo_adjustment (catalog_store.py).                                      *)
THEOREM AnUndoIsExact == BookSpec => []UndoIsExact
<1>1. BookInv => UndoIsExact
  <2> SUFFICES ASSUME BookInv, computada = edicion, NEW n \in DOMAIN diario,
                      diario[n].deshecho, diario[n].ultimo, diario[n].firme
               PROVE  LET a == diario[n]
                          c == Composicion(a.matriz) IN
                      /\ matriz = a.matriz
                      /\ \A i \in Propios(c) \cup Completos(a.costo, c) : costo[i] = a.costo[i]
    BY DEF UndoIsExact
  <2> DEFINE a == diario[n]
             c == Composicion(a.matriz)
  <2>1. a \in Asiento /\ costo \in Costos
    BY ElementOfSeq DEF BookInv, BookTypeOK
  <2>2. a.costo \in Costos /\ a.matriz \in Matrices
    BY <2>1 DEF Asiento
  <2>3. /\ matriz = a.matriz /\ (\A i \in Propios(c) : costo[i] = a.costo[i])
        /\ Sumas(a.costo, c)
    BY DEF BookInv, Asentados, Asentado
  <2> HIDE DEF a
  <2>4. Sumas(costo, c)
    BY <2>3 DEF BookInv, Sumados
  <2>5. c \in Composiciones
    BY <2>2, Compone
  <2> HIDE DEF c
  <2>6. \A b \in Completos(a.costo, c) : costo[b] = a.costo[b]
    BY <2>1, <2>2, <2>3, <2>4, <2>5, Unicos
  <2>7. QED
    BY <2>3, <2>6 DEF a, c
<1>2. QED
  BY <1>1, BookInductive, PTL

=============================================================================
