# Klave Engine: TLA+ models, model checking and proofs

Klave reads construction drawings and produces a budget.  The repository is a
FastAPI server (`src/apps/api`), an engine of detectors and costing
(`src/packages/klave_engine`), and a Next.js client (`src/apps/web`).  Most of its
lines are sequential computation.  What is hard to get right, and hard to test, is
the server's concurrency: request threads, the executor's workers and the event
loop share a map in memory and JSON files on disk, some of it under locks, some
of it not, and the process may stop at any point.  That is what these modules
model.

All the paths below are relative to the repository's `src/`.

## 1. Inventory

| component | state | operations | interacts with | what must hold |
|---|---|---|---|---|
| scheduler (`apps/api/jobs.py`) | map of jobs, executor queue, `latest_job.json`, `jobs/<id>.json` | `get`, `enqueue`, `repair_orphans`, `_run`, `_update` | pipeline, retention, costing, event bus | one run per project, bounded admission, jobs end, no job shown in progress that nobody runs |
| publication and retention (`jobs.py`, `retention.py`) | `runs/<run>`, `active_run.json` | publish, prune | readers of artifacts | readers resolve a complete run that exists; runs are immutable and move forward |
| costing state (`dependencies.py`, `costing/recompute.py`, `routes/reports.py`, `routes/reviews.py`, `routes/catalog.py`, `routes/copilot.py`) | `costing_overrides.json`, `reviews.json`, `cost_report_override.json`, a lock per project | recompute, review, catalog change, the job's reading and rekeying | scheduler, pipeline | no edit or verdict is silently lost; readers see the report of the published run with the stored inputs |
| event bus and stream (`events.py`, `routes/events.py`, `ProjectLive.tsx`) | number, bounded history, waiters; cursor of each stream; what a client shows | publish, since, subscribe, the stream loop | every mutation | every change reaches those who follow it, once, in order, across reconnections and restarts |
| saved versions (`costing/versions.py`, `routes/versions.py`) | index and one file per version | create, restore, delete, snapshot by the job | costing state, scheduler | a restore loses nothing, the list is true, a replaced report is kept |
| rekeying of reviews (`costing/reviews.py:156`) | `reviews.json` | verdicts, `rekey_reviews` | pipeline | no verdict lost, none applied to another element |
| sheets and manifest (`routes/projects.py`, `ingestion/project_loader.py`) | drawings, `manifest.json` | add, replace, retire with rollback, patch | scheduler | a project keeps a sheet; a failed change leaves all as it was; every change is read |
| accounts (`auth/`) | users, invitations, links, sessions in Postgres | registration, roles, status, invitations, recovery | middleware | a taller keeps an active administrator; a link is used once |
| AI reading (`routes/ai.py`, `llm/service.py`, `llm/reader.py`) | `_RUNNING`, `_CANCEL`, `ai_reads.json` | start, cancel, resume | bus, runs | one reading per project, which ends; no reading lost or doubled |
| price book (`costing/catalog_store.py`, `costing/apu.py`) | prices, matrices, journal, verdicts in a database | prices, matrices, adjustments, substitutions, undo, validation | unit prices | a básico costs its matrix, a verdict is about the current cost, undo is exact |
| contract execution (`routes/obra.py`, `costing/estimaciones.py`, `convenios.py`, `finiquito.py`, `bitacora.py`) | one JSON file per book of the contract | estimaciones, convenios, logbook, settlement | catalogue | nothing is charged twice, no more than the advance is amortised |
| work programme (`costing/schedule.py`) | activities and relations | build, stretch, floats | costing | the dates keep the network, the floats can be used |
| registry, tenancy, share links, rate limits | JSON files and maps under one lock each | read-modify-write | requests | no entry lost |
| detection, structure, DXF, geometry, costing mathematics, conversion, providers, client | data | sequential functions | pipeline | out of scope (section 15) |

The hard behaviours are listed one by one, with their lines, under `hazards` in
`PROJECT.json`.

## 2. Modules and plan

| order | module | what it is | status |
|---|---|---|---|
| 1 | `JobStore` | scheduler, publication, retention, crash | done |
| 1 | `ProjectRuns` | what the scheduler promises, abstractly; `JobStore` implements it by a refinement mapping | done |
| 1 | `JobStoreProofs` | type correctness, one run per project, admission, publication, retention, the refinement of `ProjectRuns`, proved | done |
| 2 | `CostingState` | costing files of a project under requests, job and crash | done |
| 2 | `CostingProofs` | its invariants and action properties, and those of `PriceBook`, proved | done |
| 3 | `EventStream`, `EventStreamProofs` | event bus, stream and client; that nothing is passed over and frames are in order, proved | done |
| 4 | `Versions` | index and files of versions: locked requests, the job's unlocked snapshot, restarts | done |
| 5 | `ReviewKeys` | verdicts under labels, and the algorithm that moves them from run to run | done |
| 5 | `ReviewsProofs` | the properties of `Versions` and of `ReviewKeys`, proved | done |
| 6 | `SheetFiles` | changes of sheets with rollback, the manifest, and a starting job | done |
| 7 | `Accounts` | statement by statement: last administrator, invitations, one-use links | done |
| 7 | `AccountsAndSheetsProofs` | the properties of `Accounts` and of `SheetFiles`, proved | done |
| 8 | `AiReading`, `AiReadingProofs` | start, cancel, failure, resumption, restart; its safety properties, proved | done |
| 8 | `Selection`, `SelectionProofs` | what the code takes from a list, how it sorts one and how it adds one up, as recursive functions; what they return, proved | done |
| 9 | `PriceBook` | matrices of básicos, journal and undo, verdicts | done |
| 10 | `Obra` | books of a contract as files rewritten from drafts | done |
| 11 | `Programa` | the network of the work programme: placing, stretch, floats | done |
| 11 | `ContractProofs` | the properties of `Obra` and of `Programa`, proved | done |
| 12 | the sequential readers and rules | see section 15 | not planned |

`MC*` modules instantiate the specifications for TLC.  No module declares a
RECURSIVE operator, so every one of them can be proved about.  Every safety property
of a passing run is a theorem.  What remains to prove is liveness, which is out
of the prover's reach (section 14); what remains to model is in section 15.

Several actors work on a project at the same time, and the modules meet in what
they share: the job of `JobStore` appears in `CostingState`, `Versions`,
`SheetFiles` and `ReviewKeys` as the few steps in which it touches their files.

## 3. JobStore and ProjectRuns

A step is what a thread does between two points where another thread can see it:
a section under `JobStore._lock`, or one atomic file replacement (`write_json`,
`common/io.py`).  The map in memory (`jobs`) and the record on disk (`latest`) are
separate variables because `_update` and `enqueue` write the record after they
have released the lock.

| code | model |
|---|---|
| `get` | `Lookup`, `LoadRecord`, `PersistInterrupted`, `InstallLoaded` |
| `enqueue` | the same, then `Admit`, `PersistAdmitted`, `Submit` |
| `_run`, `_run_bound` | `TakeJob`, `PersistRunning`, `MakeRunDir`, `Progress`, `RunPipeline`, `Publish`, `Prune`, `Finish`, `PersistFinished` |
| its `except` blocks | `Fail`, `PersistFailed` |
| process dies; lifespan | `Crash`; `RepairOrphan`, `AbortRepair` |

Abstractions.  A job is its number; its run directory has the same number.  The
pipeline succeeds or fails.  `jobs/<id>.json` says what `latest_job.json` said, and
is not a variable of its own.  The texts of the stages are left out:
a `progress` update only rewrites the record (`Progress`).  The modification times
that retention sorts by are the order of the runs; deletion of a run is one step.
The override of the cost report, which the job removes after publishing, belongs
to `CostingState`.  `_persist` writes the
object that the map holds, as it is when it is written (`Snapshot`); two distinct
objects of one job, which exist only after the race of `jobs_double`, are taken as
one.  `Faults` names the writes that may fail in a run; a pipeline may always fail.

Bounds: `MaxJobs` jobs per project, `MaxFaults` failing writes, `MaxCrashes` crashes.
Two projects are what capacity and isolation need; two requests or two workers are
what each race needs; three jobs allow a job to be old, current and next.

Warm and cold.  `Warm` says that every project had a record when the server
started (so that `repair_orphans` has it in memory) and that two writes do not
fail: that of an interrupted job (which would leave projects out of the cache), and
the last of a job (whose failure sends a published job to the except block, after
the map had shown it ended).  `OneRunPerProject` needs it: `jobs_double` shows two
overlapping runs in a cold cache.  `jobs_cold` checks what still holds then.

`ProjectRuns` has no thread, file or cache: a run begins only when the project has
none and there is capacity, only the run in progress is published, and it ends.
The mapping reads `current` from the map of jobs, `published` from the pointer and
`last` from the jobs admitted; `jobs_pair` checks it as a property.

## 4. CostingState

A step reads or replaces one file.  `Recompute`, `SetDetectionReview` and
`RecomputeProject` begin the three kinds of request: an edit of the parameters on
the version the client saw, a verdict, and a change of the catalog (or of the
copilot) that only recomputes.  The first two take `project_recompute_lock`
(`Acquire`), the third and the job take none.  All end in `recompute_and_persist`:
`LoadInputs`, `BuildReport`, `WriteReport`, `SaveOverrides`.  The job reads the
parameters (`ReadOverrides`), reads the verdicts and saves them when keys moved
(`ReadReviews`, `SaveRekeyed`), moves the pointer (`PublishRun`) and removes the
derived report (`DropDerived`).

Abstractions.  A report is the inputs it was computed from.  A version of the
parameters is its number and who saved it; without a file they are the
defaults (`costing_config_path` is unset by default).  A verdict belongs to an
element, so that rekeying is the identity here (its algorithm is the module
`ReviewKeys`).  Reading the files of a run is one step.  Versions, variants,
decisions of the structural model and broadcasts are left out.

`overlapped` is a history variable: it is true once something that the lock does
not serialise (the job, a catalog change) has overlapped a request, or a crash
has cut one.  The properties named `Locked...` and `ShownIsCurrent` speak of the
histories before that; the unconditional ones are what comments of the code say,
and they fail (section 12).

Bounds: two callers, two elements and two verdicts are the least in which a lost
update is visible; two runs, so that a report can be of the older; two calls in
the passing run and three in the runs that search for a violation.

## 5. EventStream

`Publish` is the locked part of `EventBus.publish` and `Wake` the calls of
`call_soon_threadsafe` after it.  A stream's loop is `Greet`, then `Clear`,
`Capture`, `Drain`, `Deliver` or `Idle`, and `Awake` or `TimeOut`.  A callback
(`SetWaiter`) runs only where the stream awaits or yields, as in the event loop;
publishing threads run anywhere.  `Restart` empties the bus and starts its numbers
again while clients keep their last id; `Since` is the clamp.  The client
refetches when it is greeted (`ProjectLive.tsx`: "pages refetch when this
changes").  Changes are numbered apart from events so that "it arrived" has a
meaning across a restart.  An event the client does not follow stands for those
hidden by project, workspace, grant or type.

Left out: presence, heartbeats (but not the point where they yield), the
listeners, and revocation, which ends a stream like a broken connection (`Drop`).

Bounds: streams do not interact, so one client is enough; two publishers race;
three changes against a history of two let one be pushed out; one broken
connection and one restart.

## 6. Versions

The requests hold `project_recompute_lock` from `Editar`, `CreateVersion`,
`PedirRestaurar` or `RemoveVersion` to `Acabar`.  `save_version` reads the index
(`LeerIndice`), writes the version's file (`EscribirVersion`) and rewrites the index
(`EscribirIndice`); the job does the same in `SnapshotBeforeReprocess` without the
lock.  A restore saves the current state first, then replaces the reviews
(`RestaurarRevisiones`) and the parameters (`RestaurarParametros`), and recomputes.
`CortarVersion` stops the process between any two of these.

Abstractions.  The decisions of a project are two files, `reviews.json` and
`costing_overrides.json`; a report is the run and the decisions it was computed
from.  Comparison and export only read, and are left out.

`pisado` is true once an index was written over one that had changed since it was
read, which the job's snapshot can do.  `alterado` is true once the report
changed while the job ran.  The properties except those histories and say so.

## 7. ReviewKeys

A run gives labels to the elements it found (`Lecturas`).  A verdict is filed under
a label and keeps the identity of its element.  `RekeyReviews` moves all verdicts
by `Rekey`: `Destino` is the label a verdict goes to, `Gana` the one that stays
when several meet, `ClaveLibre` the key of an orphan.  Later the run is published
(`PublishReading`) or fails (`LoseReading`), and then the verdicts lie under labels
that no published run has: `VerdictsFollowElements` speaks of the run they were
moved for.  `Rekey` is a function of the number of orphans it has placed: each one
takes a key that is free after those before it.  A drawing has finitely many elements.

Abstractions.  Loading, moving and saving are one step (the race with a verdict
given meanwhile is in `CostingState`).  Two elements never have the same
identity.  What a verdict says is left out.

## 8. SheetFiles

A change of the sheets checks that no job is active (`SinTrabajoActivo`), sets each
replaced sheet aside (`Apartar`), saves the uploads (`SubirRevision`, `SubirNueva`),
ingests, which rewrites the manifest (`Ingerir`), and starts a job (`Reprocesa`).
`Fallar` may come at each of these and undoes: `Deshacer` for POST,
`RestaurarManifiesto` for the manifest.  `PatchProject` writes back the manifest it
read earlier.  The job reads the sheets in `Ingestar`, and saves at its end the
manifest it made at its beginning (`TerminarTrabajo`).

Abstractions.  The content of a sheet is the request that brought it.  Several
files of one sheet, the question about repeated sheets, and creation and deletion
of projects are left out.  A change whose job is refused because the queue is
full stays unread.

`intercalado` (a job began during a change), `encontrados` (two changes met) and
`pisada` (a manifest was written over a newer one) are what the properties except:
the code checks for an active job and for the last sheet before it begins, and
nothing afterwards.

## 9. Accounts

The connection is in autocommit, so that a step is one statement; only
`AcceptInvitation` is a transaction.  A request is its check (`RegisterCheck`,
`CheckChange`, `CheckInvitation`, `OpenInvitation`, `PeekLink`) and later its write
(`CreateUser`, `SetStatusOrRole`, `SupersedeInvitations`, `InsertInvitation`,
`AcceptInvitation`, `VoidLinks`, `InsertLink`, `ConsumeLink`), and may stop between
them (`Interrumpir`).  `cruzada` is true once the administrators changed between a
check and its write: two administrators who disable each other at the same moment
leave a taller without one, which `AdminStays` excepts.

Left out: sessions, passwords, grants, change of address, the audit trail.

## 10. AiReading

`StartAiRead` marks the project in `_RUNNING` (`Admitir`); `Vaciar` empties or
prepares the file; the thread is `Arrancar`, one `LeerHoja` per sheet, and
`Terminar` or `FallarLectura`, and its `finally` is `Soltar`.  `CancelAiRead` sets
the event that is looked at between sheets, `Caer` is a restart, and `Reprocesar`
publishes a run with other sheets.

`Terminar` sorts the readings only in the branch of `run_ai_reading` that asked for a
sheet (`ordena`): a resumption that finds nothing to ask for ends done at once
(`service.py:173`).  Hence `EachSheetOnce` is about which sheets were read, not about
their order: when a restart or a failure cuts a resumption short after its last
sheet, the next one finds nothing to ask for and leaves them in the order of the retries, though
the comment at `service.py:189` wants them "in sheet order".

Abstractions.  Rendering of a sheet and its reading are one step, and what the
model answers is that it answered or failed; tokens and the monthly budget are
left out.  `mezclada` is true once a reading was resumed on the sheets of another
run, whose readings the code counts; `atascada` once a request ended between its
mark and its thread.

## 11. PriceBook, Obra and Programa

`PriceBook`.  A request reads (`LeerLibro`), writes its change in one transaction
(`Cambiar`), and then computes what follows from it: `Calcular` and `Aplicar` are
the two halves of `recompute_basicos`, `Revalidar` gives the verdicts again.  `Cortar`
stops a request in between.  `Rondas` says which básicos are done after each round of
the recomputation, `Ronda` what a round computes, `Resueltos` all of them up to
`MAX_BASICO_DEPTH`, and `Computados` what of that is written: the básicos that were
computed, and no others.  The two loads of the recomputation are one read,
revalidation is one step; percentages of labour and rounding are left out.  Within a
round the code goes in the order of the codes and may do in one what the
model does in several; the model's rounds are those of the order that needs most, and
both do the same wherever the depth is allowed.  `computada` and `revisado` say which
edition prices and verdicts come from.

The assumptions on the constants: a code is of one thing, a matrix that somebody
types has a member (`set_basico_components` refuses an empty one), and the book has
finitely many insumos.  Prices may be zero.

`BasicoIsItsMatrix` and the last part of `UndoIsExact` speak of the básicos that have
all their prices below (`Completos`).  The others keep the price they had, and that
price may come from any recomputation: one that read an older edition, and writes after
a newer one has read and before that one writes, leaves such a básico with a price that
the básico above it was not added up from.  TLC finds this when the condition is dropped and the
book opens with an insumo that has no price; in the run every insumo has one.

`Obra`.  Every book is a file that a request reads (`LeerObra`) and replaces
(`Guardar`) without a lock, from a draft that a clerk had on the screen
(`CrearPrimera`, `CrearSiguiente`, `AbrirEstimacion`, `BorradorDeConvenio`, ...).
Quantities and prices are integers, and amounts are exact: the advance and what is
amortised of it are counted in hundredths, so that no percentage is rounded.  Rounding to
cents, deductions, retention, generadores and price adjustment are left out, and
a draft reads its files in one step.  `encimada` is true once a write was lost or
changed what another estimación had built on.  Sums and lists are the recursive
functions of `Selection`.

`Programa`.  `Colocar` places one activity as `build_schedule` does, with the
relations it writes; `CerrarFase` stretches a structure to one cycle per level and
hangs the next phase off the last activity to end; `Terminar` is `_compute_float`.
Durations are given, and calendar dates are left out.  `NetworkIsKept` excepts one
relation: when a phase begins before the anchor it hangs from, the code writes a
lag of nothing, and the activity begins earlier than its own relation says
(`schedule.py:206`).  The floats are checked where the network is kept.
`FloatsKeepNetwork` asks only what nothing follows to end by the end of the work,
because the code does no more: an activity with followers is bounded by them
alone, and when they are tied from start to start (two trades that share a crew, 7
days and 1 day with the default overlap) the longer one, which ends with the work,
is given two days of float and is not critical.

## 12. Runs

| run | result | shows |
|---|---|---|
| `jobs_warm` | passes | `TypeOK`, `OneRunPerProject`, `BoundedAdmission`, `JobsEnd` |
| `jobs_pair` | passes | `ActiveRunStays`, `ProcessedIsPublished`, `ImplementsProjectRuns` |
| `jobs_cold` | passes | `RunDirsImmutable`, `NoGhostJob` where runs may overlap |
| `costing` | passes | `TypeOK`, `ShownIsCurrent`, `LockedEditsBuildOnSeen`, `LockedReviewsSurvive`, `CallsEnd` |
| `events` | passes | stream: `TypeOK`, `NothingPassedOver`, `FramesInOrder`, `ChangesArrive`; reading: `EachSheetOnce`, `ReadingsKept`, `ReadingEnds` |
| `services` | passes | contract: `MeasuredOnce`, `AdvanceWithinGranted`; price book: `BasicoIsItsMatrix`, `VerdictIsCurrent`, `UndoIsExact`; versions: `RestoringLosesNothing`, `ListIsTrue`, `ReplacedRunIsKept`; sheets: `ChangesAreRead`, `ManifestNamesSheets`, `NeverWithoutSheets`, `FailedChangeIsUndone`; verdicts: `VerdictsSurvive`, `VerdictsFollowElements`; accounts: `AdminStays`, `InvitationsEndOnce`, `LinksWorkOnce`; programme: `NetworkIsKept`, `FloatsKeepNetwork` |
| `jobs_double` | violation | on the first processing of a project, a `get` installs a dead record over an active job and a second run is admitted |
| `jobs_record` | violation | the last write of a job lands over the record of the next |
| `costing_blind_edit` | violation | a catalog change writes old parameters over an edit |
| `costing_lost_review` | violation | the job's rekeying loses a verdict saved meanwhile |
| `costing_shadow` | violation | a report of the older run hides the published one |
| `obra_settlement` | violation | the settlement adds a convenio to an amount that already has it |

Each violation is a disagreement between the code and a comment, docstring or test
of the repository, quoted under `findings` in `PROJECT.json`.  Each property of a
passing run has a mutant, a plausible bug of the code in the form of a variant
operator beside the original, that violates it.  Runs switch deadlock checking off
because a server with nothing to do stops, and so does a model whose bounds are
spent.  Symmetry is used only in runs without liveness, over threads of a kind.

`services` and `events` put components side by side that share no state.  The
variable `part`, chosen at the beginning, says whose behaviour it is, and the
others rest: the states are the sum of the components' and not their product, and
each property is checked in all the behaviours of its component.

Bounds of these two runs, beyond those of sections 3 to 5:

| part | bounds | why they are enough |
|---|---|---|
| `obra` | two concepts (one only by convenio), two clerks, three estimaciones, one convenio, three writes | an estimación that continues one that continues another, across a convenio and past the advance |
| `book` | one simple, two básicos one inside the other, one concept, two editors, two changes | depth two, a cycle to refuse, a change during a recomputation; three changes pass as well (two million states) |
| `versions` | two callers, two versions, one run, one edit, one restart | a restore against a delete against the job |
| `sheets` | three names, two sheets, two requests, changes of up to two files, one job | a rollback after one of two files, against a request and a job; two jobs pass as well |
| `verdicts` | two elements, two labels, three verdicts, three runs | labels that swap, elements that go and come back, orphans that collide |
| `accounts` | two addresses, two requests at a time, five in all, two invitations, two links | every pair of requests, after the requests that set the scene |
| `programme` | three activities of 1, 3 or 7 days, two phases, one shared crew, up to two hard predecessors, a stretch to 15 days | a relation of each kind on one activity, in a stretched phase and after it; four activities of 1 or 7 days with one hard predecessor pass as well (150 558 states) |
| reading | two sheets, two requests, three readings, two runs, one restart | a cancel or a failure in the middle, resumed in another run |

## 13. Fairness

A thread that has begun goes on (`WF` of each request, worker, publisher and
caller).  An idle worker takes what is queued, as the executor promises.  A
process that starts finishes its repair.  For the lock, weak fairness of `Acquire`
is enough because the calls are finitely many, so that a waiting thread is not
overtaken for ever.  The event loop runs a ready stream and a queued callback, and
a browser reconnects and fetches, as `EventSource` and the pages do.  Nothing is
assumed of requests, crashes, failing writes, broken connections or restarts.
The stream's timeout is deliberately not fair: delivery must come from the
wakeup, as the docstring of `events.py` says.  The thread of an AI reading goes
on (`HiloAvanza`): that a call to the provider's client ends, with an answer or an
exception, is an assumption, because the code sets no timeout of its own.

## 14. Proofs

Every theorem holds for all the values of the constants that the named assumptions
of its module allow (`JobStoreAssumption`, `CostingAssumption`, ...): how many
projects, threads, people, files, crashes there are, and every bound.  TLC
evaluates those assumptions in the runs, and it checked the parts of each inductive
invariant below on the instances of the runs.

| module | theorem | states |
|---|---|---|
| `JobStoreProofs` | `TypeCorrect` | `Spec => []TypeOK` |
| | `OneRun` | `Warm /\ Spec => []OneRunPerProject` |
| | `AdmissionIsBounded` | `Warm /\ Spec => []BoundedAdmission` |
| | `RunsStay` | `Warm /\ Spec => []ActiveRunStays /\ []RunDirsImmutable` |
| | `ProcessedMeansPublished` | `Warm /\ Spec => []ProcessedIsPublished` |
| | `SchedulerImplementsPromise` | `Warm /\ Spec => ImplementsProjectRuns` |
| | `NoGhostJobs` | `Spec => []NoGhostJob` |
| `CostingProofs` | `CostingTypes`, `ReadersSeeCurrent` | `Spec => []TypeOK`, `Spec => []ShownIsCurrent` |
| | `LockKeepsEdits` | `Spec => LockedEditsBuildOnSeen /\ LockedReviewsSurvive` |
| | `BookTypes` | `BookSpec => []BookTypeOK` |
| | `EveryBasicoIsItsMatrix`, `VerdictsAreCurrent` | `[]BasicoIsItsMatrix`, `[]VerdictIsCurrent` |
| | `AnUndoIsExact` | `BookSpec => []UndoIsExact` |
| `EventStreamProofs` | `StreamTypes`, `NoChangeIsPassedOver` | `Spec => []TypeOK`, `Spec => []NothingPassedOver` |
| | `FramesComeInOrder` | `Spec => FramesInOrder` |
| `ReviewsProofs` | `VersionsTypes` | `VersionsSpec => []VersionsTypeOK` |
| | `ARestoreLosesNothing`, `TheListIsTrue` | `[]RestoringLosesNothing`, `[]ListIsTrue` |
| | `AReplacedRunIsKept` | `VersionsSpec => ReplacedRunIsKept` |
| | `KeysTypes` | `KeysSpec => []KeysTypeOK` |
| | `VerdictsAreKept`, `VerdictsAreOfTheirElement` | `[]VerdictsSurvive`, `[]VerdictsFollowElements` |
| `AccountsAndSheetsProofs` | `SheetsTypes` | `SheetsSpec => []SheetsTypeOK` |
| | `AProjectKeepsASheet`, `TheManifestNamesTheSheets`, `EveryChangeIsRead` | `[]NeverWithoutSheets`, `[]ManifestNamesSheets`, `[]ChangesAreRead` |
| | `AFailedChangeLeavesTheSheets` | `SheetsSpec => FailedChangeIsUndone` |
| | `AccountsTypes` | `AccountsSpec => []AccountsTypeOK` |
| | `AnAdministratorStays`, `AnInvitationEndsOnce`, `ALinkWorksOnce` | `[]AdminStays`, `[]InvitationsEndOnce`, `[]LinksWorkOnce` |
| `AiReadingProofs` | `AiReadingTypes`, `NoSheetTwice` | `AiSpec => []AiTypeOK`, `AiSpec => []EachSheetOnce` |
| | `WhatWasReadStays` | `AiSpec => ReadingsKept` |
| `ContractProofs` | `ObraTypes` | `ObraSpec => []ObraTypeOK` |
| | `NothingIsMeasuredTwice`, `NoMoreThanAdvanced` | `[]MeasuredOnce`, `[]AdvanceWithinGranted` |
| | `TheNetworkIsKept`, `TheFloatsKeepIt` | `ProgramaSpec => []NetworkIsKept`, `ProgramaSpec => []FloatsKeepNetwork` |

`SelectionProofs` has no theorem of a component: it holds the lemmas on sequences
that the proofs of the other modules rest on.

The proofs have one shape: a type invariant; an inductive invariant as a conjunction
of named parts; one step per action, under it one per part that the action can
disturb; and a last step that combines them.  Where many actions are alike for a
property, a lemma says first what they have in common (`RunSteps`, `Empieza` and
`Avanza`), and the parts are proved of that.

### The scheduler

`OneRunPerProject` is not inductive: it counts threads and queue entries, and says
nothing of the map on which `MayAdmit` decides.  `WarmInv` adds what relates them:

- `Cached`: while the server serves, a project that has a record is in the map, so no
  request is in the middle of loading one;
- `Written`: no record that a thread is about to write is empty;
- `Shown`: a project that a thread or a queue entry works for has an active job in
  the map, which is what `MayAdmit` looks at;
- `Alone`: no two threads or queue entries work for the same project.

The other theorems build on it.  `Bounded` says that the active projects of the map
are at most `Capacity`; since every claim is on an active project (`Shown`) and there
is one per project (`Alone`), claims are bounded.  `RunDirs` says that a
worker writes a directory that is not complete and publishes one that is, and that
the published run is complete and has its directory; retention runs in the worker that
has just published, so that with one run per project it takes no directory that is
about to be published.  `Counted` and `InStep` say that no number is ahead of those
admitted and that what a worker publishes is not older than what is published;
`Truthful` says it of the records that threads have still to write.  The refinement
uses the same three parts, and each action of `JobStore` is a step of
`ProjectRuns` or leaves its variables alone.  `NoGhosts` needs neither `Warm` nor
`WarmInv`: it says which threads will end a job that memory or the record shows
in progress.

`Warm` is a hypothesis because without it the statements are false.  `jobs_double`
shows it of `OneRunPerProject`.  The run `jobs_cold` checks `RunDirsImmutable` in a cold
cache, but with a retention that keeps as many runs as there are jobs, so that nothing
is ever pruned; with a retention of one run and four jobs TLC finds both
`ActiveRunStays` and `RunDirsImmutable` violated there: of two overlapping runs, the
later publishes and prunes the directory that the earlier is still writing.  The code
keeps them by having one run per project, not by retention itself.

### The recompute lock

`SectionInv` says who is in a section (`Shape`) and, for the histories in which nothing
outside the lock has overlapped: that the job and a change of the catalog are alone
(`Serial`), that what each has read is what is stored (`Read`, `Taken`), and that the
report on disk is of the inputs stored or about to be (`Current`).

### The stream

`StreamInv` is the type invariant, the order of the history (`Numbered`), and for each
stream `InStep`: what it has still to send is all that its client follows beyond its
cursor up to the mark captured before draining (`Sending`), and what is behind the
cursor is known or will be fetched (`Behind`).  The proof needs what `since`
returns, exactly the wanted events in their order, which is a lemma about
`Taking`.

### What is taken and sorted

The comprehensions and sorts of the code are recursive functions in `Selection`
(`Joined`, `Taking`, `Sorted`, `Added`), and `SelectionProofs` says by induction what they
return: `WhatIsTaken`, the elements at the wanted places, in their order;
`WhatIsJoined`, the elements of the parts; `WhatIsSorted`, the same elements, and apart
from each other if they were; `SortedOut`, which one is at each place when the keys are
the places; `AddedSteps`, that a sum grows by its last term.

The library's induction theorems take an operator as a parameter and cannot be
used.  The induction here is over a set instead: every non-empty set of naturals
has a least element (`Least`, from the well-foundedness of `<`), so that a set with 0
and the successors of its elements has them all (`UpTo`); the same lemma proves that
the recursive functions exist (`JoinedSteps`).

### The reading

`AiInv` adds to the types that one request is being served, and only while the project is in
`_RUNNING` (`Sola`); that no sheet has two readings (`UnaVez`), since a sheet is
asked for only when it has none; and that the readings are of the sheets of the run that
is read, of all of them once it is done (`DeSuCorrida`).  That a cancelled reading with
as many readings as sheets has them all is a fact about cardinalities
(`HechaConTodas`).

### Versions, sheets and accounts

`Fiel` (`ReviewsProofs`) says that only the holder of the lock is between two steps of a
request (`Solos`), that an identifier is used once and only saved versions are
listed or deleted (`Unicos`), that a saved version keeps its file and its place in the
index (`Guardados`), and that what a restore replaces is what it saved
(`Resguardados`).  `Sucesivas` says that the run of the job comes after the one
shown, and that what the job saves is the report that is shown while nobody changes
it.

`Orden` (`AccountsAndSheetsProofs`) describes, for a single change in progress, which sheets
it has already set aside, saved or undone (`Alternan`, with `CambioEn`), from which
undoing it gives back those it found; `Leidas` and `Nombradas` say when the last job and
the manifest agree with the sheets.  Sequences are given by their sets of elements
where only those matter.

Of the accounts, `Fundada` says that whoever may add an account that is not an
administrator's knows of one that exists, and that a request that disables or demotes
an administrator saw another; `Cumplidas` says that an accepted invitation stands
and made the account of its address, and `Gastados` that a link nobody used counts
no use.

### The keys of the verdicts

That a run loses no verdict is not a fact about one step of `Rekey` but about all of
them: `Mudanza` says, by induction on the orphans placed so far, that there is a
one-to-one map from the new keys to the old ones, that it reaches all of them in the end, and
that a key of the run got the verdict that belongs to it (`Llevan`).  Each step needs a
free key (`SiempreLibre`), which exists because the keys taken are finitely many and the
names an orphan may be given are not.  With it, `Numerados` says that a number is of one
verdict and that those on disk are those that stand, and `EnSuLugar` that they are of their
elements under the labels they were moved for.

### The price book

`RondasSon` and `Resuelto` say that the two recursive functions of the recomputation
exist and what they give: a básico is done only after those below it, and one
that is done and has its prices is the sum of its matrix.  `HaciaArriba` is induction from
the insumos upwards, over the rounds.  From it, `Unicos`: two lists of prices that agree on what
no matrix gives, and add up the same matrices, agree on every básico that has all its
prices below.  So it does not matter which recomputation wrote last, nor what
was stored before.

`BookInv` says that a recomputation in progress that read the last edition holds such a
list (`EnFecha`, `Vale`), although básicos that it did not compute may have changed
since; that the last entry of the journal, when nobody else was changing the book,
differs from it only in what it names, and agrees with it once it is undone
(`Asentados`); and that the prices add up when they come from the last edition
(`Sumados`).  The exactness of an undo is then `Unicos` between the prices of the entry
and the stored ones.  `VerdictIsCurrent` is inductive with the types: `build_apu` resolves the
básicos by their matrices and clears their stored prices first, so that a
verdict depends only on prices that no recomputation writes (`ApuIgual`).

### The contract

`MeasuredOnce` speaks of the books; `ObraInv` adds the screens and the requests between
them: a request that saves an estimación puts the one on the screen, measured, in the list
that it read (`Pedidas`), and while `encimada` is false every estimación, saved
or on a screen, continues the list: it has all the concepts of those before it, with what
they measured and amortised (`EnCadena`, `Sigue`).  That a sorted list with one entry
replaced is the same list elsewhere, and that lists that begin alike add up alike
(`MismoPrincipio`), keep it.  The advance needs a second induction, on the number of
estimaciones: what they amortise up to each one is at most an advance so far, and exactly
the agreed share while the amount stays.

### The programme

`Red` says it of each kind of relation instead of the property's formula: an activity
starts with the earlier one after a lag, or after its end, or hangs from a
phase before with no lag.  `DeSuFase` keeps what is being placed inside its phase.
Stretching maps every day of a phase by one rounded function; `DiasApartados` shows from
the arithmetic of rounding that it brings no day forward and no two days closer together, so
that the relations of the phase still hold (`Estirandose`).  The late dates are a
recursive function from the last activity to the first; that it exists and
that none is before the early one is by induction downwards, and the free floats follow from
what each relation allows (`Libres`).

### Only model-checked

- The liveness properties (`JobsEnd`, `CallsEnd`, `ChangesArrive`, `ReadingEnds`):
  TLAPS does not treat fairness and `ENABLED`.
- The properties of the runs that expect a violation: they are false, and the runs show it.

## 15. Not modelled

Detection, structure, DXF, geometry, unit prices and exports, conversion of drawings
and extraction of text are sequential computations over real-valued data and
free text, where tests against reference drawings say more than a small instance
would.  They are most of the repository's lines; what they do to the shared
state, through the pipeline, is in `CostingState`, `ReviewKeys` and `SheetFiles`.  Their results do not depend on
an order of steps, and a model of them would repeat their tables.

External providers, the web client's views, deployment and scripts have no shared
state of their own.  Registry, tenancy, share links, presence and rate limits are
read-modify-writes under a single lock, which leave nothing to interleave inside one
process.  Of the modelled components, what is left out is said in their sections.

The behaviours of which the code promises nothing are under `hazards` without a
property, each with its reason.
