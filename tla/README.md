# A verification project for paper-pipeline

paper-pipeline keeps a library of papers on disk, converts their PDFs, renders
their pages, runs LLM recipes over them and shows all of it in a local web
interface. This directory holds TLA+ models of the program, TLC configurations
that check them on small instances, and TLAPS proofs of what holds for every
instance. Paths below are relative to `src/src/paper_pipeline/` unless they
start with `src/`.

    tlc -config MCJobQueue_queue.cfg MCJobQueue.tla
    tlapm JobQueueProofs.tla

`PROJECT.json` lists the components, the runs, the source lines each definition
models, the hazards of the code with the properties that watch them, and the
theorems.

## 1. The system

One process, one asyncio event loop. Request handlers and job workers are
coroutines on it; blocking work goes to threads or to child processes. What
must survive the process is in the library directory: `papers/<citekey>/` with
`paper.json` and the artifacts, and `.pp/` with attempt markers, recipe runs
and caches. The interface talks to `services/`, which enqueue jobs; jobs get a
session that reads and writes the library.

| Component | State it keeps | Operations | Hard part |
|---|---|---|---|
| Job queue (`jobs/queue.py`) | jobs, tasks, tokens, lanes, permits, barriers | enqueue (4 scopes), cancel, retry, wait, shutdown | tasks cancelled at any suspension, writer preference, commit against cancel, forced shutdown |
| Attempt recovery (`jobs/recovery.py`) | marker files | create, remove, scan, acknowledge | crash between record and marker |
| Library runtime (`services/runtime.py`) | sessions, registry, interrupted attempts | enqueue_*, recovery callbacks, open, shutdown | who may write when, stale sessions |
| Processing (`services/processing.py`) | `_ConversionState` per job | queue_conversion, queue_page_render, queue_recipes, retry_job, cancel_job | artifacts before record, retries that share state |
| Recipe runs (`services/recipe_batches.py`, `recipes/batch_store.py`) | `.pp/recipe-runs/<id>/` | queue, resume, retry, cancel, finalize, clean up, prune | paid calls that are not idempotent, crash anywhere, copies of durable state |
| Batch provider (`recipes/openai_provider.py`) | remote files and Batches | upload, create, retrieve, cancel, download, delete, list | answers that are lost |
| Paper storage (`library/storage.py`) | `papers/` | read, write, install artifact, transcription bundle, pages bundle | several renames, rollback in memory |
| Catalog (`services/library_catalog.py`) | snapshot, generation, fingerprint, cache | replace, replace_if_generation, upsert, is_stale, refresh | rescans against writers |
| Event bus (`jobs/events.py`, `web/events.py`) | a bounded queue per subscriber | publish, subscribe, close | dropped events |
| Pages (`web/ui.py`, `web/jobs_ui.py`, `web/templates/`, `web/static/`) | the selected library, results of validations; in a browser: what is shown, requests under way | open a library, render, cancel, validate | events, answers and buttons that overtake each other |
| Isolated processes (`_isolated_process.py`, runners) | a child and a pipe | run with timeout and cancellation | result, exit, deadline and cancellation race |
| Remote converter (`convert/remote.py`) | a directory on another host | upload, run, download, clean up | one deadline for everything |
| Imports (`services/import_ops.py`, `ingest/plan.py`) | a preview | plan, apply | previews that are stale when applied |
| Validation (`library/validation.py`) | none | validate_library | reads beside jobs that are suspended half-way |
| Indexes, queries, command line | none | | |

How they interact. Services create a job by handing the queue a worker and,
for conversions and renders, recovery hooks: a marker target, a validation of
the result and a callback that writes the outcome into `paper.json`. The queue
calls the worker with the lane, the permit and the barrier held, and the
callback when it ends. Recipe coordinators are jobs without a lane: they
enqueue paper jobs and wait for them. The catalog is updated by every write of
a record. The event bus carries progress from the queue to browsers. A new
process reads the markers (interrupted attempts) and the recipe runs (resumed
coordinators).

What makes each component correct:

- Job queue: jobs that could touch the same files exclude each other; every
  counter comes back; a cancellation that was accepted is not followed by a
  success, nor a commit by a cancellation; nobody waits for ever; shutdown ends.
- Recovery: after a crash exactly the attempts without outcome are offered.
- Recipe runs: a run is paid for once; results that were paid for are
  installed; what a run has stored stays; provider files are not lost.
- Storage: a reader sees an old bundle or a new one; a record never names bytes
  that are not there without being called stale.
- Catalog: a rescan never replaces a newer record; the snapshot equals the disk
  once nobody writes.
- Event bus and pages: a slow subscriber loses old events only; a page that has
  heard of the last change shows it; a validation gets its result.
- Isolated processes: one of result, exit, deadline, cancellation decides, and
  afterwards no child is alive and nothing writes to its directory.
- Remote converter: whatever fails, the host is left without worker and files.
- Imports: a plan is applied to the record it was made for; applying it again
  after a crash ends in the same library.
- Validation: it blames nothing a job is still working on or has left whole, and
  what it finds in order is what the record says of the current source.

## 2. Modules

| Module | Lines | Models |
|---|---|---|
| `JobTypes` | 86 | definitions, states and conflicts of jobs |
| `JobSystem` | 75 | what the queue promises: a job is queued, runs beside jobs it does not conflict with, ends once |
| `JobQueue` | 793 | `jobs/queue.py`, `jobs/recovery.py` and the hooks of `services/runtime.py`; shown to implement `JobSystem` |
| `MCJobQueue` | 69 | instances of it |
| `JobQueueProofs` | 2700 | theorems about it |
| `RecipeRun` | 824 | `services/recipe_batches.py` with the run directory and the provider |
| `MCRecipeRun` | 17 | instances of it |
| `RecipeRunProofs` | 2568 | theorems about it |
| `RecipeBatchProofs` | 2855 | more theorems about it: paid results, Batches, files |
| `PaperLife` | 600 | one paper: `library/storage.py`, the workers of `services/processing.py`, `services/import_ops.py`, `ingest/plan.py`, the paper jobs of `services/recipe_batches.py` |
| `PaperLifeProofs` | 2624 | theorems about it and about `Validation` |
| `Validation` | 101 | `library/validation.py` over a paper of `PaperLife` |
| `MCPaperLife` | 15 | instances of both |
| `IsolatedProcess` | 231 | `_isolated_process.py`, `convert/runner.py`, `pages/runner.py` |
| `RemoteConverter` | 283 | `convert/remote.py` as the backend of an `IsolatedProcess`, and the host it works on |
| `AttemptProofs` | 594 | theorems about both |
| `Catalog` | 246 | `services/library_catalog.py` and the writes of `services/runtime.py` |
| `MCCatalog` | 7 | instances of it |
| `CatalogProofs` | 431 | theorems about it |
| `EventFeed` | 57 | what the event bus promises: the newest events, in order |
| `EventBus` | 96 | `jobs/events.py`; shown to implement `EventFeed` |
| `EventBusProofs` | 439 | theorems about it |
| `LivePage` | 345 | `web/events.py`, the jobs page, job strip and validation panel with their routes, templates and scripts, over `EventBus` |
| `MCLivePage` | 12 | an instance of it |
| `LivePageProofs` | 653 | theorems about it |

Plan for what follows, in this order:

1. `PapersPage`: the rows of the table of papers, whose refreshes share one
   request (section 10), and the forms of the import page with the previews the
   server keeps.
2. A theorem for the safe part of `AttemptReturns`, as `NoCircularWait` is for
   `JobsSettle` and `BatchesInReach` for `BroughtHome`: which step of an attempt
   comes next.

Every invariant and every action property that a passing run checks is a theorem.
What TLC alone checks are the liveness properties: `JobsSettle`,
`ShutdownCompletes`, `BroughtHome`, `AttemptReturns`, `WorkerStops` and
`PanelAnswered`. They need fairness and so ENABLED, which the provers here
cannot reason about.

Composition: `RemoteConverter` and `Validation` extend the modules whose state
they share, `LivePage` extends `EventBus`. `JobQueue` is composed with `JobSystem`
and `EventBus` with `EventFeed` by refinement.

## 3. The job queue

**State.** `def`, `state` are `_definitions` and `Job.state`. `pc` is where
`_run` stands, `stack` the `async with` contexts it has entered, `ending` how
its worker ended. `token`, `committed` are the CancellationToken, `kill` is a
`task.cancel()` not delivered yet. `laneOwner`, `slots`, `papers`, `readers`,
`writing`, `waiting` are the locks, semaphores and barrier fields of the same
names. `marker`, `lastAttempt`, `provenance`, `artifact` are on disk.

**Atomicity.** A coroutine keeps the event loop until it suspends. `loop` names
the task inside such a section; requests are taken between sections only; a
crash may fall inside one, between two durable writes. Which waiting task is
resumed first is left open: asyncio's order of arrival is one of the choices,
so what is proved does not rest on it.

**Actions.** `Enqueue`, `Retry`, `RetryInterrupted`, `UserCancel`, `Spawn`
(a coordinator enqueues a paper job and waits) are requests. `Acquire` takes
lane, slot and barrier in the order of `_run`; the worker runs (`StartWorker`,
`CommitWork`, `ReturnWork`, `FailWork`, `StopWork`), is judged (`Judge`),
leaves its contexts one by one (`Release`) and finishes (`Record`, `Settle`,
`FinishFails`). `Shutdown` to `Stopped` are the steps of `shutdown()`.
`Restart` is a crash, or the end of the process, and the scan of the next one.

**Workers** are abstracted to how they commit: not at all, without
`begin_commit`, directly after it, or with a suspension after it.

| Run | Instance | Shows |
|---|---|---|
| `queue` | 3 jobs, 2 libraries, 2 papers, failing records, a restart | exclusion, exact counters, cancel or commit, what a job that ended and a restart leave on disk, `JobSystem` |
| `live` | papers and writers with retries; a coordinator, its paper job and a writer; two of these and shutdown | everyone ends; `shutdown()` returns |

One behaviour of `queue` is one of five scenarios (the CONSTRAINT
`SafetyScenario` of `MCJobQueue`): three paper jobs, readers and writers of one
library, with shutdown; attempts at two slots of one paper with a crash
anywhere; two jobs of one lane, one that suspends after its commit or has a
kill hook, with both; two conversions, or three renders, over two libraries,
for the permits. Locks are per lane or per library and permits per
kind, so a scenario holds what its jobs can contend for.

**Bounds.** Three jobs are a holder, a waiter and a third that overtakes; a
conflict is between two and a counter that is off by one shows with two. Jobs,
libraries and papers are unbounded in the proofs. Job identities are used once
and not reused within a process, so a run ends when they are spent; that is why
deadlock is not checked. `LiveScenario` uses identities in their order and each
job of the coordinator's scenarios once; requests and shutdown are under no
fairness, so leaving some out leaves only behaviours in which nobody asks.
`MaxRestarts` is one: a crash forgets all memory, and what the next process
does with the markers is one step.

**Fairness.** `LoopFairness`: the event loop resumes every task that can go on
and delivers every cancellation, which asyncio does. `FairSpec` adds that
`shutdown()` goes on and that a coordinator ends, whose waits are cut because
its children are. `JobsSettle` assumes in its statement that workers end
(`WorkersEnd`): child processes and SSH commands run under timeouts
(`convert/runner.py`, `pages/runner.py`), provider requests have deadlines.
`ShutdownCompletes` does not assume it.

**Proved** in `JobQueueProofs`, for any finite set of jobs, any libraries,
papers and definitions, from the assumptions of `JobTypes` (definitions typed,
`NoJob` not a job, jobs finite, who installs artifacts) and `RestartsNat`:

| Theorem | Statement |
|---|---|
| `TypeCorrect` | `Spec => []TypeOK`; no counter and no number of permits is negative |
| `Balanced` | `Spec => []ContextsBalanced` |
| `Exclusion` | `Spec => []NoConflictRuns` |
| `CancelExcludesCommit` | `Spec => []CancelOrCommit` |
| `NoCircularWait` | `Spec => []WaitsEnd`: no cycle of waits |
| `NoLateStart` | `Spec => NoStartWhileDraining` |
| `EndingsOnDisk` | `Spec => EndsRecorded` |
| `InterruptionsExact` | `Spec => InterruptedIffUnrecorded`, if markers can be written |
| `Implementation` | `Spec => Promise!Spec`, the refinement |

TypeOK is not inductive: that a counter stays natural needs that who leaves has
entered. The invariant is built in layers, each proved with the ones below it.
`Value` types every variable, with the counters only integers. `Shape` says
what each task has on its stack at each place of `_run` (`Fits`), so that a
task that runs its worker holds everything its definition asks for. `Balance`
equates counters, flags and owners with the cardinality of their holders, from
a lemma on how one changed stack changes the set of holders (`HoldersMoved`).
`Inductive` is their conjunction. Exclusion follows because two conflicting
tasks that both hold their contexts contradict the balance (`FullExcludes`).
For the commit a further invariant says which tokens may be committed at which
place; for the refinement another says that a queued job has not entered its
worker and that a marker belongs to a job that ran.

`EndsRecorded` speaks of one step, but that the slot then has the job's own
bytes is a matter of its whole life: `Attempted` says, by the place of the task,
what `paper.json`, the artifact and the marker are, and that nobody overwrites
the bytes of a worker that suspended after its commit follows from `Exclusion`.
This needs that everybody who installs is a paper job or a library writer
(`InstallersHold`): a session of `enqueue_library_read` is not writable
(`services/runtime.py:304`) and a coordinator has none. `TrackedInstall` says
that jobs with recovery hooks are conversions and renders, the only callers of
`enqueue_paper` that pass any. `InterruptionsExact` adds that an attempt without
outcome has its marker (`Marked`), which is false where `create` may fail; a
marker that cannot be removed the property leaves out (`Leftover`, section 10).

`WaitsEnd` is what `JobsSettle` needs beside fairness: whoever cannot go on
waits for a task at a later stage, where the stages are a coordinator that waits
for its child, lane, slot, barrier, announced writer, worker. So every chain of
waits ends, in every library, at a task that can go on. It is
checked by no run; the theorem covers every instance.

Only model-checked: `JobsSettle` and `ShutdownCompletes`.

## 4. Recipe runs

**State.** `manifest`, `disk`, `pruned` are the run directory: `manifest.json`
(the requests), `state.json`, and whether its payload was pruned. `record` is
which run's output `paper.json` holds for a request. `batches` and `files` are
at the provider. Per job: the run it coordinates (`run`), its `target_keys`
(empty for a recovered coordinator), its token, where it is (`pc`), its copy of
`state.json` (`mem`), `cancellation_sent`, the paper its finalizer works on and
the files its cleanup has still to delete (`todo`). `shared` is history: runs
that two live coordinators of one process had at once. `erased` is history too:
runs that their user cancelled and that shutdown cut while they were submitted
or reconciled, whose directory then says cancelled and does not tell of a Batch.

**Actions.** One for each stretch of the coordinator between two suspensions
(`Start`, `Snapshot`, `Upload`, `UploadFile`, `Attempt`, `Create`, `Created`,
`Poll`, `Retrieve`, `Collect`, `Finalize`, `Finalized`, `Wake`, `Delete`,
`Conclude`); a section with two durable effects is split where a crash between
them shows (`Create`/`Created`: the Batch and its ID; `Finalize`/`Finalized`:
`paper.json` and `state.json`). A coordinator reads `state.json` where the code
does (`disk`) and uses its own copy where the code does (`mem`), so a copy that
is stale is written back stale. `Fail` is every exception the code does not
catch, `Stopped` the two loops that look at their token. `Retry`, `Resume`,
`PruneOld`, `Cancel`, `Shutdown`, `Restart` come from outside. `Cut` is the
forced phase of shutdown: `task.cancel()` raises in whatever a coordinator
awaits (`jobs/queue.py:432`), while the thread of a provider call goes on or
never starts. `CutCreate` leaves a Batch or none, `CutDelete` a file or none,
`CutEnd` the run's payload or none, `CutWait` is every other await. `Stop` is
what the worker makes of a CancelledError, from a cut as from its own loops:
it records `cancelled` if a user had cancelled it and it was not recovered
(`Marks`). `Cut` may happen at any time after `Shutdown`: the grace period has
no length in the model.

**Abstractions.** Paper jobs are places where the coordinator waits; their
lanes are `JobQueue`'s subject. The phases validating, in_progress and
finalizing are one. A Batch ends at any time with results for any subset of its
requests and one result file or none. An upload and the write of its ID are one
step: a crash or cut in between leaves a file that expires by itself. Listing sees all
Batches (the code asks for the last 100).

| Run | Instance | Shows |
|---|---|---|
| `runs` | 1 run, 2 jobs, 2 papers, every fault, cancel, retry, shutdown with cuts, a restart | submitted once, installed is recorded, progress is kept, file IDs are remembered |
| `targets` | 2 runs, 2 overlapping requests, ambiguous creates, failing installations, retry, a restart | no request in two Batches under way, paid results are dealt with |
| `home` | ambiguous creates, 2 restarts, fairness | an accepted Batch is brought home |
| `resubmitted`, `dropped` | smallest instance that shows it | section 10 |

`Faults` and `Clicks` say which calls may fail and what users do. Four of the
properties hold only where something is left out: `DisjointBatches` while
nobody cancels and `PaidResultsKept` without shutdown (with them they fail:
section 10), so `targets` has neither; `SubmittedOnce` but for runs in `erased`,
which may be submitted again (`resubmitted`); `FilesRemembered` but for a crash
or a cut in the middle of the deletions, of which its comment says what is kept.
`SubmittedOnce`, `ProgressKept`, `PaidResultsKept`, `DisjointBatches` and
`FilesRemembered` leave out runs that two coordinators of one process shared
(section 10): each of the two works on its own copy of the state.

**Bounds.** `MaxFiles` covers the uploads, the request file and the results of
`MaxBatches` Batches, so it stops nothing but a third submission. Two jobs are
a coordinator and its retry, two papers an upload loop and a finalizer loop
that can be left in the middle, two runs a run and its replacement. One restart
is a crash at any point and a recovery; `home` has two, a crash of a recovery.

**Fairness** (`home`): coordinators go on, Batches end (the provider's window
is 24 hours, `recipes/openai_provider.py:131`), and whoever opens the library
again resumes unfinished runs (`web/ui.py:109`): nothing in the program does it
by itself. Users do not cancel in this run; `MaxRestarts` makes crashes stop.

**Proved** in `RecipeRunProofs` and `RecipeBatchProofs`, for any runs, jobs,
requests, faults and clicks and any bounds, from `NoneIsNone`, `PapersOfRequests`
and `BoundsNat`:

| Theorem | Statement |
|---|---|
| `TypeCorrect` | `Spec => []TypeOK` |
| `NeverTwice` | `Spec => []SubmittedOnce`, which leaves out runs in `shared` or `erased` |
| `RecordsKept` | `Spec => []InstalledRecorded` |
| `NothingLost` | `Spec => ProgressKept` |
| `PaidForKept` | `Spec => []PaidResultsKept`, if nobody shuts the program down |
| `NeverPaidTwice` | `Spec => []DisjointBatches`, if nobody cancels |
| `NoFileForgotten` | `Spec => FilesRemembered` |
| `BatchesInReach` | `Spec => []AcceptedFound`: a Batch can be found from its run's directory, unless the run is in `shared` or `erased` |

`SubmittedOnce` is not inductive: it says nothing of the time between the Batch
and the write of its ID. `Inv` adds, for each run (`RunFits`), that a Batch at
the provider is foretold by the directory, which has its ID or an input file
with the phase attempted or uncertain (`Submitted`); and for each job
(`JobFits`), by the place where it stands, what its copy holds (`CopyFits`) and,
where it has the run to itself (`Owns`), that the copy has everything the
directory has and that no Batch exists before `Create`. Two jobs of one run live
one after the other unless the run is in `shared` (`Apart`). That a step of one
coordinator keeps all of this for every other run and job is one lemma
(`OthersKeep`), so each action is shown for its own run only. `Sound` is the
part about records: a result in `finalized` that is ok is in `paper.json`, for
every copy of the state, stale ones included. `NothingLost` follows in a second
pass over the actions: what a coordinator writes comes from the directory, or
from a copy that has everything the directory has.

`Inv` follows one run; the other four theorems relate runs, and a run to the
provider's files. For them `More` is a second invariant on top of it. `RunMore`
and `JobMore` say, by the place of the coordinator, that outcomes are of the
run's own requests and its Batch its own, that it cleans up only with every
result there and dealt with (`ResultsHeld`), and that files on record are in
the copy or among those it is deleting (`FilesHeld`). `ClaimsApart` says that
no two runs lay claim to one request, from the moment a coordinator is enqueued
with its targets, before there is a manifest, until the results are collected:
this is what the refusal of `_reject_duplicate_targets` rests on, which looks at
manifests and live jobs. `Owned` says that an input file was uploaded by one run,
so that reconciling by it cannot adopt another run's Batch. The steps of a
coordinator are summarised by what they leave behind (`Leaves`), so that each
action is looked at once for all parts of `More`; a cut is summarised in the
same way, except that files may be dropped from its run's list (`Lands`). A run
gets into `erased` only after a user cancelled it, so that while nobody cancels
it is empty and `ClaimsApart` can rely on the directory.

The two hypotheses are on `Clicks` and name what breaks the property: a
cancelled run gives its claim up while its Batch may still be under way, and
shutdown between two finalizers ends the run early (run `dropped`). Everything
else, faults, retries, restarts, for `PaidForKept` cancellations and for
`NeverPaidTwice` shutdown with its cuts, is allowed.
The runs check these properties on instances with two jobs, where a run that two
coordinators share has nobody left to disturb; the proofs have any number.

`BroughtHome` is only model-checked. The safe part of it is `BatchesInReach`:
whenever a coordinator is started again for a run with a Batch, the directory
has the Batch's ID, or has the phase for which `NextPlace` goes to `Reconcile`
and an input file that exactly this Batch was made from, so that the list of the
provider's Batches has one match. To `Inv` and `More` it adds `InputsMatch`: a
Batch was made from the input file on record. It rests on `Owns`, by which a
coordinator has on disk the input file it submits, and on `NextKept`, by which
that file stays on record.

## 5. The life of a paper

**State.** `paper` is `paper.json`: whose metadata it has, the hash of its
source, and for transcription, pages and the recipe's output what each was made
of and its own hash. A hash is the content itself, so two things are equal
exactly when their bytes are. `file` are the sources (named by their hash, so
`file[s]` is what is found under the name of `s`), `art` the installed
artifacts, figures apart from the transcription they belong to. `runs` are the
requests of recipe runs for this paper: the hash in the manifest and the bytes
that were sent. `plans` are previews that may be applied, now, later or again
(a failed import job can be retried). `job` is the one job that holds the
paper's lane, which `JobQueue` shows to be one; of its memory it keeps what the
workers keep: the copy made before a conversion, what was staged, the backup,
the copy of the record a finalizer writes back. `torn`, `late` and `cut` are
history, used by properties and by no guard.

**Actions.** A conversion or render is `StartMaking` (copy and hash), `Make` or
`MakeFails` in the child, one `BackUp` and `Place` per target in the order of
`install_transcription_bundle`, then `RecordMade` or `RecordFails`. Where a
rename raises, the rollback is `Withdraw`, `PutBack` per target and
`RolledBack`, and may raise itself (`UndoFails`). An import is `Preview` at one
time and `StartImport`, `Copied`, `CreateRecord`, `InstallSource`,
`RecordSource` at another, or `Refresh`. A recipe's input is hashed and copied
by two threads (`HashInput`, `CopyInput`); its answer is installed or dropped
after another hash (`InstallAnswer`, `SkipAnswer`), and recorded in two files
(`WriteAnswer`, `SettleRun`). `Crash` may fall between any two of these; so may
`SpoilSource` and `SpoilPart`, another program that changes or deletes a file.

| Run | Instance | Shows |
|---|---|---|
| `paper` | 3 exports of 2 sources, 2 previews kept, page renders, a recipe over the PDF that overwrites, failing imports, a crash | sources are replaced only as previewed, cut imports can be applied again, what is recorded is fresh, what counts as done is so, validation blames no job that is under way |
| `answers` | conversions with 2 outcomes, one with figures, a recipe over the transcription, failing installations, rollbacks and records, 2 crashes or foreign changes | what counts as done was made from the current source; failed reruns leave the older bundle; what is recorded is fresh; a paper without a complaint is sound |

`DoneIsTrue` is the reason for all the hashing: the selection of pending work
(`pending_conversion_citekeys` and its like) trusts the record and the hash of
one file, and the property follows the content back to the bytes of the source.
`OlderKept` leaves out what a crash or a foreign hand touched last (`torn`) and
what a job installed before it failed (`late`): both really happen (section
10). `RecordedIsFresh` leaves out a recipe whose transcription was so
touched: its input is then not what the record says, and its answer is recorded
as stale, which is right.

**Bounds.** Two previews let one be applied under the other; three exports give
each action of a plan (addition, refresh, replacement) a successor of each
kind. Two contents a conversion may return are a rerun that changes the text
and one that does not. `MaxUpsets` is one crash in `paper`; two in `answers`,
so that a file is changed before or after a crash. One recipe is enough: each
has its own output and reads one input. Everybody may rest between two jobs, so
no state is a deadlock.

**Validation** (`library/validation.py`) is a read job, which `JobQueue` lets run
beside paper jobs. It does not suspend itself, so it sees a paper exactly where
its job has suspended (`Suspended`). `Problems` are what it finds in each
phase, `Report` the status of the phases. `ValidationTrusted` states what its
complaints are worth: all but staleness are about something a crash or another
program touched last (`torn`) or a job installed before it failed (`late`), so
no complaint is about work under way. `CleanIsTrue` states what its silence is
worth, and follows the content back to the source as `DoneIsTrue` does, but
from the report of a validation rather than from a selection: it looks at the
files themselves and so holds of damaged ones too. Neither speaks of figures,
which have no hash (section 10).

No liveness is claimed: whether a paper is ever converted is up to its users.

**Proved** in `PaperLifeProofs`, for any exports, sources, runs, kinds of recipe
and number of upsets, from the assumptions of `PaperLife`, of which `KindsDiffer`
says that contents, their absence, records and the names of outputs are kept
apart, as a PDF, a text, `None` and the name of a field are in the code:

| Theorem | Statement |
|---|---|
| `TypesOK` | `Spec => []TypeOK` |
| `ReplacedOnlyAsPreviewed` | `Spec => PreviewedOnly` |
| `CutImportsResumable` | `Spec => []Resumable` |
| `RecordsFresh` | `Spec => RecordedIsFresh` |
| `DoneAlwaysTrue` | `Spec => []DoneIsTrue` |
| `OlderBundlesKept` | `Spec => []OlderKept` |
| `ErrorsTrusted` | `Spec => []ValidationTrusted` |
| `CleanReportsTrue` | `Spec => []CleanIsTrue` |

All rest on one invariant, `IInv` (`Invariance`). Between two jobs it says what
one expects: a file named by a hash has those bytes or was spoilt (`BytesTrue`),
the record names outputs made of what it says (`ProvenanceTrue`), what was sent
to the provider is what was hashed (`RequestsTrue`), and the bundle on disk is
the recorded one but where a foreign hand, a crash or a late failure was
(`OlderHeld`, `SourceHeld`). The work is in what holds within a job. `JobHolds`
says for each place of the job which of its copies are still those of the
record, because it has the lane; what is staged and what was made of it; and for
an import how the record, the source file and the plan relate at each step, so
that a crash there leaves a library in which applying the plan again ends the
same. `Behind` is the invariant of an installation under way: each part of the
older bundle is in the backup, or not replaced yet, or there was none, in the
middle of a rollback too. The theorems on validation need no more than that,
since it runs at the places where a job suspends.

## 6. One attempt, here and on another host

**State.** Of the parent: where `run_in_fresh_process` stands, what it received
(`got`), why it terminates the tree (`fate`), what the runner returned
(`outcome`). Of the child: `"spawned"` until `setsid`, running, its message
sent, dead; and whether a process it started runs (`helper`, the ssh client).
`pipe` and `staging` are between them. `RemoteConverter` adds the backend:
`phase` is where `convert` stands, the finally block included (`terminate`,
`cleanup`), `cmds` are commands that were sent and not carried out, and of the
host the attempt's directory, the shell of `execute` statement by statement
(`shell`), its worker and the pid file. `untidy`, `unnamed`, `crashed` and
`ungrouped` are history that only properties read.

**Actions.** One for each look of `_wait_for_child`: the pipe, the process, the
token, the clock. They are separate because the child goes on in between: a
child that sends and exits after the pipe was polled is the reason for the
second poll. `SignalGroup` and `Reap` are `_terminate_process_tree`. A client
of a phase begins (`Begin`), comes back (`Succeeds`, `Executed`, `Downloaded`),
fails or is killed by its own timeout (`Lost`), or may not begin any more
(`TooLate`). The host carries out a command before, after or without its
client's coming back; when the client of `execute` is gone, it hangs the
terminal up at any later step of the script (`HangUp`).

A backend `"here"` (marker, pdfium) stages files and answers as it likes, and
may start processes too. Time is what may happen: a deadline passes at any
moment, the child's own not before the parent's, which was set first. Windows
is left out.

| Run | Instance | Shows |
|---|---|---|
| `attempt` | a backend here, one there; every failure of child, client and host | the runner returns, with the child gone and the staging directory its own; no answer is lost; a cancelled attempt takes its clients along; no worker goes on and no directory stays on the host, but for what the properties name |

**Bounds.** There are none but one attempt: attempts share nothing, each has a
child, a staging directory and a remote directory of its own.

**Fairness.** The parent's thread goes on, the clock does, and sshd hangs up the
terminal of a client that is gone, which the comment at `convert/remote.py:424`
counts on. The child, the client and the network owe nothing: `AttemptReturns`
and `WorkerStops` hold against a child that hangs. That SIGKILL kills is part
of `SignalGroup` and `Reap`.

`WorkerStops` and `DirectoryRemoved` exclude in their statement what is not so:
a child that crashes leaves its client and worker running; one that is killed
in another phase than execute leaves the directory; a hang-up between
`setsid worker &` and `pid=$!` finds no pid; a script that lost its client but
ends by itself may have made its directory again after it was removed.

**Proved** in `AttemptProofs`, for backends here and there, from `BackendsKnown`:

| Theorem | Statement |
|---|---|
| `StagingHandedOver` | `Spec => []StagingOwned` |
| `AnswerNotLost` | `Spec => []AnswerKept` |
| `TreeTerminated` | `Spec => []GroupGone` |
| `RunDirectoryRemoved` | `Spec => []DirectoryRemoved` |

The parent alone decides how an attempt ends. Whatever the child, its backend,
the host and the clock do is a step `Works` allows: nobody but a running child
stages files, sends or starts a process, and a child that is gone stays gone.
What the parent has seen therefore stays true until it acts: an empty pipe that
could be read is one whose writer is gone (`Exhausted`), a group that was there
when it was signalled has nobody left (`Swiped`), the tree is terminated for a
reason (`Reasoned`) and the outcome is decided once (`Undecided`).

For the directory the invariant follows the commands instead (`HostInv`). The
answer is the last thing the child sends (`AnsweredLast`), so the cleanup has
come back by then; no command that makes the directory is still on its way
(`Prepared`), so what remains is the script: once the cleanup is done the
directory is gone, or a script that will remove it is still at its worker
(`CleanedAway`), which needs that `execute` is sent once (`ExecutedOnce`) and
that a worker has its script (`Parented`). Only model-checked are
`AttemptReturns` and `WorkerStops`, as they need fairness.

## 7. The catalog

**State.** `disk` is `paper.json` of each paper, `view` what the snapshot has of
it, `fingerprint` its row in `_fingerprint`; `writing` is `write_record` between
the write of the file and the update of the catalog, during which the event
loop is held and other programs are not; `refresh` is per page a run of
`refresh_catalog`, with the generation it expects and the records it read.
`own` and `missed` are history.

**Actions.** `WriteRecord` and `Upsert` or `UpsertFails`; `Ask`, `Scan`, and
`Replace`, `Again` or `GiveUp`, three attempts at most; `Elsewhere`, another program;
`IsStale` and the interval it keeps. Whether writers and the scan wait for each
other is `JobQueue`'s subject and not assumed: a scan may fall between any two
writes.

| Run | Instance | Shows |
|---|---|---|
| `catalog` | 2 papers, 2 pages that refresh, 3 changes, failing updates | what the program wrote is shown and not taken back, no page goes back to an older record, a page that differs from the disk can be told |

**Bounds.** `MaxWrites` is one more than the changes: three let one paper be
changed twice while the other is changed, and use up the attempts of a
refresh together with the other page. `MaxGeneration` stops refreshes that
would only repeat.

`ChangesSeen` leaves out a change between the reading of a record and the stat
of its file (`missed`): `_install` takes the fingerprint from the disk as it is
then (`services/library_catalog.py:164`), so a change by another program while
a refresh ends is neither shown nor warned of until the next refresh.

**Proved** in `CatalogProofs`, for any papers, any number of refreshes at once
and any bounds, from `BoundsNat` and `NoPaperFresh`:

| Theorem | Statement |
|---|---|
| `TypeCorrect` | `Spec => []TypeOK`; no refresh makes a fourth attempt |
| `WritesStay` | `Spec => []OwnWritesShown` |
| `DifferencesSeen` | `Spec => []ChangesSeen` |
| `NeverOlder` | `Spec => ViewNeverOlder` |

None of the three is inductive, since each depends on what a rescan under way
may still install. `RescansFit` says it: a rescan with the current generation
holds records between those shown and those on disk, and has every record the
program wrote and has shown. `WriteUnderWay` covers the time between the file
and the update, in which the catalog does not know it is outdated; `Matches`
says that the fingerprint is of what is shown wherever nothing was missed;
`Counted` that generations only grow and numbers are of changes made. Nothing
about the catalog is left to the run alone but that its actions can all happen.

## 8. Events and the pages that follow them

**State.** `EventBus`: `sequence`, the subscriptions that are open, and each
one's bounded queue, which gives up its oldest event when a newer one comes.
`LivePage` adds what the queue says of each job (`state`), the library selected
for the web interface (`selected`, `WebContext.runtime`), the results of
validations the server still has (`runs`, `validation_runs`), and per browser
tab a record: the page, the library it was rendered for and the one its event
stream keeps, what its region shows, the request under way and whether another
one is owed (`again`), and for the library page the panel, the posted form and
the validations known to be over. `concern` and `heard` are history: the event
from which on a page has heard of everything that changed what it shows.

**Actions.** `Announce` is `_publish_state` or `publish_progress` with the
change it tells, in one section of the event loop. `Render`, `Connect` and
`Disconnect` are a document and the life of its event stream; events between
the two are missed. `Deliver` is one event as `event_stream` sends or drops it
and as the page takes it: the list aborts a request under way, the strip waits
for it (`Refreshed`). `Answer` and `Swap` are the server's and the browser's end
of a request, `PressCancel` and `AnswerCancel` those of a button, which shares
the list's request (`hx-sync` is inherited) and whose answer is the list.
`PressLog` and `ShowLog` are View log, which shares the request as well and
brings a text for a place of its own. `Validate`, `ShowPanel` and `ShowResult` are the form, its
answer in the page, and the fetch of the result. `Select` is another library
opened by any tab.

| Run | Instance | Shows |
|---|---|---|
| `updates` | 2 libraries with a job and a validation, one tab on any page, buffers of 2 events | the newest events are kept; a page that has heard shows the jobs as they are; a validation's panel gets its result |

`CurrentWhenHeard` does not promise that a page hears: the stream may break or
miss an event, and View log may abort the request that an event has caused
(section 10); the tab is then out of `heard` until the next event. It says that nothing else keeps a page from being
right. The mutant `RefreshedUnlessBusy` is the common way to get this wrong.

**Bounds.** Tabs do not interact but through the selected library and the jobs,
which the instance lets change at any time; tabs, jobs, libraries and `Size`
are unbounded in the proofs. With eight events of two jobs a buffer of two
overflows, with one event left that concerns the page and with none. Jobs are
not created anew, so a behaviour may end: deadlock is not checked.

**Fairness.** `Deliver`, because `event_stream` sends each event it gets
(`web/events.py:40`); `ShowPanel` and `ShowResult`, because the server answers
and the browser takes the answer. Jobs, users and connections owe nothing: the
consequence of `PanelAnswered` leaves out events that are lost with them and
results the server has let go.

**Proved**, for any tabs, jobs, libraries and sizes, from `SizeAssumption` and
`PageAssumption`:

| Theorem | Statement |
|---|---|
| `BusNewestKept` | `BusSpec => []NewestKept` |
| `BusImplementsFeed` | `BusSpec => ImplementsFeed`, the refinement of `EventFeed` |
| `PagesUseBus` | `Spec => BusSpec`: the pages use the bus only by its operations |
| `StreamNewest` | `Spec => []NewestKept`, from the two before |
| `PageCurrent` | `Spec => []CurrentWhenHeard` |

For the refinement `owed` is the set of numbers in a queue: the invariant that
a queue is an unbroken run up to the newest event makes its head the least
number owed and its overflow the one that `Size` newer ones have followed. A
closed queue may be read still, so the invariant of its numbers has two halves.
For `PageCurrent` the invariant says of a tab that has heard what each phase of
its request allows: an answer that is on its way holds the jobs as they are, or
another request is owed; without a request the page is current. `AnnounceKeeps`
shows that a change nobody has been told of yet takes the tab out of `heard`.
`PanelAnswered` is a liveness property and only model-checked; that the bus
implements the feed is only proved.

## 9. What is not modelled

Section 2 lists what is planned. Left out for good: the RDF parser, the marker
and pdfium adapters, recipe parsing, index and page formatting, prices,
configuration, the command line. They keep no state between calls; what they
compute is data, for tests.

In modelled components: progress texts, logs, meta fields no decision reads;
marker files that are corrupt; a library
whose `library.json` or directories are damaged, on which validation stops; run directories that are unreadable; OSError
while pruning; users cancelling the internal paper jobs of a coordinator.

## 10. What the code does not do as documented

Each of these is a run that TLC finds violated by the code as it is; the
finding in `PROJECT.json` quotes the sentence.

- `resubmitted`: shutdown cuts a coordinator whose user has cancelled it, in
  `create_batch`. The directory says `cancelled`, without the ID of the Batch
  that the provider may have accepted (`services/recipe_batches.py:182`). The
  run has files to delete, is resumed for them (`:241`) by the ordinary
  coordinator, which does not reconcile a run with that phase (`:543`), and is
  submitted a second time. ADR-0009 says that no replacement is submitted when
  acceptance is uncertain.
- `dropped`: shutdown between two finalizers ends a run with collected results
  not installed; no restart resumes it (`services/recipe_batches.py:349`).

Seen while modelling, without a run:

- An attempt cancelled while its child starts up, before `setsid`: the group
  cannot be signalled, and after five seconds the child is killed without the
  ssh client it has started since (`_isolated_process.py:248`, against the
  comment at `convert/remote.py:424`). `GroupGone` leaves this out.
- A cancelled run with provider files left to delete is resumed as if it had not
  been cancelled: it goes on to submit, or to install results it had collected
  (`services/recipe_batches.py:241`).
- View log inherits the `hx-sync` of the list it is in: pressed while the list is
  fetched after an event, it aborts that request and brings no list, and the
  page shows the old state until the next event
  (`web/templates/_job_row.html:25`, `web/templates/jobs.html:26`).
- After a reconnect, or between a page and its subscription, an event is
  missed; the page says that live updates are connected and shows the old
  state until the next event. Overflow keeps the newest events of all kinds
  and libraries, so the last one a page needs may be among those pushed out
  (`jobs/events.py:68`). The stream keeps the library of its connection while
  `/jobs/list` answers for the selected one (`web/events.py:22`).
- A validation that is over is forgotten when the next one starts
  (`web/ui.py:125`): a panel whose result was not fetched by then gets a 404 and
  waits for ever, and so does one after another library was opened. A result
  replaces whatever panel is there, also that of a newer validation.
- Refreshes of the rows of the table of papers share one request of the
  document with the queueing "last" (`web/static/papers.js`): of three papers
  that end close together the middle one keeps its old row.
- Opening another library by an import preview does not resume recipe runs
  (`web/ui.py:190`), as opening it does (`web/ui.py:109`); and the preview is
  stored under the library that is selected once the plan is made
  (`web/ui.py:196`), which may be another than the plan was made for.
- Figures have no hash, so no validation sees one that is damaged. The advice to
  run a recipe or conversion again does nothing where the record is fresh and
  only the file is gone: the web interface selects missing work by the
  catalog, and a finalizer that does not overwrite skips such an output.
- Retrying a cancelled Batch job a second time, while its replacement is under
  way, submits the same requests again: the refusal "already in flight" is
  swallowed (`services/processing.py:474`). Retrying a failed one twice makes
  two coordinators of one run, and both may submit it.
- A crash, or a forced shutdown, between two deletions of the cleanup loses the IDs of the files not
  deleted yet (`services/recipe_batches.py:1174`).
- When the provider refuses a cancellation the job is cancelled and its run is
  not (`services/recipe_batches.py:725`, against the comment of
  `_finish_cancelled`).
- A finalizer ignores its own token (`services/recipe_batches.py:978`). Run
  directories without a manifest are never listed and so never discarded
  (`recipes/batch_store.py:78`). Retrying a Batch job that failed before its
  manifest was written raises FileNotFoundError, which `web/jobs_ui.py` does
  not catch.
- A crash while a rerun that gave the same text is being installed loses the
  figures, and validation finds no error: it knows the hash of the
  transcription only (`library/storage.py:254`).
- A rerun whose validation or record raises has overwritten the older artifact
  before (`services/processing.py:138`). The paper is pending again, while the
  catalog, by which `queue_configured_processing` selects, has it as done until
  it is refreshed.
- The deadline of a remote conversion is later than that of its runner: at a
  timeout the child is killed before its finally block, and the remote
  directory stays unless the child was in execute (`convert/remote.py:267`).
- The forced phase of shutdown reports a worker that suspends after
  `begin_commit` as cancelled (`jobs/queue.py:430`, against its comment; no
  worker of the program suspends there). `JobQueue.wait` suppresses the
  caller's CancelledError with that of the task it waits for
  (`jobs/queue.py:327`).
- An attempt whose marker could not be removed is shown as interrupted after a
  restart if a newer attempt at the same slot was recorded
  (`jobs/recovery.py:211`).
