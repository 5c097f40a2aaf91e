----------------------------- MODULE RecipeRun -----------------------------
(***************************************************************************)
(* Durable recipe runs: services/recipe_batches.py with the run directory  *)
(* of recipes/batch_store.py, the Batch provider as the coordinator uses   *)
(* it, and the retry and cancel requests of services/processing.py.        *)
(*                                                                         *)
(* A run is a directory that outlives the process.  A coordinator is a     *)
(* remote-scope job that works on a copy of the run's state and writes it  *)
(* back as a whole.  An action is what a coordinator does between two      *)
(* suspensions, one half of it where a crash in between would show.  Paper *)
(* jobs of the coordinator (snapshot and finalize) appear as places where  *)
(* it waits; lanes and barriers are the subject of JobQueue.               *)
(***************************************************************************)
EXTENDS Naturals, FiniteSets, Sequences

CONSTANTS
  Run,          \* run IDs
  Job,          \* jobs that may coordinate
  Request,      \* targets: a paper and a recipe
  Paper,
  PaperOf,      \* the paper of a request
  Pdf,          \* papers whose input is uploaded as a file of its own
  Overwrite,    \* requests that replace a fresh output
  NoRun,
  NoPaper,
  Faults,       \* the calls that may fail in this instance
  Clicks,       \* what users do in this instance
  MaxFiles,     \* bounds: files and batches at the provider, restarts
  MaxBatches,
  MaxRestarts

ASSUME NoneIsNone == NoRun \notin Run /\ NoPaper \notin Paper

ASSUME PapersOfRequests == PaperOf \in [Request -> Paper] /\ Pdf \subseteq Paper

ASSUME BoundsNat == MaxFiles \in Nat /\ MaxBatches \in Nat /\ MaxRestarts \in Nat

VARIABLES
  (* Run directories *)
  manifest,     \* requests of manifest.json, {} before it is written
  disk,         \* state.json
  pruned,       \* runs whose snapshots and results were discarded
  (* The library *)
  record,       \* the run whose output paper.json records for a request
  (* The provider *)
  batches,      \* Batches in the order of their creation
  files,        \* files it stores
  created,      \* number of files ever created
  (* The process *)
  state,        \* of each coordinator's job
  run,          \* the run it works on
  targets,      \* meta.target_keys, {} for a recovered job
  token,        \* reason of its cancellation token
  pc,           \* where it is
  mem,          \* its copy of the run's state
  sent,         \* cancellation_sent
  paper,        \* the paper its finalizer works on
  todo,         \* files _cleanup_remote has still to delete
  closing,      \* shutdown was requested
  restarts,
  (* History, read by no action *)
  shared,       \* runs two live coordinators worked on at once
  erased        \* runs whose directory no longer tells that they were submitted

dirVars  == <<manifest, disk, pruned>>
remVars  == <<batches, files, created>>
jobVars  == <<run, targets, mem, sent, paper, todo>>
envVars  == <<closing, restarts, shared, erased>>
vars == <<dirVars, record, remVars, state, token, pc, jobVars, envVars>>

Finished == {"completed", "partial", "failed", "cancelled"}

RunPhase == {"planning", "snapshotting", "uploading", "ready", "attempted",
             "in_progress", "collecting", "installing", "cleaning_up",
             "uncertain"} \cup Finished

JobEnd == {"succeeded", "failed", "partial", "cancelled"}

Place == {"none", "queued", "snapshot", "reconcile", "upload", "file", "ready",
          "create", "accepted", "poll", "retrieve", "collect", "child",
          "recorded", "wake", "broken", "cleanup", "abandon", "done"}

File == 1..MaxFiles

RunState == [phase     : RunPhase,
             uploads   : SUBSET Paper,
             input     : File \cup {0},
             batch     : 0..MaxBatches,
             outcomes  : [Request -> {"none", "ok", "failed"}],
             finalized : SUBSET Request,
             cleanup   : SUBSET File]

NewState == [phase     |-> "planning",
             uploads   |-> {},
             input     |-> 0,
             batch     |-> 0,
             outcomes  |-> [q \in Request |-> "none"],
             finalized |-> {},
             cleanup   |-> {}]

Batch == [run : Run, input : File, requests : SUBSET Request, ended : BOOLEAN,
          ok : SUBSET Request, output : File \cup {0}]

TypeOK ==
  /\ manifest \in [Run -> SUBSET Request]
  /\ disk \in [Run -> RunState]
  /\ pruned \subseteq Run
  /\ record \in [Request -> Run \cup {NoRun}]
  /\ batches \in Seq(Batch) /\ Len(batches) <= MaxBatches
  /\ files \subseteq File /\ created \in 0..MaxFiles
  /\ state \in [Job -> {"absent", "queued", "running"} \cup JobEnd]
  /\ run \in [Job -> Run \cup {NoRun}]
  /\ targets \in [Job -> SUBSET Request]
  /\ token \in [Job -> {"clear", "user", "shutdown"}]
  /\ pc \in [Job -> Place]
  /\ mem \in [Job -> RunState]
  /\ sent \in [Job -> BOOLEAN]
  /\ paper \in [Job -> Paper \cup {NoPaper}]
  /\ todo \in [Job -> SUBSET File]
  /\ closing \in BOOLEAN /\ restarts \in 0..MaxRestarts
  /\ shared \subseteq Run /\ erased \subseteq Run

Init ==
  /\ manifest = [r \in Run |-> {}]
  /\ disk = [r \in Run |-> NewState]
  /\ pruned = {}
  /\ record = [q \in Request |-> NoRun]
  /\ batches = <<>>
  /\ files = {}
  /\ created = 0
  /\ state = [j \in Job |-> "absent"]
  /\ run = [j \in Job |-> NoRun]
  /\ targets = [j \in Job |-> {}]
  /\ token = [j \in Job |-> "clear"]
  /\ pc = [j \in Job |-> "none"]
  /\ mem = [j \in Job |-> NewState]
  /\ sent = [j \in Job |-> FALSE]
  /\ paper = [j \in Job |-> NoPaper]
  /\ todo = [j \in Job |-> {}]
  /\ closing = FALSE
  /\ restarts = 0
  /\ shared = {}
  /\ erased = {}

-----------------------------------------------------------------------------
(* Requests: a new run, retry, reopening the library, cancel. *)

Live == {j \in Job : state[j] \in {"queued", "running"}}

\* list_run_ids: directories that have their manifest.
Stored == {r \in Run : manifest[r] # {}}

\* Mutant: only jobs of this process are asked.
InFlight_Jobs(Q) == \E j \in Live : targets[j] \cap Q # {}

\* _reject_duplicate_targets
InFlight(Q) ==
  \/ \E j \in Live : targets[j] \cap Q # {}
  \/ \E r \in Stored : disk[r].phase \notin Finished /\ manifest[r] \cap Q # {}

\* enqueue_remote of a coordinator for run r.
Enqueue(j, r, Q) ==
  /\ ~closing
  /\ state[j] = "absent"
  /\ state' = [state EXCEPT ![j] = "queued"]
  /\ pc' = [pc EXCEPT ![j] = "queued"]
  /\ run' = [run EXCEPT ![j] = r]
  /\ targets' = [targets EXCEPT ![j] = Q]
  /\ shared' = IF \E i \in Live : run[i] = r THEN shared \cup {r} ELSE shared
  /\ UNCHANGED <<manifest, pruned, record, remVars, token, mem, sent, paper,
                 todo, closing, restarts, erased>>

\* _queue_recipe_targets: a fresh directory and its coordinator.  A directory
\* without manifest that no job knows is as good as fresh.
QueueRun(j, Q) ==
  /\ ~InFlight(Q)
  /\ \E r \in Run \ Stored :
       /\ \A i \in Job : run[i] # r
       /\ Enqueue(j, r, Q)
       /\ disk' = [disk EXCEPT ![r] = NewState]

\* What a run has not installed.
Failed(r) ==
  {q \in manifest[r] : q \notin disk[r].finalized \/ disk[r].outcomes[q] # "ok"}

\* retry_failed_recipe_batch: a new run for what failed in a finished one ...
RetryFailed(j, k) ==
  LET r == run[j] IN
  /\ disk[r].phase \in Finished
  /\ Failed(r) # {}
  /\ QueueRun(k, Failed(r))

\* ... and, when it refuses, another coordinator of the same run.
RetrySame(j, k) ==
  LET r == run[j] IN
  /\ disk[r].phase \in Finished => Failed(r) = {} \/ InFlight(Failed(r))
  /\ Enqueue(k, r, targets[j])
  /\ UNCHANGED disk

\* retry_job.  A run that has no manifest makes it raise.
Retry(j, k) ==
  /\ "retry" \in Clicks
  /\ state[j] \in {"failed", "partial", "cancelled"}
  /\ run[j] \in Stored
  /\ RetryFailed(j, k) \/ RetrySame(j, k)

\* Nobody in this process works on run r.
Idle(r) == r \in Stored /\ \A j \in Live : run[j] # r

\* Mutant: runs that a failed submission left behind are not picked up.
Resumable_Certain(r) ==
  Idle(r) /\ disk[r].phase \notin Finished \cup {"uncertain"}

\* The library is opened, again or after a restart.
Resumable(r) ==
  Idle(r) /\ (disk[r].phase \notin Finished \/ disk[r].cleanup # {})

\* resume_recipe_runs: a run goes on where its directory stands ...
Resume(j, r) ==
  /\ Resumable(r)
  /\ Enqueue(j, r, {})
  /\ UNCHANGED disk

\* _prune_local_payload
Prunable(r, m) ==
  /\ m.phase \in Finished
  /\ m.cleanup = {}
  /\ m.phase = "cancelled" \/ manifest[r] \subseteq m.finalized

\* ... or is over, and its working files go.
PruneOld(r) ==
  /\ Idle(r) /\ ~Resumable(r) /\ ~closing
  /\ Prunable(r, disk[r])
  /\ pruned' = pruned \cup {r}
  /\ UNCHANGED <<manifest, disk, record, remVars, state, token, pc, jobVars,
                 envVars>>

\* JobQueue.cancel: a queued coordinator never runs, a running one is told.
Signal(j, reason) ==
  IF state[j] = "queued" THEN [state |-> "cancelled", token |-> reason, pc |-> "done"]
  ELSE [state |-> state[j], token |-> reason, pc |-> pc[j]]

Told(S, reason) ==
  LET T == {j \in S \cap Live : token[j] = "clear"} IN
  /\ state' = [j \in Job |-> IF j \in T THEN Signal(j, reason).state ELSE state[j]]
  /\ token' = [j \in Job |-> IF j \in T THEN reason ELSE token[j]]
  /\ pc' = [j \in Job |-> IF j \in T THEN Signal(j, reason).pc ELSE pc[j]]
  /\ UNCHANGED <<dirVars, record, remVars, jobVars, restarts, shared, erased>>

Cancel(j) ==
  /\ "cancel" \in Clicks
  /\ j \in Live /\ token[j] = "clear"
  /\ Told({j}, "user")
  /\ UNCHANGED closing

\* JobQueue.shutdown signals every job and accepts no more.
Shutdown ==
  /\ "shutdown" \in Clicks
  /\ ~closing
  /\ closing' = TRUE
  /\ Told(Job, "shutdown")

\* The process ends, by a crash anywhere or after shutdown.
Restart ==
  /\ restarts < MaxRestarts
  /\ restarts' = restarts + 1
  /\ closing' = FALSE
  /\ state' = [j \in Job |-> "absent"]
  /\ run' = [j \in Job |-> NoRun]
  /\ targets' = [j \in Job |-> {}]
  /\ token' = [j \in Job |-> "clear"]
  /\ pc' = [j \in Job |-> "none"]
  /\ mem' = [j \in Job |-> NewState]
  /\ sent' = [j \in Job |-> FALSE]
  /\ paper' = [j \in Job |-> NoPaper]
  /\ todo' = [j \in Job |-> {}]
  /\ UNCHANGED <<dirVars, record, remVars, shared, erased>>

-----------------------------------------------------------------------------
(* How a coordinator goes on and how it ends. *)

\* It writes m and goes on to a place.
Goto(j, m, place) ==
  /\ disk' = [disk EXCEPT ![run[j]] = m]
  /\ mem' = [mem EXCEPT ![j] = m]
  /\ pc' = [pc EXCEPT ![j] = place]

\* It ends in state s; its copy of the run's state is gone.
End(j, s) ==
  /\ state' = [state EXCEPT ![j] = s]
  /\ pc' = [pc EXCEPT ![j] = "done"]
  /\ mem' = [mem EXCEPT ![j] = NewState]
  /\ sent' = [sent EXCEPT ![j] = FALSE]
  /\ paper' = [paper EXCEPT ![j] = NoPaper]
  /\ todo' = [todo EXCEPT ![j] = {}]

\* Mutant: the reason of the token is taken for the state.
Verdict_Reason(j, s) == IF token[j] = "clear" THEN s ELSE token[j]

\* A signalled job that returns or fails is cancelled.
Verdict(j, s) == IF token[j] = "clear" THEN s ELSE "cancelled"

\* It raises; only the error message of the run changes.
Throw(j) == End(j, Verdict(j, "failed")) /\ UNCHANGED disk

\* Mutant: the phase is written to a blank state instead of the stored one.
Stop_Blank(j) ==
  /\ End(j, "cancelled")
  /\ disk' = IF token[j] = "user" /\ targets[j] # {}
               THEN [disk EXCEPT ![run[j]] = [NewState EXCEPT !.phase = "cancelled"]]
               ELSE disk

\* A coordinator that a user cancelled and that was not recovered turns a
\* CancelledError into the run's phase.
Marks(j) == token[j] = "user" /\ targets[j] # {}

\* It raises CancelledError, or is cut by the forced phase of shutdown, where
\* the directory holds m.
StopWith(j, m) ==
  /\ End(j, "cancelled")
  /\ disk' = [disk EXCEPT ![run[j]] =
                 IF Marks(j) THEN [m EXCEPT !.phase = "cancelled"] ELSE m]

Stop(j) == StopWith(j, disk[run[j]])

\* Papers of requests Q whose file is not uploaded yet, and papers with results that
\* are not finalized yet.
ToUpload(Q, m) == ({PaperOf[q] : q \in Q} \cap Pdf) \ m.uploads

ToFinalize(r, m) == {PaperOf[q] : q \in manifest[r] \ m.finalized}

-----------------------------------------------------------------------------
(* _prepare_manifest and _submit_and_collect *)

\* Mutant: an interrupted submission is taken for one that never happened.
NextPlace_NoReconcile(Q, m) ==
  CASE m.batch # 0 -> "poll"
    [] m.batch = 0 /\ m.input = 0 -> IF ToUpload(Q, m) # {} THEN "upload" ELSE "file"
    [] OTHER -> "ready"

\* What _submit_and_collect does next for requests Q in state m.
NextPlace(Q, m) ==
  CASE m.batch # 0 -> "poll"
    [] m.batch = 0 /\ m.input = 0 -> IF ToUpload(Q, m) # {} THEN "upload" ELSE "file"
    [] OTHER -> IF m.phase \in {"attempted", "uncertain"} THEN "reconcile" ELSE "ready"

Submit(j, Q, m) ==
  LET place == NextPlace(Q, m) IN
  Goto(j, IF place \in {"upload", "file"} THEN [m EXCEPT !.phase = "uploading"] ELSE m,
       place)

\* _cleanup_remote: the file IDs stay in state.json until the first deletion.
CleanUp(j, m, place) ==
  LET c == [m EXCEPT !.phase = "cleaning_up"] IN
  /\ disk' = [disk EXCEPT ![run[j]] = c]
  /\ mem' = [mem EXCEPT ![j] = [c EXCEPT !.cleanup = {}]]
  /\ todo' = [todo EXCEPT ![j] = m.cleanup]
  /\ pc' = [pc EXCEPT ![j] = place]
  /\ paper' = [paper EXCEPT ![j] = NoPaper]

\* _finalize_results asks for a job on one paper after the other.
Install(j, m) ==
  \E p \in ToFinalize(run[j], m) :
    /\ Goto(j, [m EXCEPT !.phase = "installing"], "child")
    /\ paper' = [paper EXCEPT ![j] = p]
    /\ UNCHANGED todo

\* state.outcomes is not empty.
Collected(m) == \E q \in Request : m.outcomes[q] # "none"

\* What the steps of a coordinator leave alone.
Elsewhere == <<run, targets, token, envVars>>

\* _run_coordinator begins: a fresh run takes its snapshots, one with a
\* manifest goes on after its last durable step.
Start(j) ==
  LET r == run[j]
      m == disk[r] IN
  /\ pc[j] = "queued"
  /\ state' = [state EXCEPT ![j] = "running"]
  /\ \/ /\ manifest[r] = {}
        /\ Goto(j, [m EXCEPT !.phase = "snapshotting"], "snapshot")
        /\ UNCHANGED <<paper, todo>>
     \/ /\ manifest[r] # {}
        /\ ~Collected(m)
        /\ Submit(j, manifest[r], m)
        /\ UNCHANGED <<paper, todo>>
     \/ /\ Collected(m)
        /\ IF ToFinalize(r, m) # {} THEN Install(j, m) ELSE CleanUp(j, m, "cleanup")
  /\ UNCHANGED <<manifest, pruned, record, remVars, sent, Elsewhere>>

\* Every paper is snapshotted and the manifest written.
Snapshot(j) ==
  /\ pc[j] = "snapshot"
  /\ manifest' = [manifest EXCEPT ![run[j]] = targets[j]]
  /\ Submit(j, targets[j], disk[run[j]])
  /\ UNCHANGED <<pruned, record, remVars, state, sent, paper, todo, Elsewhere>>

\* The two loops that look at the token themselves: over papers to snapshot,
\* and over files to upload.
Stopped(j) ==
  /\ token[j] # "clear"
  /\ \/ pc[j] = "upload"
     \/ pc[j] = "snapshot" /\ Cardinality({PaperOf[q] : q \in targets[j]}) > 1
  /\ Stop(j)
  /\ UNCHANGED <<manifest, pruned, record, remVars, Elsewhere>>

\* The provider stores another file.
Store == created < MaxFiles /\ created' = created + 1 /\ files' = files \cup {created + 1}

Upload(j) ==
  /\ pc[j] = "upload"
  /\ token[j] = "clear"
  /\ run[j] \notin pruned
  /\ Store
  /\ \E p \in ToUpload(manifest[run[j]], mem[j]) :
       Submit(j, manifest[run[j]],
              [mem[j] EXCEPT !.uploads = @ \cup {p}, !.cleanup = @ \cup {created + 1}])
  /\ UNCHANGED <<manifest, pruned, record, batches, state, sent, paper, todo, Elsewhere>>

\* The request file is uploaded: submission ready.
UploadFile(j) ==
  /\ pc[j] = "file"
  /\ run[j] \notin pruned
  /\ Store
  /\ Goto(j, [mem[j] EXCEPT !.input = created + 1, !.cleanup = @ \cup {created + 1},
                            !.phase = "ready"], "ready")
  /\ UNCHANGED <<manifest, pruned, record, batches, state, sent, paper, todo, Elsewhere>>

\* The intent is made durable before the call.
Attempt(j) ==
  /\ pc[j] = "ready"
  /\ Goto(j, [mem[j] EXCEPT !.phase = "attempted"], "create")
  /\ UNCHANGED <<manifest, pruned, record, remVars, state, sent, paper, todo, Elsewhere>>

\* The provider accepts a Batch.
Accept(j) ==
  /\ Len(batches) < MaxBatches
  /\ batches' = Append(batches, [run |-> run[j], input |-> mem[j].input,
                                 requests |-> manifest[run[j]], ended |-> FALSE,
                                 ok |-> {}, output |-> 0])

\* create_batch returns ...
Create(j) ==
  /\ pc[j] = "create"
  /\ Accept(j)
  /\ mem' = [mem EXCEPT ![j].batch = Len(batches) + 1]
  /\ pc' = [pc EXCEPT ![j] = "accepted"]
  /\ UNCHANGED <<dirVars, record, files, created, state, sent, paper, todo, Elsewhere>>

\* ... and its answer is made durable; or it raises, accepted or not.
Created(j) ==
  /\ pc[j] = "accepted"
  /\ Goto(j, mem[j], "poll")
  /\ UNCHANGED <<manifest, pruned, record, remVars, state, sent, paper, todo, Elsewhere>>

CreateFails(j) ==
  /\ pc[j] = "create"
  /\ "create" \in Faults
  /\ Accept(j) \/ UNCHANGED batches
  /\ disk' = [disk EXCEPT ![run[j]] = [mem[j] EXCEPT !.phase = "uncertain"]]
  /\ End(j, Verdict(j, "failed"))
  /\ UNCHANGED <<manifest, pruned, record, files, created, Elsewhere>>

\* An attempted submission is reconciled by its input file.
Reconcile(j) ==
  LET matches == {b \in DOMAIN batches : batches[b].input = mem[j].input} IN
  /\ pc[j] = "reconcile"
  /\ IF Cardinality(matches) = 1
       THEN /\ Goto(j, [mem[j] EXCEPT !.batch = CHOOSE b \in matches : TRUE], "poll")
            /\ UNCHANGED <<state, sent, paper, todo>>
       ELSE /\ disk' = [disk EXCEPT ![run[j]] = [mem[j] EXCEPT !.phase = "uncertain"]]
            /\ End(j, Verdict(j, "failed"))
  /\ UNCHANGED <<manifest, pruned, record, remVars, Elsewhere>>

\* The head of the polling loop: shutdown detaches, a user's cancellation is
\* sent once.
Poll(j) ==
  /\ pc[j] = "poll"
  /\ IF token[j] = "shutdown"
       THEN End(j, "cancelled")
       ELSE /\ pc' = [pc EXCEPT ![j] = "retrieve"]
            /\ sent' = [sent EXCEPT ![j] = token[j] = "user"]
            /\ UNCHANGED <<state, mem, paper, todo>>
  /\ UNCHANGED <<dirVars, record, remVars, Elsewhere>>

\* retrieve_batch: the loop ends when the Batch has; a failure is tried again.
Retrieve(j) ==
  /\ pc[j] = "retrieve"
  /\ \/ /\ batches[mem[j].batch].ended
        /\ Goto(j, [mem[j] EXCEPT !.phase = "collecting"], "collect")
     \/ /\ ~batches[mem[j].batch].ended
        /\ Goto(j, [mem[j] EXCEPT !.phase = "in_progress"], "poll")
     \/ /\ "retrieve" \in Faults
        /\ Goto(j, mem[j], "poll")
  /\ UNCHANGED <<manifest, pruned, record, remVars, state, sent, paper, todo, Elsewhere>>

\* Results are downloaded and every request gets an outcome; then the
\* coordinator detaches, gives up or installs.
Collect(j) ==
  LET b == batches[mem[j].batch]
      r == run[j]
      m == [mem[j] EXCEPT
              !.outcomes = [q \in Request |-> IF q \notin manifest[r] THEN "none"
                                              ELSE IF q \in b.ok THEN "ok" ELSE "failed"],
              !.cleanup = @ \cup ({b.output} \ {0})] IN
  /\ pc[j] = "collect"
  /\ CASE token[j] = "shutdown" -> End(j, "cancelled") /\ disk' = [disk EXCEPT ![r] = m]
       [] token[j] = "user"     -> CleanUp(j, m, "abandon") /\ UNCHANGED <<state, sent>>
       [] OTHER                 -> Install(j, m) /\ UNCHANGED <<state, sent>>
  /\ UNCHANGED <<manifest, pruned, record, remVars, Elsewhere>>

-----------------------------------------------------------------------------
(* _finalize_results, _cleanup_remote and the end of a run *)

\* Results that are done with: all but those a local error kept out.
Settles(result) == result # "local"

\* How the finalizer may deal with request q: a failure is recorded, a result
\* whose input changed is rejected, one whose output is fresh may be skipped,
\* and the others are installed unless that fails.
Dealings(j, q) ==
  IF mem[j].outcomes[q] = "failed" THEN {"failed"}
  ELSE {x \in {"stale", "skipped", "installed", "local"} :
          CASE x = "stale"     -> "stale" \in Faults
            [] x = "skipped"   -> q \notin Overwrite /\ record[q] # NoRun
            [] x = "installed" -> run[j] \notin pruned
            [] OTHER           -> "install" \in Faults \/ run[j] \in pruned}

\* The job on one paper, up to the write of paper.json.
Finalize(j) ==
  LET S == {q \in manifest[run[j]] \ mem[j].finalized : PaperOf[q] = paper[j]} IN
  /\ pc[j] = "child"
  /\ \E deal \in [S -> {"failed", "stale", "skipped", "installed", "local"}] :
       /\ \A q \in S : deal[q] \in Dealings(j, q)
       /\ mem' = [mem EXCEPT
            ![j].finalized = @ \cup {q \in S : Settles(deal[q])},
            ![j].outcomes = [q \in Request |->
               IF q \in S /\ deal[q] = "stale" THEN "failed" ELSE @[q]]]
       /\ record' = [q \in Request |->
            IF q \in S /\ deal[q] = "installed" THEN run[j] ELSE record[q]]
  /\ pc' = [pc EXCEPT ![j] = "recorded"]
  /\ UNCHANGED <<dirVars, remVars, state, sent, paper, todo, Elsewhere>>

\* Mutant: nobody looks at what is left.
Pending_None(j) == FALSE

\* pending_local: results of its paper that it could not deal with.
Pending(j) == paper[j] \in ToFinalize(run[j], mem[j])

\* It writes state.json.  It is a failure when a result is left, and cancelled
\* when shutdown has signalled it.
Finalized(j) ==
  /\ pc[j] = "recorded"
  /\ Goto(j, mem[j], IF Pending(j) \/ closing THEN "broken" ELSE "wake")
  /\ UNCHANGED <<manifest, pruned, record, remVars, state, sent, paper, todo, Elsewhere>>

\* The coordinator goes on: the next paper, or the end; a token ends the loop.
Wake(j) ==
  LET left == ToFinalize(run[j], mem[j]) \ {paper[j]} IN
  /\ pc[j] = "wake"
  /\ IF token[j] = "clear" /\ left # {}
       THEN /\ \E p \in left : paper' = [paper EXCEPT ![j] = p]
            /\ pc' = [pc EXCEPT ![j] = "child"]
            /\ UNCHANGED <<disk, mem, todo>>
       ELSE CleanUp(j, disk[run[j]],
                    IF token[j] = "user" THEN "abandon" ELSE "cleanup")
  /\ UNCHANGED <<manifest, pruned, record, remVars, state, sent, Elsewhere>>

\* Mutant: a file that could not be deleted is given up.
Postponed_Never(m, f) == m

\* A file that could not be deleted is kept for later.
Postponed(m, f) == [m EXCEPT !.cleanup = @ \cup {f}]

\* One file is deleted, or not.
Delete(j) ==
  /\ pc[j] \in {"cleanup", "abandon"}
  /\ \E f \in todo[j] :
       /\ todo' = [todo EXCEPT ![j] = @ \ {f}]
       /\ \/ /\ files' = files \ {f}
             /\ Goto(j, mem[j], pc[j])
          \/ /\ "delete" \in Faults
             /\ UNCHANGED files
             /\ Goto(j, Postponed(mem[j], f), pc[j])
  /\ UNCHANGED <<manifest, pruned, record, batches, created, state, sent, paper, Elsewhere>>

\* Mutant: a run is judged by what the provider returned.
Installed_Returned(r) == {q \in manifest[r] : disk[r].outcomes[q] = "ok"}

\* The successes of a run.
Installed(r) == {q \in manifest[r] : disk[r].outcomes[q] = "ok" /\ q \in disk[r].finalized}

Phase(r, place) ==
  CASE place = "abandon"                  -> "cancelled"
    [] place = "cleanup" /\ manifest[r] \subseteq Installed(r) -> "completed"
    [] OTHER -> IF Installed(r) # {} THEN "partial" ELSE "failed"

\* The run takes its last phase and the coordinator ends.
Conclude(j) ==
  LET r == run[j]
      m == [disk[r] EXCEPT !.phase = Phase(r, pc[j])] IN
  /\ pc[j] \in {"cleanup", "abandon"}
  /\ todo[j] = {}
  /\ disk' = [disk EXCEPT ![r] = m]
  /\ pruned' = IF Prunable(r, m) THEN pruned \cup {r} ELSE pruned
  /\ End(j, CASE m.phase = "partial"   -> "partial"
              [] m.phase = "completed" -> Verdict(j, "succeeded")
              [] OTHER                 -> Verdict(j, "failed"))
  /\ UNCHANGED <<manifest, record, remVars, Elsewhere>>

\* The call a coordinator is suspended in raises, or the paper job it waits
\* for does not succeed: because of its token or of a shutdown, or by a fault.
Raises(j) ==
  \/ pc[j] = "snapshot" /\ (token[j] # "clear" \/ "snapshot" \in Faults)
  \/ pc[j] \in {"upload", "file"} /\ ("upload" \in Faults \/ run[j] \in pruned)
  \/ pc[j] = "reconcile" /\ "list" \in Faults
  \/ pc[j] = "poll" /\ token[j] = "user" /\ ~sent[j] /\ "cancel" \in Faults
  \/ pc[j] = "collect" /\ "download" \in Faults
  \/ pc[j] = "child" /\ (closing \/ "install" \in Faults)
  \/ pc[j] = "broken"

Fail(j) ==
  /\ Raises(j)
  /\ Throw(j)
  /\ UNCHANGED <<manifest, pruned, record, remVars, Elsewhere>>

Step(j) ==
  \/ Start(j) \/ Snapshot(j) \/ Stopped(j) \/ Upload(j) \/ UploadFile(j)
  \/ Attempt(j) \/ Create(j) \/ Created(j) \/ CreateFails(j) \/ Reconcile(j)
  \/ Poll(j) \/ Retrieve(j) \/ Collect(j)
  \/ Finalize(j) \/ Finalized(j) \/ Wake(j) \/ Delete(j) \/ Conclude(j)
  \/ Fail(j)

-----------------------------------------------------------------------------
(***************************************************************************)
(* The forced phase of shutdown: a coordinator that the grace period did   *)
(* not end is cut by task.cancel() in the await it is suspended in.  What  *)
(* that awaits runs in a thread, which goes on or never starts; a file     *)
(* whose upload is cut belongs to nobody, as after a crash.                *)
(***************************************************************************)

BatchesOf(r) == {b \in DOMAIN batches : batches[b].run = r}

\* In a call that changes nothing of the run, or waiting for a paper job.
CutWait(j) ==
  /\ pc[j] \in {"snapshot", "upload", "file", "reconcile", "poll", "retrieve",
                "collect", "child", "wake", "broken"}
  /\ Stop(j)
  /\ erased' = IF pc[j] = "reconcile" /\ Marks(j) /\ BatchesOf(run[j]) # {}
                 THEN erased \cup {run[j]} ELSE erased
  /\ UNCHANGED <<pruned, batches, files>>

\* In create_batch, which the provider may have accepted or will.
CutCreate(j) ==
  /\ pc[j] = "create"
  /\ Stop(j)
  /\ \/ /\ Accept(j)
        /\ erased' = IF Marks(j) THEN erased \cup {run[j]} ELSE erased
     \/ UNCHANGED <<batches, erased>>
  /\ UNCHANGED <<pruned, files>>

\* In delete_file.
CutDelete(j) ==
  /\ pc[j] \in {"cleanup", "abandon"}
  /\ \E f \in todo[j] : files' \in {files, files \ {f}}
  /\ Stop(j)
  /\ UNCHANGED <<pruned, batches, erased>>

\* After the last phase was written, while the working files go.
CutEnd(j) ==
  LET r == run[j]
      m == [disk[r] EXCEPT !.phase = Phase(r, pc[j])] IN
  /\ pc[j] \in {"cleanup", "abandon"}
  /\ todo[j] = {}
  /\ StopWith(j, m)
  /\ pruned' \in {pruned, IF Prunable(r, m) THEN pruned \cup {r} ELSE pruned}
  /\ UNCHANGED <<batches, files, erased>>

Cut(j) ==
  /\ closing
  /\ CutWait(j) \/ CutCreate(j) \/ CutDelete(j) \/ CutEnd(j)
  /\ UNCHANGED <<manifest, record, created, run, targets, token, closing,
                 restarts, shared>>

-----------------------------------------------------------------------------
\* The provider ends a Batch, with a result for some of its requests.
EndBatch(b) ==
  /\ ~batches[b].ended
  /\ \E ok \in SUBSET batches[b].requests :
       \/ /\ Store
          /\ batches' = [batches EXCEPT ![b] = [@ EXCEPT !.ended = TRUE, !.ok = ok,
                                                         !.output = created + 1]]
       \/ /\ ok = {}
          /\ batches' = [batches EXCEPT ![b].ended = TRUE]
          /\ UNCHANGED <<files, created>>
  /\ UNCHANGED <<dirVars, record, state, token, pc, jobVars, envVars>>

Clicked ==
  \/ \E j \in Job, Q \in SUBSET Request : Q # {} /\ QueueRun(j, Q)
  \/ \E j, k \in Job : Retry(j, k)
  \/ \E j \in Job, r \in Run : Resume(j, r)
  \/ \E r \in Run : PruneOld(r)
  \/ \E j \in Job : Cancel(j)

Next ==
  \/ Clicked
  \/ \E j \in Job : Step(j)
  \/ \E b \in DOMAIN batches : EndBatch(b)
  \/ Shutdown \/ Restart
  \/ \E j \in Job : Cut(j)

Spec == Init /\ [][Next]_vars

(***************************************************************************)
(* Coordinators go on: paper jobs end (JobQueue), provider calls have      *)
(* deadlines.  The provider ends every Batch within its completion window, *)
(* and somebody opens the library again while a run is unfinished.         *)
(***************************************************************************)
FairSpec ==
  /\ Spec
  /\ \A j \in Job : WF_vars(Step(j))
  /\ \A b \in 1..MaxBatches : WF_vars(b \in DOMAIN batches /\ EndBatch(b))
  /\ \A r \in Run : WF_vars(\E j \in Job : Resume(j, r))

-----------------------------------------------------------------------------
(* Safety *)

(***************************************************************************)
(* Batch creation is not idempotent, and a run is submitted at most once,  *)
(* wherever the process ends, whatever call fails and whether or not the   *)
(* provider had accepted a submission that raised.  Two kinds of runs are  *)
(* excluded: one that two coordinators of one process worked on, which     *)
(* both may submit, and one that a user cancelled and that the forced      *)
(* phase of shutdown cut while it was submitted or reconciled, whose       *)
(* directory then says cancelled and no more (NeverReplaced).              *)
(***************************************************************************)
SubmittedOnce ==
  \A r \in Run \ (shared \cup erased) : Cardinality(BatchesOf(r)) <= 1

(***************************************************************************)
(* A result that a run counts as installed is in paper.json, also when the *)
(* process ended between the write of the record and the write of the      *)
(* run's state, and a run that completed has installed everything.         *)
(***************************************************************************)
InstalledRecorded ==
  \A r \in Run :
    /\ \A q \in Installed(r) : record[q] # NoRun
    /\ disk[r].phase = "completed" => manifest[r] = Installed(r)

(***************************************************************************)
(* What a run has made durable stays: coordinators that take over after a  *)
(* restart, a failure or a cancellation never write an older state back.   *)
(***************************************************************************)
ProgressKept ==
  [][\A r \in Stored \ shared' :
       LET m == disk[r]
           n == disk'[r] IN
       /\ m.uploads \subseteq n.uploads
       /\ m.input # 0 => n.input = m.input
       /\ m.batch # 0 => n.batch = m.batch
       /\ m.finalized \subseteq n.finalized
       /\ \A q \in manifest[r] : m.outcomes[q] # "none" => n.outcomes[q] # "none"]_vars

(***************************************************************************)
(* Two Batches that are both under way share no request, whichever runs    *)
(* they are of: a request is not paid for twice while its first answer may *)
(* still come.  Runs that two coordinators of one process worked on are    *)
(* excluded, as in SubmittedOnce.                                          *)
(***************************************************************************)
DisjointBatches ==
  \A b, c \in DOMAIN batches :
    b # c /\ (\A x \in {b, c} : ~batches[x].ended /\ batches[x].run \notin shared)
      => batches[b].requests \cap batches[c].requests = {}

(***************************************************************************)
(* A result that was paid for and collected is installed or rejected       *)
(* before its run is over, unless a user cancelled the run; runs that two  *)
(* coordinators of one process worked on are excluded.                     *)
(***************************************************************************)
PaidResultsKept ==
  \A r \in Run \ shared :
    disk[r].phase \in {"completed", "partial", "failed"} =>
      \A q \in manifest[r] : disk[r].outcomes[q] = "ok" => q \in disk[r].finalized

\* Files a run still has to delete.
ToDelete(r) == disk[r].cleanup \cup UNION {todo[j] : j \in {i \in Job : run[i] = r}}

(***************************************************************************)
(* A provider file whose ID a run has stored is not forgotten before it is *)
(* deleted, whatever fails and however often the run is taken up again.    *)
(* When the process ends between two deletions, by a crash or because the  *)
(* forced phase of shutdown cuts the coordinator, what counts is the list  *)
(* in state.json: _cleanup_remote empties that when the first deletion is  *)
(* done, and the files it still had to delete are forgotten.  Runs that    *)
(* two coordinators of one process worked on are left out, each of which   *)
(* writes its copy.                                                        *)
(***************************************************************************)
FilesRemembered ==
  [][\A r \in Stored \ shared' :
       LET over == restarts' # restarts \/ \E j \in Job : run[j] = r /\ Cut(j) IN
       \A f \in files' \cap (IF over THEN disk[r].cleanup ELSE ToDelete(r)) :
         f \in ToDelete(r)']_vars

-----------------------------------------------------------------------------
(* Liveness *)

(***************************************************************************)
(* A Batch that was accepted is brought home: its run is finished in the   *)
(* end, wherever the process ended and although the answer to its          *)
(* submission may have been lost.                                          *)
(***************************************************************************)
BroughtHome == \A r \in Run : BatchesOf(r) # {} ~> disk[r].phase \in Finished

-----------------------------------------------------------------------------
(* What a document says and the code does not do *)

(***************************************************************************)
(* ADR-0009: "It never automatically submits a replacement when acceptance *)
(* is uncertain."  The provider gets no second Batch of a run that no two  *)
(* coordinators worked on at once.                                         *)
(***************************************************************************)
NeverReplaced == \A r \in Run \ shared : Cardinality(BatchesOf(r)) <= 1
=============================================================================
