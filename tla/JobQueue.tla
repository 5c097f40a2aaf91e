------------------------------ MODULE JobQueue ------------------------------
(***************************************************************************)
(* The process-wide job queue of jobs/queue.py with the attempt markers of *)
(* jobs/recovery.py.  One asyncio event loop runs every task and every     *)
(* request handler: a task that has the loop keeps it until it suspends,   *)
(* so `loop' names the task inside such a section and request handlers run *)
(* between sections only.  A crash may fall anywhere, also between two     *)
(* durable writes of one section.                                          *)
(*                                                                         *)
(* Which of several waiting tasks is resumed first is left open; asyncio   *)
(* resumes them in the order of arrival, which is one of the choices.      *)
(***************************************************************************)
EXTENDS JobTypes

CONSTANT MaxRestarts    \* bound on crashes and restarts, for model checking

ASSUME RestartsNat == MaxRestarts \in Nat

VARIABLES
  (* The queue's memory *)
  def,          \* _definitions
  state,        \* Job.state
  pc,           \* where each job's task is
  stack,        \* the `async with' contexts its _run has entered
  ending,       \* how its worker ended, once it has
  token,        \* its CancellationToken's reason, "clear" when not set
  committed,    \* its token's _commit_started
  kill,         \* task.cancel() was called and is not delivered yet
  child,        \* the job a remote coordinator waits for
  loop,         \* the task that has the event loop, or NoJob
  laneOwner,    \* _paper_lanes
  slots,        \* free permits of _conversion_slots and _page_render_slots
  papers,       \* _active_papers of each library's barrier
  readers,      \* _active_readers
  writing,      \* _writer_active
  waiting,      \* _waiting_writers
  phase,        \* progress of shutdown()
  (* The library on disk *)
  marker,       \* jobs with a file in .pp/attempts
  lastAttempt,  \* last_attempt.id of each artifact slot of paper.json
  provenance,   \* the attempt whose success paper.json records for the slot
  artifact,     \* the attempt whose bytes are installed in the slot
  (* History, read by no action of the queue *)
  recorded,     \* the outcome ever recorded for an attempt
  restarts      \* restarts so far

taskVars    == <<pc, stack, ending, child>>
tokenVars   == <<token, committed, kill>>
barrierVars == <<papers, readers, writing, waiting>>
lockVars    == <<laneOwner, slots, barrierVars>>
recordVars  == <<lastAttempt, provenance, recorded>>
diskVars    == <<marker, artifact, recordVars>>
vars == <<def, state, taskVars, tokenVars, loop, lockVars, phase, diskVars,
          restarts>>

Retryable == {"failed", "cancelled", "partial"}

Terminal(j) == state[j] \in Outcome

Created == {j \in Job : state[j] \in {"queued", "running"} \cup Outcome}

\* Places where a task is about to ask, or is suspended asking, for a context.
Asking == {"lane", "slot", "barrier", "arrive", "writer"}

Place == Asking \cup {"none", "invoke", "work", "commit", "returned",
                      "unwind", "record", "clear", "done"}

Ending == {"none", "CancelledError", "PartialJobError", "Exception"} \cup Outcome

Context == {"lane", "slot", "paper", "read", "write", "waiting"}

Phase == {"open", "cancelling", "draining", "gathering", "stopped"}

\* Mutant: a coordinator runs as a reader of its library.
Entry_RemoteReads(d) == CASE d.scope = "paper"         -> "lane"
                          [] d.scope = "library_write" -> "arrive"
                          [] OTHER                     -> "barrier"

\* Where the task of a new job starts.
Entry(d) == CASE d.scope = "paper"         -> "lane"
              [] d.scope = "library_read"  -> "barrier"
              [] d.scope = "library_write" -> "arrive"
              [] OTHER                     -> "invoke"

TypeOK ==
  /\ def \in [Job -> Definition \cup {NoDefinition}]
  /\ state \in [Job -> State]
  /\ pc \in [Job -> Place]
  /\ stack \in [Job -> SUBSET Context]
  /\ ending \in [Job -> Ending]
  /\ token \in [Job -> {"clear", "user", "shutdown"}]
  /\ committed \in [Job -> BOOLEAN]
  /\ kill \in [Job -> BOOLEAN]
  /\ child \in [Job -> Job \cup {NoJob}]
  /\ loop \in Job \cup {NoJob}
  /\ laneOwner \in [Library \X Citekey -> Job \cup {NoJob}]
  /\ slots \in [SlotKind -> Nat]
  /\ papers \in [Library -> Nat]
  /\ readers \in [Library -> Nat]
  /\ writing \in [Library -> BOOLEAN]
  /\ waiting \in [Library -> Nat]
  /\ phase \in Phase
  /\ marker \subseteq Job
  /\ lastAttempt \in [AllTargets -> Job \cup {NoJob}]
  /\ provenance \in [AllTargets -> Job \cup {NoJob}]
  /\ artifact \in [AllTargets -> Job \cup {NoJob}]
  /\ recorded \in [Job -> Outcome \cup {"none"}]
  /\ restarts \in 0..MaxRestarts

Init ==
  /\ def = [j \in Job |-> NoDefinition]
  /\ state = [j \in Job |-> "absent"]
  /\ pc = [j \in Job |-> "none"]
  /\ stack = [j \in Job |-> {}]
  /\ ending = [j \in Job |-> "none"]
  /\ token = [j \in Job |-> "clear"]
  /\ committed = [j \in Job |-> FALSE]
  /\ kill = [j \in Job |-> FALSE]
  /\ child = [j \in Job |-> NoJob]
  /\ loop = NoJob
  /\ laneOwner = [l \in Library \X Citekey |-> NoJob]
  /\ slots = SlotLimit
  /\ papers = [l \in Library |-> 0]
  /\ readers = [l \in Library |-> 0]
  /\ writing = [l \in Library |-> FALSE]
  /\ waiting = [l \in Library |-> 0]
  /\ phase = "open"
  /\ marker = {}
  /\ lastAttempt = [t \in AllTargets |-> NoJob]
  /\ provenance = [t \in AllTargets |-> NoJob]
  /\ artifact = [t \in AllTargets |-> NoJob]
  /\ recorded = [j \in Job |-> "none"]
  /\ restarts = 0

-----------------------------------------------------------------------------
(* Requests: enqueue, retry, cancel. *)

\* _new_job and _start: a queued job, its definition and its task.
NewJob(j, d) ==
  /\ phase = "open"
  /\ state[j] = "absent"
  /\ def' = [def EXCEPT ![j] = d]
  /\ pc' = [pc EXCEPT ![j] = Entry(d)]

\* The four enqueue entry points.
Enqueue(j, d) ==
  /\ loop = NoJob
  /\ NewJob(j, d)
  /\ state' = [state EXCEPT ![j] = "queued"]
  /\ UNCHANGED <<stack, ending, child, tokenVars, loop, lockVars, phase,
                 diskVars, restarts>>

\* retry(): a fresh job of the same definition; the original stays as it is
\* and may be retried again.
Retry(j, k) == state[j] \in Retryable /\ Enqueue(k, def[j])

\* retry_job on an attempt synthesized at startup, then acknowledge_interrupted.
RetryInterrupted(j, k) ==
  /\ loop = NoJob
  /\ state[j] = "interrupted"
  /\ NewJob(k, def[j])
  /\ state' = [state EXCEPT ![j] = "lost", ![k] = "queued"]
  /\ marker' = marker \ {j}
  /\ UNCHANGED <<stack, ending, child, tokenVars, loop, lockVars, phase,
                 artifact, recordVars, restarts>>

\* cancel() up to its first suspension.  A queued job ends here and its task
\* is cancelled; a running one is signalled, and its task is cancelled only
\* when a kill hook was given and raises.
Cancel(j, reason) ==
  /\ loop = NoJob
  /\ state[j] \in {"queued", "running"}
  /\ token[j] = "clear"
  /\ ~committed[j]
  /\ token' = [token EXCEPT ![j] = reason]
  /\ \/ /\ state[j] = "queued"
        /\ state' = [state EXCEPT ![j] = "cancelled"]
        /\ kill' = [kill EXCEPT ![j] = TRUE]
     \/ /\ state[j] = "running"
        /\ \E raises \in {FALSE, def[j].hook} : kill' = [kill EXCEPT ![j] = raises]
        /\ UNCHANGED state
  /\ UNCHANGED <<def, taskVars, committed, loop, lockVars, phase, diskVars,
                 restarts>>

UserCancel(j) == Cancel(j, "user")

-----------------------------------------------------------------------------
(* _run: asking for lane, slot and barrier, in this order. *)

\* A task may run when it has the loop or the loop is idle.
Runs(j) == loop \in {j, NoJob}

\* Task j can go on from place p: it was not cancelled.
Ready(j, p) == Runs(j) /\ pc[j] = p /\ ~kill[j]

\* It does, and keeps the loop.
Resume(j, p) == Ready(j, p) /\ loop' = j

\* It enters context c and goes on to place q.
Enter(j, c, q) ==
  /\ stack' = [stack EXCEPT ![j] = @ \cup {c}]
  /\ pc' = [pc EXCEPT ![j] = q]
  /\ UNCHANGED <<def, state, ending, child, tokenVars, phase, diskVars, restarts>>

\* Mutants: a writer enters beside readers, and one job too many takes a permit.
AdmitsWriter_Readers(l) == papers[l] = 0 /\ ~writing[l]
AdmitsSlot_OneMore(k) == slots[k] >= 0

\* The predicates _LibraryBarrier.paper, .read and .write wait for.
AdmitsShared(l) == ~writing[l] /\ waiting[l] = 0

AdmitsWriter(l) == papers[l] = 0 /\ readers[l] = 0 /\ ~writing[l]

\* A permit of the semaphore is free.
AdmitsSlot(k) == slots[k] > 0

TakeLane(j) ==
  /\ Resume(j, "lane")
  /\ laneOwner[Lane(def[j])] = NoJob
  /\ laneOwner' = [laneOwner EXCEPT ![Lane(def[j])] = j]
  /\ Enter(j, "lane", IF UsesSlot(def[j]) THEN "slot" ELSE "barrier")
  /\ UNCHANGED <<slots, barrierVars>>

\* _kind_slot
TakeSlot(j) ==
  /\ Resume(j, "slot")
  /\ AdmitsSlot(def[j].kind)
  /\ slots' = [slots EXCEPT ![def[j].kind] = @ - 1]
  /\ Enter(j, "slot", "barrier")
  /\ UNCHANGED <<laneOwner, barrierVars>>

\* _LibraryBarrier.paper and .read: the condition is never contended, since
\* no task suspends while it has it.
EnterPaper(j) ==
  /\ Resume(j, "barrier")
  /\ def[j].scope = "paper"
  /\ AdmitsShared(def[j].library)
  /\ papers' = [papers EXCEPT ![def[j].library] = @ + 1]
  /\ Enter(j, "paper", "invoke")
  /\ UNCHANGED <<laneOwner, slots, readers, writing, waiting>>

EnterRead(j) ==
  /\ Resume(j, "barrier")
  /\ def[j].scope # "paper"
  /\ AdmitsShared(def[j].library)
  /\ readers' = [readers EXCEPT ![def[j].library] = @ + 1]
  /\ Enter(j, "read", "invoke")
  /\ UNCHANGED <<laneOwner, slots, papers, writing, waiting>>

\* _LibraryBarrier.write: a writer first announces itself ...
AnnounceWrite(j) ==
  /\ Resume(j, "arrive")
  /\ waiting' = [waiting EXCEPT ![def[j].library] = @ + 1]
  /\ Enter(j, "waiting", "writer")
  /\ UNCHANGED <<laneOwner, slots, papers, readers, writing>>

\* ... and becomes active once the library is quiet.
EnterWrite(j) ==
  /\ Resume(j, "writer")
  /\ AdmitsWriter(def[j].library)
  /\ writing' = [writing EXCEPT ![def[j].library] = TRUE]
  /\ waiting' = [waiting EXCEPT ![def[j].library] = @ - 1]
  /\ stack' = [stack EXCEPT ![j] = {"write"}]
  /\ pc' = [pc EXCEPT ![j] = "invoke"]
  /\ UNCHANGED <<def, state, ending, child, tokenVars, phase, diskVars,
                 restarts, laneOwner, slots, papers, readers>>

\* What task j asks for is available.
Granted(j) ==
  /\ pc[j] = "lane"    => laneOwner[Lane(def[j])] = NoJob
  /\ pc[j] = "slot"    => AdmitsSlot(def[j].kind)
  /\ pc[j] = "barrier" => AdmitsShared(def[j].library)
  /\ pc[j] = "writer"  => AdmitsWriter(def[j].library)

\* It is not: the task suspends until it is notified.
Suspend(j) ==
  /\ loop = j
  /\ pc[j] \in Asking
  /\ ~Granted(j)
  /\ loop' = NoJob
  /\ UNCHANGED <<def, state, taskVars, tokenVars, lockVars, phase, diskVars,
                 restarts>>

Acquire(j) == TakeLane(j) \/ TakeSlot(j) \/ EnterPaper(j) \/ EnterRead(j)
              \/ AnnounceWrite(j) \/ EnterWrite(j) \/ Suspend(j)

-----------------------------------------------------------------------------
(* _invoke: the worker. *)

Tracked(j) == def[j].tracked

\* The transition to running and the attempt marker; then the worker runs up
\* to its first suspension.  It never starts when the marker cannot be written.
StartWorker(j) ==
  /\ Ready(j, "invoke")
  /\ state' = [state EXCEPT ![j] = "running"]
  /\ \/ /\ marker' = IF Tracked(j) THEN marker \cup {j} ELSE marker
        /\ pc' = [pc EXCEPT ![j] = "work"]
        /\ loop' = NoJob
        /\ UNCHANGED ending
     \/ /\ Tracked(j) /\ "marker" \in Faults
        /\ pc' = [pc EXCEPT ![j] = "unwind"]
        /\ ending' = [ending EXCEPT ![j] = "Exception"]
        /\ loop' = j
        /\ UNCHANGED marker
  /\ UNCHANGED <<def, stack, child, tokenVars, lockVars, phase, artifact,
                 recordVars, restarts>>

\* The worker of j is resumed: it is not waiting for a child and no
\* task.cancel() is pending on it.
WorkerResumes(j, p) ==
  /\ loop = NoJob
  /\ pc[j] = p
  /\ child[j] = NoJob
  /\ ~kill[j]

\* It leaves _invoke by an exception e.
Raise(j, e) ==
  /\ pc' = [pc EXCEPT ![j] = "unwind"]
  /\ ending' = [ending EXCEPT ![j] = e]
  /\ loop' = j
  /\ UNCHANGED <<def, state, stack, child, tokenVars, lockVars, phase, diskVars,
                 restarts>>

Install(j) == artifact' = [artifact EXCEPT ![Target(def[j])] = j]

\* A worker calls begin_commit and installs.  Refused, it raises CancelledError.
CommitWork(j) ==
  /\ WorkerResumes(j, "work")
  /\ def[j].commit \in {"guarded", "slow"}
  /\ token[j] = "clear"
  /\ committed' = [committed EXCEPT ![j] = TRUE]
  /\ Install(j)
  /\ IF def[j].commit = "slow"
       THEN pc' = [pc EXCEPT ![j] = "commit"] /\ UNCHANGED loop
       ELSE pc' = [pc EXCEPT ![j] = "returned"] /\ loop' = j
  /\ UNCHANGED <<def, state, stack, ending, child, token, kill, lockVars, phase,
                 marker, recordVars, restarts>>

CommitRefused(j) ==
  /\ WorkerResumes(j, "work")
  /\ def[j].commit \in {"guarded", "slow"}
  /\ token[j] # "clear"
  /\ Raise(j, "CancelledError")

\* A worker returns: one that committed and suspended since, or one that
\* never asks its token; the latter installs its artifacts, if it has any.
ReturnWork(j) ==
  /\ \/ /\ WorkerResumes(j, "commit")
        /\ UNCHANGED artifact
     \/ /\ WorkerResumes(j, "work")
        /\ def[j].commit \in {"none", "unguarded"}
        /\ IF def[j].commit = "unguarded" THEN Install(j) ELSE UNCHANGED artifact
  /\ pc' = [pc EXCEPT ![j] = "returned"]
  /\ loop' = j
  /\ UNCHANGED <<def, state, stack, ending, child, tokenVars, lockVars, phase,
                 marker, recordVars, restarts>>

\* A worker fails; a coordinator may report a mixture of outcomes.
FailWork(j) ==
  /\ WorkerResumes(j, "work") \/ WorkerResumes(j, "commit")
  /\ \/ Raise(j, "Exception")
     \/ def[j].scope = "remote" /\ Raise(j, "PartialJobError")

\* A worker that watches its token gives up.
StopWork(j) ==
  /\ WorkerResumes(j, "work")
  /\ token[j] # "clear"
  /\ Raise(j, "CancelledError")

\* task.cancel() reaches a suspended worker.
InterruptWork(j) ==
  /\ loop = NoJob
  /\ pc[j] \in {"work", "commit"}
  /\ kill[j]
  /\ child[j] = NoJob
  /\ Raise(j, "CancelledError")

EndWork(j) == CommitWork(j) \/ CommitRefused(j) \/ ReturnWork(j)
              \/ FailWork(j) \/ StopWork(j) \/ InterruptWork(j)

\* A coordinator enqueues a paper job and waits for it.
Spawn(j, k, d) ==
  /\ WorkerResumes(j, "work")
  /\ def[j].scope = "remote"
  /\ d.scope = "paper"
  /\ NewJob(k, d)
  /\ state' = [state EXCEPT ![k] = "queued"]
  /\ child' = [child EXCEPT ![j] = k]
  /\ UNCHANGED <<stack, ending, tokenVars, loop, lockVars, phase, diskVars,
                 restarts>>

\* wait() returns when the child's task is done, and also when the waiting
\* task is cancelled: it suppresses that CancelledError.
Awake(j) ==
  /\ loop = NoJob
  /\ child[j] # NoJob
  /\ pc[child[j]] = "done" \/ kill[j]
  /\ child' = [child EXCEPT ![j] = NoJob]
  /\ kill' = [kill EXCEPT ![j] = FALSE]
  /\ UNCHANGED <<def, state, pc, stack, ending, token, committed, loop, lockVars,
                 phase, diskVars, restarts>>

-----------------------------------------------------------------------------
(* The end of _invoke and of _run. *)

\* Mutant: a worker that returns has succeeded.
Judgement_Succeeded(j, e) == e = "succeeded"

\* The worker returned: a set token makes the outcome cancelled, otherwise
\* validate_completion decides.
Judgement(j, e) ==
  IF token[j] # "clear" THEN e = "cancelled"
  ELSE e = "succeeded" \/ (e = "Exception" /\ Tracked(j))

Judge(j) ==
  /\ loop = j
  /\ pc[j] = "returned"
  /\ \E e \in {"cancelled", "succeeded", "Exception"} :
       /\ Judgement(j, e)
       /\ ending' = [ending EXCEPT ![j] = e]
       /\ pc' = [pc EXCEPT ![j] = IF e = "Exception" THEN "unwind" ELSE "record"]
  /\ UNCHANGED <<def, state, stack, child, tokenVars, loop, lockVars, phase,
                 diskVars, restarts>>

\* Mutants: a writer cancelled while it waits stays counted, and a task gives
\* back what it never took.
Leave_Waiting(j, c, counter) ==
  IF c \in stack[j] \ {"waiting"}
    THEN [counter EXCEPT ![def[j].library] = @ - 1] ELSE counter
Leave_NotEntered(j, c, counter) == [counter EXCEPT ![def[j].library] = @ - 1]

\* The `finally' parts of every context the task has entered.
Leave(j, c, counter) ==
  IF c \in stack[j] THEN [counter EXCEPT ![def[j].library] = @ - 1] ELSE counter

Release(j) ==
  /\ laneOwner' = IF "lane" \in stack[j]
                    THEN [laneOwner EXCEPT ![Lane(def[j])] = NoJob] ELSE laneOwner
  /\ slots' = IF "slot" \in stack[j]
                THEN [slots EXCEPT ![def[j].kind] = @ + 1] ELSE slots
  /\ papers' = Leave(j, "paper", papers)
  /\ readers' = Leave(j, "read", readers)
  /\ waiting' = Leave(j, "waiting", waiting)
  /\ writing' = IF "write" \in stack[j]
                  THEN [writing EXCEPT ![def[j].library] = FALSE] ELSE writing
  /\ stack' = [stack EXCEPT ![j] = {}]

\* The except clauses of _run.
Verdict(j) ==
  CASE ending[j] = "CancelledError"  -> "cancelled"
    [] ending[j] = "PartialJobError" -> "partial"
    [] OTHER -> IF token[j] = "clear" THEN "failed" ELSE "cancelled"

\* An exception leaves the contexts before the outcome is recorded.
Unwind(j) ==
  /\ loop = j
  /\ pc[j] = "unwind"
  /\ Release(j)
  /\ ending' = [ending EXCEPT ![j] = Verdict(j)]
  /\ pc' = [pc EXCEPT ![j] = "record"]
  /\ UNCHANGED <<def, state, child, tokenVars, loop, phase, diskVars, restarts>>

\* The task of a job cancelled while queued: CancelledError is thrown into it
\* where it waits, or before its first step, and nothing is left to record.
Abandon(j) ==
  /\ Runs(j)
  /\ pc[j] \in Asking \cup {"invoke"}
  /\ kill[j]
  /\ Release(j)
  /\ pc' = [pc EXCEPT ![j] = "done"]
  /\ loop' = NoJob
  /\ UNCHANGED <<def, state, ending, child, tokenVars, phase, diskVars, restarts>>

\* The task ends in state s, leaving the contexts it still holds.
Finish(j, s) ==
  /\ state' = [state EXCEPT ![j] = s]
  /\ pc' = [pc EXCEPT ![j] = "done"]
  /\ loop' = NoJob
  /\ Release(j)

\* _finish: the outcome is recorded in paper.json ...
Record(j) ==
  /\ loop = j
  /\ pc[j] = "record"
  /\ pc' = [pc EXCEPT ![j] = "clear"]
  /\ LET t == Target(def[j]) IN
     IF Tracked(j)
       THEN /\ recorded' = [recorded EXCEPT ![j] = ending[j]]
            /\ lastAttempt' = [lastAttempt EXCEPT ![t] = j]
            /\ provenance' = IF ending[j] = "succeeded"
                               THEN [provenance EXCEPT ![t] = j] ELSE provenance
       ELSE UNCHANGED recordVars
  /\ UNCHANGED <<def, state, stack, ending, child, tokenVars, loop, lockVars,
                 phase, marker, artifact, restarts>>

\* ... then the marker is removed and the job takes its terminal state.
Settle(j) ==
  /\ loop = j
  /\ pc[j] = "clear"
  /\ marker' = marker \ {j}
  /\ Finish(j, ending[j])
  /\ UNCHANGED <<def, ending, child, tokenVars, phase, artifact, recordVars,
                 restarts>>

\* Mutant: an outcome that could not be recorded is reported all the same.
Failure_Hidden(j) == ending[j]

\* What a job whose outcome cannot be recorded ends as.
Failure(j) == "failed"

\* _finish_guarded: either write may raise; the job is then failed in memory
\* and its marker stays.
FinishFails(j) ==
  /\ loop = j
  /\ Tracked(j)
  /\ \/ pc[j] = "record" /\ "record" \in Faults
     \/ pc[j] = "clear" /\ "clear" \in Faults
  /\ Finish(j, Failure(j))
  /\ UNCHANGED <<def, ending, child, tokenVars, phase, diskVars, restarts>>

TaskStep(j) == Acquire(j) \/ StartWorker(j) \/ Judge(j) \/ Unwind(j)
               \/ Abandon(j) \/ Record(j) \/ Settle(j) \/ FinishFails(j)
               \/ Awake(j)

-----------------------------------------------------------------------------
(* shutdown() and the next process. *)

Task == {j \in Job : pc[j] \notin {"none", "done"}}

ShutdownStep(from, to) ==
  /\ loop = NoJob
  /\ phase = from
  /\ phase' = to

\* No further job is accepted.
Shutdown ==
  /\ ShutdownStep("open", "cancelling")
  /\ UNCHANGED <<def, state, taskVars, tokenVars, loop, lockVars, diskVars,
                 restarts>>

\* Every job that is not terminal is cancelled in turn.
ShutdownCancel(j) == phase = "cancelling" /\ Cancel(j, "shutdown")

\* Mutant: shutdown signals running jobs only.
Signalled_Running(j) == state[j] # "running" \/ token[j] # "clear" \/ committed[j]

\* shutdown() is done with job j.
Signalled(j) == Terminal(j) \/ token[j] # "clear" \/ committed[j]

\* The remaining tasks get a grace period ...
Drain ==
  /\ ShutdownStep("cancelling", "draining")
  /\ \A j \in Created : Signalled(j)
  /\ UNCHANGED <<def, state, taskVars, tokenVars, loop, lockVars, diskVars,
                 restarts>>

\* Mutant: after the grace period only tasks that have not begun are cancelled.
Forced_NotBegun == {j \in Task : pc[j] \in Asking}

\* ... after which they are cancelled by force.
Forced == Task

Expire ==
  /\ ShutdownStep("draining", "gathering")
  /\ Task # {}
  /\ kill' = [j \in Job |-> kill[j] \/ j \in Forced]
  /\ UNCHANGED <<def, state, taskVars, token, committed, loop, lockVars,
                 diskVars, restarts>>

Stopped ==
  /\ \E p \in {"draining", "gathering"} : ShutdownStep(p, "stopped")
  /\ Task = {}
  /\ UNCHANGED <<def, state, taskVars, tokenVars, loop, lockVars, diskVars,
                 restarts>>

\* Mutant: only successes are looked for.
TerminalAttemptExists_Success(j) == \E t \in AllTargets : provenance[t] = j

\* _terminal_attempt_exists
TerminalAttemptExists(j) == \E t \in AllTargets : lastAttempt[t] = j

\* The process ends, by a crash at any point or after shutdown, and the next
\* one opens the library: reconcile_attempts drops the markers of recorded
\* attempts and shows the others as interrupted.
Restart ==
  /\ restarts < MaxRestarts
  /\ restarts' = restarts + 1
  /\ marker' = {j \in marker : ~TerminalAttemptExists(j)}
  /\ state' = [j \in Job |-> IF j \in marker' THEN "interrupted"
                              ELSE IF state[j] = "absent" THEN "absent"
                              ELSE "lost"]
  /\ pc' = [j \in Job |-> "none"]
  /\ stack' = [j \in Job |-> {}]
  /\ ending' = [j \in Job |-> "none"]
  /\ token' = [j \in Job |-> "clear"]
  /\ committed' = [j \in Job |-> FALSE]
  /\ kill' = [j \in Job |-> FALSE]
  /\ child' = [j \in Job |-> NoJob]
  /\ loop' = NoJob
  /\ laneOwner' = [l \in Library \X Citekey |-> NoJob]
  /\ slots' = SlotLimit
  /\ papers' = [l \in Library |-> 0]
  /\ readers' = [l \in Library |-> 0]
  /\ writing' = [l \in Library |-> FALSE]
  /\ waiting' = [l \in Library |-> 0]
  /\ phase' = "open"
  /\ UNCHANGED <<def, artifact, recordVars>>

-----------------------------------------------------------------------------
Request ==
  \/ \E j \in Job, d \in Definition : Enqueue(j, d)
  \/ \E j, k \in Job : Retry(j, k) \/ RetryInterrupted(j, k)
  \/ \E j \in Job : UserCancel(j)
  \/ \E j, k \in Job, d \in Definition : Spawn(j, k, d)

ShutdownNext == (\E j \in Job : ShutdownCancel(j)) \/ Drain \/ Expire \/ Stopped

Next ==
  \/ Request
  \/ \E j \in Job : TaskStep(j) \/ EndWork(j)
  \/ Shutdown \/ ShutdownNext
  \/ Restart

Spec == Init /\ [][Next]_vars

(***************************************************************************)
(* The event loop resumes every task that can go on, and throws            *)
(* CancelledError into every task that was cancelled.                      *)
(***************************************************************************)
LoopFairness ==
  \A j \in Job : WF_vars(TaskStep(j)) /\ WF_vars(InterruptWork(j))

(***************************************************************************)
(* shutdown() goes on, and once it began a coordinator, which cannot       *)
(* enqueue or wait for anything any more, ends.  No other worker needs to. *)
(***************************************************************************)
FairSpec ==
  /\ Spec /\ LoopFairness
  /\ WF_vars(ShutdownNext)
  /\ \A j \in Job : WF_vars(EndWork(j) /\ def[j].scope = "remote")

(***************************************************************************)
(* Workers come to an end: child processes and remote commands run under   *)
(* timeouts, provider requests have deadlines, file work is finite.        *)
(***************************************************************************)
WorkersEnd == \A j \in Job : WF_vars(EndWork(j))

-----------------------------------------------------------------------------
(* Safety *)

Running == {j \in Job : state[j] = "running"}

(***************************************************************************)
(* Jobs that could touch the same files never run together: one paper job  *)
(* per lane, and a library writer alone in its library.  The lanes,        *)
(* counters and flags of the code are there for this.                      *)
(***************************************************************************)
NoConflictRuns ==
  \A j, k \in Running : j # k => ~Conflict(def[j], def[k])

Holders(l, c) == {j \in Job : c \in stack[j] /\ def[j].library = l}

SlotHolders(k) == {j \in Job : "slot" \in stack[j] /\ def[j].kind = k}

BarriersBalanced ==
  \A l \in Library :
    /\ papers[l] = Cardinality(Holders(l, "paper"))
    /\ readers[l] = Cardinality(Holders(l, "read"))
    /\ waiting[l] = Cardinality(Holders(l, "waiting"))
    /\ Cardinality(Holders(l, "write")) = IF writing[l] THEN 1 ELSE 0

SlotsBalanced ==
  \A k \in SlotKind : slots[k] + Cardinality(SlotHolders(k)) = SlotLimit[k]

LanesBalanced ==
  \A x \in Library \X Citekey, j \in Job :
    laneOwner[x] = j <=> "lane" \in stack[j] /\ Lane(def[j]) = x

(***************************************************************************)
(* The counters of a barrier, the writer flag, the free permits and the    *)
(* lane owners always tell who is inside, whichever tasks were cancelled   *)
(* where they waited: nothing leaks and nothing is given back twice.       *)
(***************************************************************************)
ContextsBalanced == BarriersBalanced /\ SlotsBalanced /\ LanesBalanced

\* Task k has what task j waits for: it is the child whose end a coordinator
\* waits for, or holds the lane, a permit, or the library against it.
WaitsFor(j, k) ==
  LET In(c) == k \in Holders(def[j].library, c) IN
  \/ child[j] = k
  \/ pc[j] = "lane" /\ laneOwner[Lane(def[j])] = k
  \/ pc[j] = "slot" /\ k \in SlotHolders(def[j].kind)
  \/ pc[j] = "barrier" /\ (In("write") \/ In("waiting"))
  \/ pc[j] = "writer" /\ (In("paper") \/ In("read") \/ In("write"))

\* The order in which a coordinator, its jobs and the contexts of _run follow.
Stage(j) ==
  CASE child[j] # NoJob            -> 0
    [] pc[j] \in {"lane", "arrive"} -> 1
    [] pc[j] = "slot"              -> 2
    [] pc[j] = "barrier"           -> 3
    [] pc[j] = "writer"            -> 4
    [] OTHER                       -> 5

\* Task j waits for nothing that another task of the queue has.
CanGoOn(j) ==
  \/ kill[j]
  \/ pc[j] \in Asking /\ Granted(j)
  \/ pc[j] \notin Asking /\ (child[j] = NoJob \/ pc[child[j]] = "done")

(***************************************************************************)
(* Whoever cannot go on waits for a task that is at a later stage, so the  *)
(* waits never close a cycle and each chain of them, in each library, ends *)
(* at a task that can go on.                                               *)
(***************************************************************************)
WaitsEnd ==
  \A j \in Task : CanGoOn(j) \/ \E k \in Task : WaitsFor(j, k) /\ Stage(j) < Stage(k)

(***************************************************************************)
(* Cancellation and commit exclude each other: a job whose cancellation    *)
(* was accepted does not end as succeeded, and one that began its commit   *)
(* and did not suspend after it does not end as cancelled.                 *)
(***************************************************************************)
CancelOrCommit ==
  \A j \in Job :
    /\ token[j] # "clear" => state[j] # "succeeded"
    /\ committed[j] /\ def[j].commit = "guarded" =>
         "cancelled" \notin {state[j], recorded[j]}

(***************************************************************************)
(* A running job with recovery hooks that ends otherwise than failed has   *)
(* its outcome in paper.json and its marker is gone; if it succeeded, the  *)
(* slot holds its bytes and names it as their origin.                      *)
(***************************************************************************)
EndsRecorded ==
  [][\A j \in Running :
       LET t == Target(def[j]) IN
       /\ Tracked(j)
       /\ state'[j] \in Outcome \ {"failed"}
       => /\ recorded'[j] = state'[j]
          /\ j \notin marker'
          /\ state'[j] = "succeeded" => provenance'[t] = j /\ artifact'[t] = j]_vars

\* The marker of j could not be removed, in this process or an earlier one.
Leftover(j) ==
  state[j] \in {"failed", "interrupted"} /\ j \in marker /\ recorded[j] # "none"

(***************************************************************************)
(* A restart shows exactly the attempts that began, have no outcome in     *)
(* paper.json and were not replaced; in particular a crash between the     *)
(* record and the removal of the marker does not resurrect the attempt.    *)
(* This is stated for attempts whose marker could be written and removed.  *)
(***************************************************************************)
InterruptedIffUnrecorded ==
  [][restarts' # restarts =>
       \A j \in Job :
         ~Leftover(j) =>
           (state'[j] = "interrupted" <=>
              /\ state[j] \in {"running", "failed", "interrupted"}
              /\ Tracked(j)
              /\ recorded[j] = "none")]_vars

\* Once shutdown has signalled every job, no worker starts any more.
NoStartWhileDraining ==
  [][(phase \notin {"open", "cancelling"}) =>
       \A j \in Job : state'[j] = "running" => state[j] = "running"]_vars

Promise == INSTANCE JobSystem WITH def <- def, state <- state

(***************************************************************************)
(* The queue implements what JobSystem promises: legal transitions only,   *)
(* and no job starts beside one it conflicts with or beyond its slots.     *)
(***************************************************************************)
ImplementsPromise == Promise!Spec

-----------------------------------------------------------------------------
(* Liveness *)

(***************************************************************************)
(* If workers end, every queued job ends, or its process does: no order of *)
(* papers, readers and writers, cancellations and retries leaves tasks     *)
(* waiting for each other, and a coordinator can wait for paper jobs while *)
(* writers queue.                                                          *)
(***************************************************************************)
JobsSettle ==
  WorkersEnd =>
    \A j \in Job : state[j] = "queued" ~> state[j] \notin {"queued", "running"}

\* shutdown() comes to an end, with no task of the queue left, also when
\* workers ignore their tokens and would never end by themselves.
ShutdownCompletes == phase = "cancelling" ~> phase \in {"stopped", "open"}
=============================================================================
