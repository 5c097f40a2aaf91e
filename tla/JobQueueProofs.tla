--------------------------- MODULE JobQueueProofs ---------------------------
(***************************************************************************)
(* Proofs about the job queue, for any set of jobs, libraries, papers and  *)
(* definitions.  The argument goes in three layers: what every variable    *)
(* may hold, with the counters only known to be integers; which contexts a *)
(* task holds at each place of _run; and that the counters, flags and      *)
(* owners tell who holds what, from which exclusion follows.               *)
(***************************************************************************)
EXTENDS JobQueue, FiniteSetTheorems, TLAPS

Value ==
  /\ def \in [Job -> Definition \cup {NoDefinition}]
  /\ state \in [Job -> State]
  /\ pc \in [Job -> Place]
  /\ stack \in [Job -> SUBSET Context]
  /\ ending \in [Job -> Ending]
  /\ token \in [Job -> {"clear", "user", "shutdown"}]
  /\ committed \in [Job -> BOOLEAN]
  /\ kill \in [Job -> BOOLEAN]
  /\ child \in [Job -> Job \cup {NoJob}]
  /\ loop \in Job \cup {NoJob}
  /\ laneOwner \in [Library \X Citekey -> Job \cup {NoJob}]
  /\ slots \in [SlotKind -> Int]
  /\ papers \in [Library -> Int]
  /\ readers \in [Library -> Int]
  /\ writing \in [Library -> BOOLEAN]
  /\ waiting \in [Library -> Int]
  /\ phase \in Phase
  /\ marker \subseteq Job
  /\ lastAttempt \in [AllTargets -> Job \cup {NoJob}]
  /\ provenance \in [AllTargets -> Job \cup {NoJob}]
  /\ artifact \in [AllTargets -> Job \cup {NoJob}]
  /\ recorded \in [Job -> Outcome \cup {"none"}]
  /\ restarts \in 0..MaxRestarts

(***************************************************************************)
(* The contexts a task of definition d holds while its worker runs, and    *)
(* while it is at place p.                                                 *)
(***************************************************************************)
Slot(d) == IF UsesSlot(d) THEN {"slot"} ELSE {}

Full(d) ==
  IF d.scope = "paper" THEN {"lane", "paper"} \cup Slot(d)
  ELSE IF d.scope = "library_read" THEN {"read"}
  ELSE IF d.scope = "library_write" THEN {"write"}
  ELSE {}

Expected(p, d) ==
  IF p \in {"invoke", "work", "commit", "returned", "unwind"} THEN Full(d)
  ELSE IF p = "slot" THEN {"lane"}
  ELSE IF p = "barrier" /\ d.scope = "paper" THEN {"lane"} \cup Slot(d)
  ELSE IF p = "writer" THEN {"waiting"}
  ELSE {}

\* Places with the event loop or on the way to the end, and with a worker.
Ends == {"record", "clear"}
Sync == {"returned", "unwind"} \cup Ends
Active == {"work", "commit"} \cup Sync

Fits(j) ==
  /\ pc[j] # "none" \/ j \in marker => state[j] # "absent"
  /\ state[j] # "absent" => def[j] \in Definition
  /\ pc[j] = "lane" => def[j].scope = "paper"
  /\ pc[j] = "slot" => UsesSlot(def[j])
  /\ pc[j] = "barrier" => def[j].scope \in {"paper", "library_read"}
  /\ pc[j] \in {"arrive", "writer"} => def[j].scope = "library_write"
  /\ pc[j] \notin Ends => stack[j] = Expected(pc[j], def[j])
  /\ pc[j] \in Ends => stack[j] \in {{}, Full(def[j])}
  /\ pc[j] \in Sync => loop = j
  /\ pc[j] \in Ends => ending[j] \in Outcome
  /\ state[j] = "running" <=> pc[j] \in Active

Shape == \A j \in Job : Fits(j)

(***************************************************************************)
(* Nobody is inside a library beside a writer.                             *)
(***************************************************************************)
WriterAlone ==
  \A i, k \in Job :
    /\ i # k
    /\ "write" \in stack[i]
    /\ stack[k] \cap {"paper", "read", "write"} # {}
    => def[i].library # def[k].library

SlotsLeft == \A k \in SlotKind : slots[k] \in Nat

Balance == ContextsBalanced /\ SlotsLeft /\ WriterAlone

-----------------------------------------------------------------------------
(* Layer 1: values. *)

LEMMA InitValue == Init => Value
  BY RestartsNat DEF Init, Value, State, Place, Context, Ending,
     SlotLimit, SlotKind, Phase, Outcome

LEMMA InitShape == Init => Shape
  BY DEF Init, Shape, Fits, Expected, Ends, Sync, Active

\* What NewJob changes, whoever calls it.
LEMMA EntryPlace ==
  ASSUME NEW d \in Definition
  PROVE  /\ Entry(d) \in Place
         /\ Entry(d) \in {"lane", "barrier", "arrive", "invoke"}
         /\ Entry(d) = "lane" => d.scope = "paper"
         /\ Entry(d) = "barrier" => d.scope = "library_read"
         /\ Entry(d) = "arrive" => d.scope = "library_write"
         /\ Entry(d) = "invoke" => d.scope = "remote"
  BY DefinitionsTyped DEF Entry, JobDefinition, Scope, Place, Asking

LEMMA EnqueueValue ==
  ASSUME Value, NEW j \in Job, NEW d \in Definition, Enqueue(j, d)
  PROVE  Value'
  BY EntryPlace DEF Value, State, Enqueue, NewJob, tokenVars, lockVars, barrierVars,
     diskVars, recordVars

LEMMA CancelValue ==
  ASSUME Value, Shape, NEW j \in Job, UserCancel(j) \/ ShutdownCancel(j)
  PROVE  Value'
<1> SUFFICES ASSUME NEW r \in {"user", "shutdown"}, Cancel(j, r)
             PROVE  Value'
  BY DEF UserCancel, ShutdownCancel
<1>1. PICK b \in BOOLEAN : kill' = [kill EXCEPT ![j] = b]
  BY DefinitionsTyped DEF Cancel, Shape, Fits, JobDefinition
<1>2. QED
  BY <1>1 DEF Value, State, Outcome, Cancel, taskVars, lockVars, barrierVars, diskVars,
     recordVars

LEMMA RequestValue ==
  ASSUME Value, Shape, Request
  PROVE  Value'
<1>1. ASSUME NEW j \in Job, NEW k \in Job, Retry(j, k)
      PROVE  Value'
  <2>1. def[j] \in Definition
    BY <1>1 DEF Retry, Retryable, Shape, Fits
  <2>2. QED
    BY <1>1, <2>1, EnqueueValue DEF Retry
<1>2. ASSUME NEW j \in Job, NEW k \in Job, RetryInterrupted(j, k)
      PROVE  Value'
  <2>1. def[j] \in Definition
    BY <1>2 DEF RetryInterrupted, Shape, Fits
  <2>2. QED
    BY <1>2, <2>1, EntryPlace DEF Value, State, RetryInterrupted, NewJob, tokenVars,
       lockVars, barrierVars, recordVars
<1>3. ASSUME NEW j \in Job, NEW k \in Job, NEW d \in Definition, Spawn(j, k, d)
      PROVE  Value'
  BY <1>3, EntryPlace DEF Value, State, Spawn, NewJob, WorkerResumes, tokenVars, lockVars,
     barrierVars, diskVars, recordVars
<1>4. QED
  BY <1>1, <1>2, <1>3, EnqueueValue, CancelValue DEF Request

\* Counting keeps a counter an integer.
LEMMA Stepped ==
  ASSUME NEW S, NEW f \in [S -> Int], NEW x
  PROVE  /\ [f EXCEPT ![x] = @ + 1] \in [S -> Int]
         /\ [f EXCEPT ![x] = @ - 1] \in [S -> Int]
<1>1. CASE x \in S
  <2>1. f[x] + 1 \in Int /\ f[x] - 1 \in Int
    BY <1>1
  <2>2. QED
    BY <2>1
<1>2. CASE x \notin S
  <2>1. /\ [f EXCEPT ![x] = @ + 1] = f
        /\ [f EXCEPT ![x] = @ - 1] = f
    BY <1>2
  <2>2. QED
    BY <2>1
<1>3. QED
  BY <1>1, <1>2

LEMMA AcquireValue ==
  ASSUME Value, Shape, NEW j \in Job, Acquire(j)
  PROVE  Value'
<1> USE DEF Value, Context, Place, Asking, Resume, Ready, Enter
<1>0. /\ slots \in [SlotKind -> Int]
      /\ papers \in [Library -> Int]
      /\ readers \in [Library -> Int]
      /\ waiting \in [Library -> Int]
  OBVIOUS
<1>1. CASE TakeLane(j)
  BY <1>1 DEF TakeLane, barrierVars, tokenVars, diskVars, recordVars
<1>2. CASE TakeSlot(j)
  <2>1. slots' \in [SlotKind -> Int]
    BY ONLY <1>0, <1>2, Stepped DEF TakeSlot
  <2>2. QED
    BY <1>2, <2>1 DEF TakeSlot, barrierVars, tokenVars, diskVars, recordVars
<1>3. CASE EnterPaper(j)
  <2>1. papers' \in [Library -> Int]
    BY ONLY <1>0, <1>3, Stepped DEF EnterPaper
  <2>2. QED
    BY <1>3, <2>1 DEF EnterPaper, tokenVars, diskVars, recordVars
<1>4. CASE EnterRead(j)
  <2>1. readers' \in [Library -> Int]
    BY ONLY <1>0, <1>4, Stepped DEF EnterRead
  <2>2. QED
    BY <1>4, <2>1 DEF EnterRead, tokenVars, diskVars, recordVars
<1>5. CASE AnnounceWrite(j)
  <2>1. waiting' \in [Library -> Int]
    BY ONLY <1>0, <1>5, Stepped DEF AnnounceWrite
  <2>2. QED
    BY <1>5, <2>1 DEF AnnounceWrite, tokenVars, diskVars, recordVars
<1>6. CASE EnterWrite(j)
  <2>1. waiting' \in [Library -> Int]
    BY ONLY <1>0, <1>6, Stepped DEF EnterWrite
  <2>2. QED
    BY <1>6, <2>1 DEF EnterWrite, tokenVars, diskVars, recordVars
<1>7. CASE Suspend(j)
  BY <1>7 DEF Suspend, taskVars, tokenVars, lockVars, barrierVars, diskVars, recordVars
<1>8. QED
  BY <1>1, <1>2, <1>3, <1>4, <1>5, <1>6, <1>7 DEF Acquire

LEMMA RaiseValue ==
  ASSUME Value, NEW j \in Job,
         NEW e \in {"CancelledError", "PartialJobError", "Exception"}, Raise(j, e)
  PROVE  Value'
  BY DEF Value, Raise, Place, Ending, tokenVars, lockVars, barrierVars, diskVars, recordVars

LEMMA WorkValue ==
  ASSUME Value, NEW j \in Job, StartWorker(j) \/ EndWork(j) \/ Awake(j)
  PROVE  Value'
<1>1. CASE StartWorker(j)
  BY <1>1 DEF Value, StartWorker, State, Place, Ending, tokenVars, lockVars, barrierVars, recordVars
<1>2. CASE CommitWork(j)
  BY <1>2 DEF Value, CommitWork, Install, Place, lockVars, barrierVars, recordVars
<1>3. CASE ReturnWork(j)
  BY <1>3 DEF Value, ReturnWork, Install, Place, tokenVars, lockVars, barrierVars, recordVars
<1>4. CASE Awake(j)
  BY <1>4 DEF Value, Awake, lockVars, barrierVars, diskVars, recordVars
<1>5. CASE CommitRefused(j) \/ FailWork(j) \/ StopWork(j) \/ InterruptWork(j)
  BY <1>5, RaiseValue DEF CommitRefused, FailWork, StopWork, InterruptWork
<1>6. QED
  BY <1>1, <1>2, <1>3, <1>4, <1>5 DEF EndWork

\* Leaving the contexts keeps the lock variables in their ranges.
LEMMA ReleaseValue ==
  ASSUME Value, NEW j \in Job, Release(j)
  PROVE  /\ laneOwner' \in [Library \X Citekey -> Job \cup {NoJob}]
         /\ slots' \in [SlotKind -> Int]
         /\ papers' \in [Library -> Int]
         /\ readers' \in [Library -> Int]
         /\ writing' \in [Library -> BOOLEAN]
         /\ waiting' \in [Library -> Int]
         /\ stack' \in [Job -> SUBSET Context]
<1>1. ASSUME NEW c, NEW counter \in [Library -> Int]
      PROVE  Leave(j, c, counter) \in [Library -> Int]
  BY <1>1, Stepped DEF Leave
<1>2. papers' \in [Library -> Int]
  BY <1>1 DEF Value, Release
<1>3. readers' \in [Library -> Int]
  BY <1>1 DEF Value, Release
<1>4. waiting' \in [Library -> Int]
  BY <1>1 DEF Value, Release
<1>5. laneOwner' \in [Library \X Citekey -> Job \cup {NoJob}]
  BY DEF Value, Release
<1>6. slots' \in [SlotKind -> Int]
  BY Stepped DEF Value, Release
<1>7. writing' \in [Library -> BOOLEAN]
  BY DEF Value, Release
<1>8. stack' \in [Job -> SUBSET Context]
  BY DEF Value, Release
<1>9. QED
  BY <1>2, <1>3, <1>4, <1>5, <1>6, <1>7, <1>8

LEMMA FinishValue ==
  ASSUME Value, Shape, NEW j \in Job,
         \/ Judge(j) \/ Unwind(j) \/ Abandon(j) \/ Record(j) \/ Settle(j)
         \/ FinishFails(j)
  PROVE  Value'
<1>1. CASE Judge(j)
  BY <1>1 DEF Value, Judge, Judgement, Place, Ending, Outcome, tokenVars, lockVars, barrierVars, diskVars,
     recordVars
<1>2. CASE Unwind(j)
  <2>1. Verdict(j) \in Outcome
    BY DEF Verdict, Outcome
  <2>2. QED
    BY <1>2, <2>1, ReleaseValue
    DEF Value, Unwind, Place, Ending, tokenVars, diskVars, recordVars
<1>3. CASE Abandon(j)
  BY <1>3, ReleaseValue DEF Value, Abandon, Place, tokenVars, diskVars, recordVars
<1>4. CASE Record(j)
  <2>1. ending[j] \in Outcome
    BY <1>4 DEF Record, Shape, Fits, Ends
  <2>2. QED
    BY <1>4, <2>1 DEF Value, Record, Place, tokenVars, lockVars, barrierVars, recordVars
<1>5. CASE Settle(j)
  <2>1. ending[j] \in Outcome
    BY <1>5 DEF Settle, Shape, Fits, Ends
  <2>2. QED
    BY <1>5, <2>1, ReleaseValue
    DEF Value, Settle, Finish, State, Place, tokenVars, recordVars
<1>6. CASE FinishFails(j)
  BY <1>6, ReleaseValue
  DEF Value, FinishFails, Failure, Finish, State, Outcome, Place, tokenVars, diskVars, recordVars
<1>7. QED
  BY <1>1, <1>2, <1>3, <1>4, <1>5, <1>6

LEMMA ShutdownValue ==
  ASSUME Value, Shutdown \/ Drain \/ Expire \/ Stopped
  PROVE  Value'
  BY DEF Value, Phase, Shutdown, Drain, Expire, Forced, Stopped, ShutdownStep, taskVars,
     tokenVars, lockVars, barrierVars, diskVars, recordVars

LEMMA RestartValue ==
  ASSUME Value, Restart
  PROVE  Value'
  BY RestartsNat DEF Value, Restart, State, Place, Context, Ending,
     SlotLimit, SlotKind, Phase, recordVars

LEMMA NextValue ==
  ASSUME Value, Shape, [Next]_vars
  PROVE  Value'
<1>1. CASE Request
  BY <1>1, RequestValue
<1>2. ASSUME NEW j \in Job, TaskStep(j) \/ EndWork(j)
      PROVE  Value'
  BY <1>2, AcquireValue, WorkValue, FinishValue DEF TaskStep
<1>3. CASE Shutdown \/ ShutdownNext
  BY <1>3, ShutdownValue, CancelValue DEF ShutdownNext
<1>4. CASE Restart
  BY <1>4, RestartValue
<1>5. CASE UNCHANGED vars
  BY <1>5 DEF vars, Value, taskVars, tokenVars, lockVars, barrierVars, diskVars, recordVars
<1>6. QED
  BY <1>1, <1>2, <1>3, <1>4, <1>5 DEF Next

-----------------------------------------------------------------------------
(* Layer 2: places and contexts. *)

\* A step of the task of j touches no other job.
Untouched(i) ==
  /\ UNCHANGED <<def[i], state[i], pc[i], stack[i], ending[i], token[i],
                 committed[i], recorded[i]>>
  /\ i \in marker' <=> i \in marker

LEMMA OwnOnly ==
  ASSUME Value, NEW j \in Job, NEW i \in Job, i # j, TaskStep(j) \/ EndWork(j)
  PROVE  Untouched(i) /\ loop \in {j, NoJob}
<1> USE DEF Value, Untouched, taskVars, tokenVars, lockVars, barrierVars, diskVars,
            recordVars
<1>1. CASE Acquire(j)
  BY <1>1 DEF Acquire, TakeLane, TakeSlot, EnterPaper, EnterRead, AnnounceWrite,
     EnterWrite, Suspend, Enter, Resume, Ready, Runs
<1>2. CASE StartWorker(j)
  BY <1>2 DEF StartWorker, Resume, Ready, Runs
<1>3. CASE CommitWork(j)
  BY <1>3 DEF CommitWork, WorkerResumes
<1>4. CASE ReturnWork(j)
  BY <1>4 DEF ReturnWork, WorkerResumes
<1>5. CASE CommitRefused(j) \/ FailWork(j) \/ StopWork(j) \/ InterruptWork(j)
  BY <1>5 DEF CommitRefused, FailWork, StopWork, InterruptWork, WorkerResumes, Raise
<1>6. CASE Awake(j)
  BY <1>6 DEF Awake
<1>7. CASE Judge(j) \/ Unwind(j) \/ Abandon(j)
  BY <1>7 DEF Judge, Judgement, Unwind, Abandon, Release, Runs
<1>8. CASE Record(j)
  BY <1>8 DEF Record
<1>9. CASE Settle(j) \/ FinishFails(j)
  BY <1>9 DEF Settle, FinishFails, Failure, Finish, Release
<1>10. QED
  BY <1>1, <1>2, <1>3, <1>4, <1>5, <1>6, <1>7, <1>8, <1>9 DEF TaskStep, EndWork

LEMMA Undisturbed ==
  ASSUME NEW i \in Job, Fits(i), Untouched(i), pc[i] \in Sync => loop' = i
  PROVE  Fits(i)'
  BY DEF Fits, Untouched

LEMMA OthersFit ==
  ASSUME Value, Shape, NEW j \in Job, NEW i \in Job, i # j,
         TaskStep(j) \/ EndWork(j)
  PROVE  Fits(i)'
<1>1. pc[i] \notin Sync
  BY OwnOnly, NoJobIsNoJob DEF Shape, Fits
<1>2. QED
  BY <1>1, OwnOnly, Undisturbed DEF Shape

LEMMA AcquireFits ==
  ASSUME Value, Shape, NEW j \in Job, Acquire(j)
  PROVE  Fits(j)'
<1> DEFINE d == def[j]
<1>0. /\ Fits(j)
      /\ stack[j] = Expected(pc[j], d) \/ pc[j] \in Ends
      /\ pc[j] \in Asking => d \in JobDefinition
  BY DefinitionsTyped DEF Shape, Fits, Asking
<1> USE DEF Value, Fits, Resume, Ready, Enter, Asking, Ends, Sync, Active
<1>1. CASE TakeLane(j)
  <2>1. pc[j] = "lane" /\ stack[j] = {} /\ d.scope = "paper"
    BY <1>0, <1>1 DEF TakeLane, Expected
  <2>2. stack'[j] = {"lane"} /\ def'[j] = d /\ state'[j] = state[j]
    BY <1>1, <2>1 DEF TakeLane
  <2>3. CASE UsesSlot(d)
    <3>1. pc'[j] = "slot"
      BY <1>1, <2>3 DEF TakeLane
    <3>2. QED
      BY <1>0, <1>1, <2>1, <2>2, <2>3, <3>1 DEF TakeLane, Expected, diskVars
  <2>4. CASE ~UsesSlot(d)
    <3>1. pc'[j] = "barrier"
      BY <1>1, <2>4 DEF TakeLane
    <3>2. QED
      BY <1>0, <1>1, <2>1, <2>2, <2>4, <3>1 DEF TakeLane, Expected, Slot, diskVars
  <2>5. QED
    BY <2>3, <2>4
<1>2. CASE TakeSlot(j)
  <2>1. pc[j] = "slot" /\ stack[j] = {"lane"} /\ UsesSlot(d)
    BY <1>0, <1>2 DEF TakeSlot, Expected
  <2>2. /\ pc'[j] = "barrier" /\ stack'[j] = {"lane", "slot"}
        /\ def'[j] = d /\ state'[j] = state[j]
    BY <1>2, <2>1 DEF TakeSlot
  <2>3. QED
    BY <1>0, <1>2, <2>1, <2>2 DEF TakeSlot, Expected, Slot, UsesSlot, diskVars
<1>3. CASE EnterPaper(j)
  <2>1. pc[j] = "barrier" /\ stack[j] = {"lane"} \cup Slot(d) /\ d.scope = "paper"
    BY <1>0, <1>3 DEF EnterPaper, Expected
  <2>2. /\ pc'[j] = "invoke" /\ stack'[j] = {"lane", "paper"} \cup Slot(d)
        /\ def'[j] = d /\ state'[j] = state[j]
    BY <1>3, <2>1 DEF EnterPaper
  <2>3. QED
    BY <1>0, <1>3, <2>1, <2>2 DEF EnterPaper, Expected, Full, diskVars
<1>4. CASE EnterRead(j)
  <2>1. pc[j] = "barrier" /\ stack[j] = {} /\ d.scope = "library_read"
    BY <1>0, <1>4 DEF EnterRead, Expected
  <2>2. /\ pc'[j] = "invoke" /\ stack'[j] = {"read"}
        /\ def'[j] = d /\ state'[j] = state[j]
    BY <1>4, <2>1 DEF EnterRead
  <2>3. QED
    BY <1>0, <1>4, <2>1, <2>2 DEF EnterRead, Expected, Full, diskVars
<1>5. CASE AnnounceWrite(j)
  <2>1. pc[j] = "arrive" /\ stack[j] = {} /\ d.scope = "library_write"
    BY <1>0, <1>5 DEF AnnounceWrite, Expected
  <2>2. /\ pc'[j] = "writer" /\ stack'[j] = {"waiting"}
        /\ def'[j] = d /\ state'[j] = state[j]
    BY <1>5, <2>1 DEF AnnounceWrite
  <2>3. QED
    BY <1>0, <1>5, <2>1, <2>2 DEF AnnounceWrite, Expected, diskVars
<1>6. CASE EnterWrite(j)
  <2>1. pc[j] = "writer" /\ d.scope = "library_write"
    BY <1>0, <1>6 DEF EnterWrite
  <2>2. /\ pc'[j] = "invoke" /\ stack'[j] = {"write"}
        /\ def'[j] = d /\ state'[j] = state[j]
    BY <1>6, <2>1 DEF EnterWrite
  <2>3. QED
    BY <1>0, <1>6, <2>1, <2>2 DEF EnterWrite, Expected, Full, diskVars
<1>7. CASE Suspend(j)
  BY <1>0, <1>7 DEF Suspend, taskVars, diskVars
<1>8. QED
  BY <1>1, <1>2, <1>3, <1>4, <1>5, <1>6, <1>7 DEF Acquire

LEMMA RaiseFits ==
  ASSUME Value, Shape, NEW j \in Job, pc[j] \in {"work", "commit"}, NEW e, Raise(j, e)
  PROVE  Fits(j)'
  BY DEF Value, Shape, Fits, Raise, Expected, Ends, Sync, Active, diskVars

LEMMA WorkFits ==
  ASSUME Value, Shape, NEW j \in Job, StartWorker(j) \/ EndWork(j) \/ Awake(j)
  PROVE  Fits(j)'
<1> USE DEF Value, Shape, Fits, Expected, Ends, Sync, Active, WorkerResumes
<1>1. CASE StartWorker(j)
  BY <1>1 DEF StartWorker, Resume, Ready
<1>2. CASE CommitWork(j)
  BY <1>2 DEF CommitWork
<1>3. CASE ReturnWork(j)
  BY <1>3 DEF ReturnWork
<1>4. CASE Awake(j)
  BY <1>4 DEF Awake, diskVars
<1>5. CASE CommitRefused(j) \/ FailWork(j) \/ StopWork(j) \/ InterruptWork(j)
  BY <1>5, RaiseFits DEF CommitRefused, FailWork, StopWork, InterruptWork
<1>6. QED
  BY <1>1, <1>2, <1>3, <1>4, <1>5 DEF EndWork

LEMMA FinishFits ==
  ASSUME Value, Shape, NEW j \in Job,
         \/ Judge(j) \/ Unwind(j) \/ Abandon(j) \/ Record(j) \/ Settle(j)
         \/ FinishFails(j)
  PROVE  Fits(j)'
<1> USE DEF Value, Shape, Fits, Expected, Ends, Sync, Active
<1>1. CASE Judge(j)
  BY <1>1 DEF Judge, Judgement, Outcome, diskVars
<1>2. CASE Unwind(j)
  <2>1. Verdict(j) \in Outcome
    BY DEF Verdict, Outcome
  <2>2. QED
    BY <1>2, <2>1 DEF Unwind, Release, diskVars
<1>3. CASE Abandon(j)
  BY <1>3 DEF Abandon, Release, Asking, diskVars
<1>4. CASE Record(j)
  BY <1>4 DEF Record
<1>5. CASE Settle(j)
  BY <1>5 DEF Settle, Finish, Release, Outcome
<1>6. CASE FinishFails(j)
  BY <1>6 DEF FinishFails, Failure, Finish, Release, diskVars
<1>7. QED
  BY <1>1, <1>2, <1>3, <1>4, <1>5, <1>6

LEMMA TaskShape ==
  ASSUME Value, Shape, NEW j \in Job, TaskStep(j) \/ EndWork(j)
  PROVE  Shape'
<1>1. Fits(j)'
  BY AcquireFits, WorkFits, FinishFits DEF TaskStep
<1>2. QED
  BY <1>1, OthersFit DEF Shape

\* A new job stands at the start of its task.
LEMMA NewFits ==
  ASSUME Value, Shape, NEW k \in Job, NEW d \in Definition, NewJob(k, d),
         state'[k] = "queued", stack' = stack
  PROVE  Fits(k)'
<1>1. stack'[k] = {}
  BY DEF Shape, Fits, NewJob, Expected, Ends
<1>2. pc'[k] = Entry(d) /\ def'[k] = d
  BY DEF Value, NewJob
<1>3. Expected(Entry(d), d) = {}
  BY EntryPlace DEF Expected, Full
<1>4. QED
  BY <1>1, <1>2, <1>3, EntryPlace DEF Fits, Ends, Sync, Active

LEMMA CancelShape ==
  ASSUME Value, Shape, NEW j \in Job, UserCancel(j) \/ ShutdownCancel(j)
  PROVE  Shape'
<1>1. PICK r : Cancel(j, r)
  BY DEF UserCancel, ShutdownCancel
<1>2. ASSUME NEW i \in Job
      PROVE  Fits(i)'
  BY <1>1, <1>2 DEF Value, Shape, Fits, Cancel, Ends, Sync, Active, taskVars, diskVars
<1>3. QED
  BY <1>2 DEF Shape

LEMMA RequestShape ==
  ASSUME Value, Shape, Request
  PROVE  Shape'
<1>1. ASSUME NEW j \in Job, NEW d \in Definition, Enqueue(j, d)
      PROVE  Shape'
  <2>1. Fits(j)'
    BY <1>1, NewFits DEF Value, Enqueue
  <2>2. ASSUME NEW i \in Job, i # j
        PROVE  Fits(i)'
    <3>1. Untouched(i) /\ loop' = loop
      BY <1>1, <2>2 DEF Value, Untouched, Enqueue, NewJob, tokenVars, diskVars, recordVars
    <3>2. QED
      BY <3>1, Undisturbed DEF Shape, Fits
  <2>3. QED
    BY <2>1, <2>2 DEF Shape
<1>2. ASSUME NEW j \in Job, NEW k \in Job, Retry(j, k)
      PROVE  Shape'
  <2>1. def[j] \in Definition
    BY <1>2 DEF Retry, Retryable, Shape, Fits
  <2>2. QED
    BY <1>1, <1>2, <2>1 DEF Retry
<1>3. ASSUME NEW j \in Job, NEW k \in Job, RetryInterrupted(j, k)
      PROVE  Shape'
  <2>1. def[j] \in Definition /\ j # k
    BY <1>3 DEF RetryInterrupted, NewJob, Shape, Fits
  <2>2. Fits(k)'
    BY <1>3, <2>1, NewFits DEF Value, RetryInterrupted
  <2>3. Fits(j)'
    BY <1>3, <2>1 DEF Value, Shape, Fits, RetryInterrupted, NewJob
  <2>4. ASSUME NEW i \in Job, i # j, i # k
        PROVE  Fits(i)'
    <3>1. Untouched(i) /\ loop' = loop
      BY <1>3, <2>4
      DEF Value, Untouched, RetryInterrupted, NewJob, tokenVars, recordVars
    <3>2. QED
      BY <3>1, Undisturbed DEF Shape, Fits
  <2>5. QED
    BY <2>2, <2>3, <2>4 DEF Shape
<1>4. ASSUME NEW j \in Job, UserCancel(j) \/ ShutdownCancel(j)
      PROVE  Shape'
  BY <1>4, CancelShape
<1>5. ASSUME NEW j \in Job, NEW k \in Job, NEW d \in Definition, Spawn(j, k, d)
      PROVE  Shape'
  <2>1. Fits(k)'
    BY <1>5, NewFits DEF Value, Spawn
  <2>2. ASSUME NEW i \in Job, i # k
        PROVE  Fits(i)'
    <3>1. Untouched(i) /\ loop' = loop
      BY <1>5, <2>2 DEF Value, Untouched, Spawn, NewJob, tokenVars, diskVars, recordVars
    <3>2. QED
      BY <3>1, Undisturbed DEF Shape, Fits
  <2>3. QED
    BY <2>1, <2>2 DEF Shape
<1>6. QED
  BY <1>1, <1>2, <1>3, <1>4, <1>5 DEF Request

LEMMA RestartShape ==
  ASSUME Value, Shape, Restart
  PROVE  Shape'
<1>1. ASSUME NEW i \in Job
      PROVE  Fits(i)'
  BY <1>1 DEF Value, Shape, Fits, Restart, Expected, Ends, Sync, Active
<1>2. QED
  BY <1>1 DEF Shape

LEMMA NextShape ==
  ASSUME Value, Shape, [Next]_vars
  PROVE  Shape'
<1>1. CASE Shutdown \/ Drain \/ Expire \/ Stopped \/ UNCHANGED vars
  <2>1. UNCHANGED <<def, state, pc, stack, ending, loop, marker>>
    BY <1>1 DEF vars, Shutdown, Drain, Expire, Forced, Stopped, taskVars, diskVars
  <2>2. QED
    BY <2>1 DEF Shape, Fits
<1>2. QED
  BY <1>1, RequestShape, TaskShape, CancelShape, RestartShape DEF Next, ShutdownNext

-----------------------------------------------------------------------------
(* Layer 3: the counters, flags and owners tell who holds what. *)

LEMMA Counting ==
  ASSUME NEW H, H \subseteq Job, NEW j
  PROVE  /\ Cardinality(H) \in Nat
         /\ Cardinality(H) = 0 <=> H = {}
         /\ j \notin H => Cardinality(H \cup {j}) = Cardinality(H) + 1
         /\ j \in H => Cardinality(H \ {j}) = Cardinality(H) - 1
<1>1. IsFiniteSet(H)
  BY JobsFinite, FS_Subset
<1>2. QED
  BY <1>1, FS_CardinalityType, FS_EmptySet, FS_AddElement, FS_RemoveElement

\* How the number of tasks with a context moves when task j alone enters or
\* leaves contexts.
Moves(j) ==
  /\ def' = def
  /\ \A i \in Job \ {j} : stack'[i] = stack[i]

LEMMA HoldersMoved ==
  ASSUME Value, NEW j \in Job, Moves(j), NEW l, NEW c
  PROVE  /\ def[j].library # l \/ (c \in stack[j] <=> c \in stack'[j]) =>
              Cardinality(Holders(l, c))' = Cardinality(Holders(l, c))
         /\ def[j].library = l /\ c \in stack'[j] /\ c \notin stack[j] =>
              Cardinality(Holders(l, c))' = Cardinality(Holders(l, c)) + 1
         /\ def[j].library = l /\ c \notin stack'[j] /\ c \in stack[j] =>
              Cardinality(Holders(l, c))' = Cardinality(Holders(l, c)) - 1
<1> DEFINE H == Holders(l, c)
<1>1. H \subseteq Job
  BY DEF Holders
<1>2. CASE def[j].library # l \/ (c \in stack[j] <=> c \in stack'[j])
  <2>1. H' = H
    BY <1>2 DEF Value, Holders, Moves
  <2>2. QED
    BY <1>2, <2>1
<1>3. CASE def[j].library = l /\ c \in stack'[j] /\ c \notin stack[j]
  <2>1. H' = H \cup {j} /\ j \notin H
    BY <1>3 DEF Value, Holders, Moves
  <2>2. QED
    BY <1>1, <1>3, <2>1, Counting
<1>4. CASE def[j].library = l /\ c \notin stack'[j] /\ c \in stack[j]
  <2>1. H' = H \ {j} /\ j \in H
    BY <1>4 DEF Value, Holders, Moves
  <2>2. QED
    BY <1>1, <1>4, <2>1, Counting
<1>5. QED
  BY <1>2, <1>3, <1>4

LEMMA SlotHoldersMoved ==
  ASSUME Value, NEW j \in Job, Moves(j), NEW k
  PROVE  /\ def[j].kind # k \/ ("slot" \in stack[j] <=> "slot" \in stack'[j]) =>
              Cardinality(SlotHolders(k))' = Cardinality(SlotHolders(k))
         /\ def[j].kind = k /\ "slot" \in stack'[j] /\ "slot" \notin stack[j] =>
              Cardinality(SlotHolders(k))' = Cardinality(SlotHolders(k)) + 1
         /\ def[j].kind = k /\ "slot" \notin stack'[j] /\ "slot" \in stack[j] =>
              Cardinality(SlotHolders(k))' = Cardinality(SlotHolders(k)) - 1
<1> DEFINE H == SlotHolders(k)
<1>1. H \subseteq Job
  BY DEF SlotHolders
<1>2. CASE def[j].kind # k \/ ("slot" \in stack[j] <=> "slot" \in stack'[j])
  <2>1. H' = H
    BY <1>2 DEF Value, SlotHolders, Moves
  <2>2. QED
    BY <1>2, <2>1
<1>3. CASE def[j].kind = k /\ "slot" \in stack'[j] /\ "slot" \notin stack[j]
  <2>1. H' = H \cup {j} /\ j \notin H
    BY <1>3 DEF Value, SlotHolders, Moves
  <2>2. QED
    BY <1>1, <1>3, <2>1, Counting
<1>4. CASE def[j].kind = k /\ "slot" \notin stack'[j] /\ "slot" \in stack[j]
  <2>1. H' = H \ {j} /\ j \in H
    BY <1>4 DEF Value, SlotHolders, Moves
  <2>2. QED
    BY <1>1, <1>4, <2>1, Counting
<1>5. QED
  BY <1>2, <1>3, <1>4

\* Where a task that holds or asks for a context belongs.
LEMMA Belongs ==
  ASSUME Shape, NEW j \in Job, pc[j] \in Asking \/ stack[j] # {}
  PROVE  /\ def[j] \in JobDefinition
         /\ def[j].library \in Library
         /\ Lane(def[j]) \in Library \X Citekey
<1>1. state[j] # "absent"
  BY DEF Shape, Fits, Asking, Expected, Ends
<1>2. QED
  BY <1>1, DefinitionsTyped DEF Shape, Fits, JobDefinition, Lane

\* Steps that leave all contexts alone.
LEMMA BalanceKept ==
  ASSUME Value, Balance, UNCHANGED <<stack, lockVars>>,
         \A i \in Job : stack[i] # {} => def'[i] = def[i]
  PROVE  Balance'
<1>1. \A l, c : Holders(l, c)' = Holders(l, c)
  BY DEF Holders
<1>2. \A k : SlotHolders(k)' = SlotHolders(k)
  BY DEF SlotHolders
<1>3. BarriersBalanced'
  BY <1>1 DEF Balance, ContextsBalanced, BarriersBalanced, lockVars, barrierVars
<1>4. SlotsBalanced' /\ SlotsLeft'
  BY <1>2 DEF Balance, ContextsBalanced, SlotsBalanced, SlotsLeft, lockVars
<1>5. LanesBalanced'
  BY DEF Balance, ContextsBalanced, LanesBalanced, lockVars
<1>6. WriterAlone'
  BY DEF Balance, WriterAlone
<1>7. QED
  BY <1>3, <1>4, <1>5, <1>6 DEF Balance, ContextsBalanced

\* Nobody is inside when the counters say so.
LEMMA Empty ==
  ASSUME Value, Balance, NEW l \in Library, NEW i \in Job,
         i \in Holders(l, "paper") \/ i \in Holders(l, "read") \/ i \in Holders(l, "write")
  PROVE  ~AdmitsWriter(l)
<1>1. \A c : Holders(l, c) \subseteq Job
  BY DEF Holders
<1>2. \A c : i \in Holders(l, c) => Cardinality(Holders(l, c)) # 0
  BY <1>1, Counting
<1>3. QED
  BY <1>2 DEF AdmitsWriter, Balance, ContextsBalanced, BarriersBalanced

LEMMA NoWriter ==
  ASSUME Value, Balance, NEW l \in Library, NEW i \in Job, i \in Holders(l, "write")
  PROVE  ~AdmitsShared(l)
<1>1. Holders(l, "write") \subseteq Job
  BY DEF Holders
<1>2. Cardinality(Holders(l, "write")) # 0
  BY <1>1, Counting
<1>3. QED
  BY <1>2 DEF AdmitsShared, Balance, ContextsBalanced, BarriersBalanced

\* What a context's part of the balance does not depend on.
LEMMA BarriersKept ==
  ASSUME Value, Balance, NEW j \in Job, Moves(j), UNCHANGED barrierVars,
         \A c \in Context \ {"lane", "slot"} : c \in stack'[j] <=> c \in stack[j]
  PROVE  BarriersBalanced'
<1>1. ASSUME NEW l \in Library, NEW c \in Context \ {"lane", "slot"}
      PROVE  Cardinality(Holders(l, c))' = Cardinality(Holders(l, c))
  BY <1>1, HoldersMoved
<1>2. QED
  BY <1>1 DEF Balance, ContextsBalanced, BarriersBalanced, barrierVars, Context

LEMMA SlotsKept ==
  ASSUME Value, Balance, NEW j \in Job, Moves(j), UNCHANGED slots,
         "slot" \in stack'[j] <=> "slot" \in stack[j]
  PROVE  SlotsBalanced' /\ SlotsLeft'
<1>1. ASSUME NEW k \in SlotKind
      PROVE  Cardinality(SlotHolders(k))' = Cardinality(SlotHolders(k))
  BY SlotHoldersMoved
<1>2. QED
  BY <1>1 DEF Balance, ContextsBalanced, SlotsBalanced, SlotsLeft

LEMMA LanesKept ==
  ASSUME Value, Balance, NEW j \in Job, Moves(j), UNCHANGED laneOwner,
         "lane" \in stack'[j] <=> "lane" \in stack[j]
  PROVE  LanesBalanced'
  BY DEF Balance, ContextsBalanced, LanesBalanced, Moves

LEMMA TakeLaneBalance ==
  ASSUME Value, Shape, Balance, NEW j \in Job, TakeLane(j)
  PROVE  Balance'
<1>1. stack'[j] = {"lane"} /\ stack[j] = {} /\ Moves(j)
  BY DEF Value, TakeLane, Enter, Resume, Ready, Shape, Fits, Expected, Ends, Moves
<1>2. BarriersBalanced' /\ SlotsBalanced' /\ SlotsLeft'
  BY <1>1, BarriersKept, SlotsKept DEF TakeLane
<1>3. LanesBalanced'
  BY <1>1, Belongs, NoJobIsNoJob
  DEF Value, TakeLane, Resume, Ready, Asking, Balance, ContextsBalanced, LanesBalanced, Moves
<1>4. WriterAlone'
  BY <1>1 DEF Value, Balance, WriterAlone, Moves
<1>5. QED
  BY <1>2, <1>3, <1>4 DEF Balance, ContextsBalanced

LEMMA TakeSlotBalance ==
  ASSUME Value, Shape, Balance, NEW j \in Job, TakeSlot(j)
  PROVE  Balance'
<1>1. stack'[j] = {"lane", "slot"} /\ stack[j] = {"lane"} /\ Moves(j)
  BY DEF Value, TakeSlot, Enter, Resume, Ready, Shape, Fits, Expected, Ends, Moves
<1>2. BarriersBalanced' /\ LanesBalanced'
  BY <1>1, BarriersKept, LanesKept DEF TakeSlot
<1>3. SlotsBalanced' /\ SlotsLeft'
  <2>1. ASSUME NEW k \in SlotKind
        PROVE  /\ slots[k] \in Nat /\ SlotLimit[k] \in Nat
               /\ Cardinality(SlotHolders(k)) \in Nat
    BY Counting DEF Balance, SlotsLeft, SlotLimit, SlotKind, SlotHolders
  <2>2. ASSUME NEW k \in SlotKind, k = def[j].kind
        PROVE  /\ slots'[k] = slots[k] - 1 /\ slots[k] > 0
               /\ Cardinality(SlotHolders(k))' = Cardinality(SlotHolders(k)) + 1
    BY <1>1, <2>2, SlotHoldersMoved DEF Value, TakeSlot, AdmitsSlot
  <2>3. ASSUME NEW k \in SlotKind, k # def[j].kind
        PROVE  /\ slots'[k] = slots[k]
               /\ Cardinality(SlotHolders(k))' = Cardinality(SlotHolders(k))
    BY <1>1, <2>3, SlotHoldersMoved DEF Value, TakeSlot
  <2>4. QED
    BY <2>1, <2>2, <2>3 DEF Balance, ContextsBalanced, SlotsBalanced, SlotsLeft
<1>4. WriterAlone'
  BY <1>1 DEF Value, Balance, WriterAlone, Moves
<1>5. QED
  BY <1>2, <1>3, <1>4 DEF Balance, ContextsBalanced

LEMMA EnterSharedBalance ==
  ASSUME Value, Shape, Balance, NEW j \in Job, EnterPaper(j) \/ EnterRead(j)
  PROVE  Balance'
<1>0. PICK b \in Library : b = def[j].library
  BY Belongs DEF EnterPaper, EnterRead, Resume, Ready, Asking
<1>1. PICK x \in {"paper", "read"} :
        /\ x \notin stack[j] /\ stack'[j] = stack[j] \cup {x}
        /\ x = "paper" <=> EnterPaper(j)
  <2>1. CASE EnterPaper(j)
    <3>1. "paper" \notin stack[j] /\ stack'[j] = stack[j] \cup {"paper"}
      BY <2>1 DEF Value, EnterPaper, Enter, Resume, Ready, Shape, Fits, Expected, Ends, Slot
    <3>2. QED
      BY <2>1, <3>1
  <2>2. CASE EnterRead(j) /\ ~EnterPaper(j)
    <3>1. "read" \notin stack[j] /\ stack'[j] = stack[j] \cup {"read"}
      BY <2>2 DEF Value, EnterRead, Enter, Resume, Ready, Shape, Fits, Expected, Ends
    <3>2. QED
      BY <2>2, <3>1
  <2>3. QED
    BY <2>1, <2>2
<1>2. /\ Moves(j) /\ AdmitsShared(b)
      /\ UNCHANGED <<laneOwner, slots, writing, waiting>>
  BY <1>0 DEF Value, EnterPaper, EnterRead, Enter, Resume, Ready, Moves
<1>3. BarriersBalanced'
  <2>1. ASSUME NEW l \in Library, NEW c \in Context, c # x \/ l # b
        PROVE  Cardinality(Holders(l, c))' = Cardinality(Holders(l, c))
    BY <1>0, <1>1, <1>2, <2>1, HoldersMoved
  <2>2. Cardinality(Holders(b, x))' = Cardinality(Holders(b, x)) + 1
    BY <1>0, <1>1, <1>2, HoldersMoved
  <2>3. CASE EnterPaper(j)
    <3>1. x = "paper" /\ papers' = [papers EXCEPT ![b] = @ + 1] /\ readers' = readers
      BY <1>0, <1>1, <2>3 DEF EnterPaper
    <3>2. QED
      BY <1>2, <2>1, <2>2, <3>1
      DEF Value, Context, Balance, ContextsBalanced, BarriersBalanced
  <2>4. CASE EnterRead(j) /\ ~EnterPaper(j)
    <3>1. x = "read" /\ readers' = [readers EXCEPT ![b] = @ + 1] /\ papers' = papers
      BY <1>0, <1>1, <2>4 DEF EnterRead
    <3>2. QED
      BY <1>2, <2>1, <2>2, <3>1
      DEF Value, Context, Balance, ContextsBalanced, BarriersBalanced
  <2>5. QED
    BY <2>3, <2>4
<1>4. SlotsBalanced' /\ SlotsLeft' /\ LanesBalanced'
  BY <1>1, <1>2, SlotsKept, LanesKept
<1>5. WriterAlone'
  <2>1. \A i \in Job : "write" \in stack[i] => def[i].library # b
    BY <1>2, NoWriter DEF Holders
  <2>2. QED
    BY <1>0, <1>1, <1>2, <2>1 DEF Balance, WriterAlone, Moves
<1>6. QED
  BY <1>3, <1>4, <1>5 DEF Balance, ContextsBalanced

LEMMA AnnounceBalance ==
  ASSUME Value, Shape, Balance, NEW j \in Job, AnnounceWrite(j)
  PROVE  Balance'
<1>0. PICK b \in Library : b = def[j].library
  BY Belongs DEF AnnounceWrite, Resume, Ready, Asking
<1>1. stack'[j] = {"waiting"} /\ stack[j] = {} /\ Moves(j)
  BY DEF Value, AnnounceWrite, Enter, Resume, Ready, Shape, Fits, Expected, Ends, Moves
<1>2. BarriersBalanced'
  <2>1. ASSUME NEW l \in Library, NEW c \in Context, c # "waiting" \/ l # b
        PROVE  Cardinality(Holders(l, c))' = Cardinality(Holders(l, c))
    BY <1>0, <1>1, <2>1, HoldersMoved
  <2>2. Cardinality(Holders(b, "waiting"))' = Cardinality(Holders(b, "waiting")) + 1
    BY <1>0, <1>1, HoldersMoved
  <2>3. QED
    BY <1>0, <1>1, <2>1, <2>2
    DEF Value, AnnounceWrite, Context, Balance, ContextsBalanced, BarriersBalanced
<1>3. SlotsBalanced' /\ SlotsLeft' /\ LanesBalanced'
  BY <1>1, SlotsKept, LanesKept DEF AnnounceWrite
<1>4. WriterAlone'
  BY <1>1 DEF Value, Balance, WriterAlone, Moves
<1>5. QED
  BY <1>2, <1>3, <1>4 DEF Balance, ContextsBalanced

LEMMA EnterWriteBalance ==
  ASSUME Value, Shape, Balance, NEW j \in Job, EnterWrite(j)
  PROVE  Balance'
<1>0. PICK b \in Library : b = def[j].library
  BY Belongs DEF EnterWrite, Resume, Ready, Asking
<1>1. stack'[j] = {"write"} /\ stack[j] = {"waiting"} /\ Moves(j)
  BY DEF Value, EnterWrite, Resume, Ready, Shape, Fits, Expected, Ends, Moves
<1>2. BarriersBalanced'
  <2>1. ASSUME NEW l \in Library, NEW c \in Context, c \notin {"waiting", "write"} \/ l # b
        PROVE  Cardinality(Holders(l, c))' = Cardinality(Holders(l, c))
    BY <1>0, <1>1, <2>1, HoldersMoved
  <2>2. /\ Cardinality(Holders(b, "waiting"))' = Cardinality(Holders(b, "waiting")) - 1
        /\ Cardinality(Holders(b, "write"))' = Cardinality(Holders(b, "write")) + 1
    BY <1>0, <1>1, HoldersMoved
  <2>3. ~writing[b] /\ writing' = [writing EXCEPT ![b] = TRUE]
    BY <1>0 DEF EnterWrite, AdmitsWriter
  <2>4. QED
    BY <1>0, <1>1, <2>1, <2>2, <2>3
    DEF Value, EnterWrite, Context, Balance, ContextsBalanced, BarriersBalanced
<1>3. SlotsBalanced' /\ SlotsLeft' /\ LanesBalanced'
  BY <1>1, SlotsKept, LanesKept DEF EnterWrite
<1>4. WriterAlone'
  <2>1. ASSUME NEW i \in Job, stack[i] \cap {"paper", "read", "write"} # {}
        PROVE  def[i].library # b
    BY <1>0, <1>1, <2>1, Empty DEF EnterWrite, Holders
  <2>2. QED
    BY <1>0, <1>1, <2>1 DEF Balance, WriterAlone, Moves
<1>5. QED
  BY <1>2, <1>3, <1>4 DEF Balance, ContextsBalanced

\* Leaving all contexts, whichever they were.
LEMMA ReleaseBalance ==
  ASSUME Value, Shape, Balance, NEW j \in Job, Release(j), def' = def
  PROVE  Balance'
<1>0. Moves(j) /\ stack'[j] = {}
  BY DEF Value, Release, Moves
<1>1. BarriersBalanced'
  <2>1. ASSUME NEW l \in Library, NEW c \in Context
        PROVE  Cardinality(Holders(l, c))'
               = IF c \in stack[j] /\ def[j].library = l
                   THEN Cardinality(Holders(l, c)) - 1
                   ELSE Cardinality(Holders(l, c))
    BY <1>0, HoldersMoved
  <2>2. ASSUME NEW l \in Library, NEW c, NEW counter \in [Library -> Int]
        PROVE  Leave(j, c, counter)[l]
               = IF c \in stack[j] /\ def[j].library = l THEN counter[l] - 1 ELSE counter[l]
    BY <2>2 DEF Leave
  <2>3. ASSUME NEW l \in Library
        PROVE  /\ papers'[l] = Cardinality(Holders(l, "paper"))'
               /\ readers'[l] = Cardinality(Holders(l, "read"))'
               /\ waiting'[l] = Cardinality(Holders(l, "waiting"))'
    BY <2>1, <2>2 DEF Value, Release, Context, Balance, ContextsBalanced, BarriersBalanced
  <2>4. ASSUME NEW l \in Library
        PROVE  Cardinality(Holders(l, "write"))' = IF writing'[l] THEN 1 ELSE 0
    <3>1. CASE "write" \in stack[j] /\ def[j].library = l
      <4>1. writing[l]
        <5>1. j \in Holders(l, "write") /\ Holders(l, "write") \subseteq Job
          BY <3>1 DEF Holders
        <5>2. Cardinality(Holders(l, "write")) # 0
          BY <5>1, Counting
        <5>3. QED
          BY <5>2 DEF Balance, ContextsBalanced, BarriersBalanced
      <4>2. ~writing'[l]
        BY <3>1 DEF Value, Release
      <4>3. QED
        BY <2>1, <3>1, <4>1, <4>2
        DEF Context, Balance, ContextsBalanced, BarriersBalanced
    <3>2. CASE ~("write" \in stack[j] /\ def[j].library = l)
      <4>1. writing'[l] = writing[l]
        BY <3>2 DEF Value, Release
      <4>2. QED
        BY <2>1, <3>2, <4>1 DEF Context, Balance, ContextsBalanced, BarriersBalanced
    <3>3. QED
      BY <3>1, <3>2
  <2>5. QED
    BY <2>3, <2>4 DEF BarriersBalanced
<1>2. SlotsBalanced' /\ SlotsLeft'
  <2>1. ASSUME NEW k \in SlotKind
        PROVE  /\ slots[k] \in Nat /\ SlotLimit[k] \in Nat
               /\ Cardinality(SlotHolders(k)) \in Nat
               /\ slots[k] + Cardinality(SlotHolders(k)) = SlotLimit[k]
    BY Counting
    DEF Balance, ContextsBalanced, SlotsBalanced, SlotsLeft, SlotLimit, SlotKind, SlotHolders
  <2>2. ASSUME NEW k \in SlotKind, "slot" \in stack[j], k = def[j].kind
        PROVE  /\ slots'[k] = slots[k] + 1
               /\ Cardinality(SlotHolders(k))' = Cardinality(SlotHolders(k)) - 1
    BY <1>0, <2>2, SlotHoldersMoved DEF Value, Release
  <2>3. ASSUME NEW k \in SlotKind, "slot" \notin stack[j] \/ k # def[j].kind
        PROVE  /\ slots'[k] = slots[k]
               /\ Cardinality(SlotHolders(k))' = Cardinality(SlotHolders(k))
    BY <1>0, <2>3, SlotHoldersMoved DEF Value, Release
  <2>4. QED
    BY <2>1, <2>2, <2>3 DEF SlotsBalanced, SlotsLeft
<1>3. LanesBalanced'
  BY <1>0, NoJobIsNoJob DEF Value, Release, Balance, ContextsBalanced, LanesBalanced, Moves
<1>4. WriterAlone'
  BY <1>0 DEF Balance, WriterAlone, Moves
<1>5. QED
  BY <1>1, <1>2, <1>3, <1>4 DEF Balance, ContextsBalanced

\* Before any task has entered anything.
Untaken ==
  /\ stack = [j \in Job |-> {}]
  /\ laneOwner = [l \in Library \X Citekey |-> NoJob]
  /\ slots = SlotLimit
  /\ papers = [l \in Library |-> 0]
  /\ readers = [l \in Library |-> 0]
  /\ writing = [l \in Library |-> FALSE]
  /\ waiting = [l \in Library |-> 0]

LEMMA NothingHeld == Untaken => Balance
<1> SUFFICES ASSUME Untaken
             PROVE  Balance
  OBVIOUS
<1> USE DEF Untaken
<1>1. ASSUME NEW l, NEW c
      PROVE  Cardinality(Holders(l, c)) = 0
  BY FS_EmptySet DEF Holders
<1>2. ASSUME NEW k
      PROVE  Cardinality(SlotHolders(k)) = 0
  BY FS_EmptySet DEF SlotHolders
<1>3. BarriersBalanced
  BY <1>1 DEF BarriersBalanced
<1>4. SlotsBalanced /\ SlotsLeft
  BY <1>2 DEF SlotsBalanced, SlotsLeft, SlotLimit
<1>5. LanesBalanced
  BY NoJobIsNoJob DEF LanesBalanced
<1>6. WriterAlone
  BY DEF WriterAlone
<1>7. QED
  BY <1>3, <1>4, <1>5, <1>6 DEF Balance, ContextsBalanced

LEMMA NextBalance ==
  ASSUME Value, Shape, Balance, [Next]_vars
  PROVE  Balance'
<1> USE DEF taskVars
<1>1. ASSUME NEW k \in Job, NEW d \in Definition, NewJob(k, d), UNCHANGED <<stack, lockVars>>
      PROVE  Balance'
  <2>1. stack[k] = {}
    BY <1>1 DEF NewJob, Shape, Fits, Expected, Ends
  <2>2. \A i \in Job : stack[i] # {} => def'[i] = def[i]
    BY <1>1, <2>1 DEF Value, NewJob
  <2>3. QED
    BY <1>1, <2>2, BalanceKept
<1>2. ASSUME UNCHANGED <<def, stack, lockVars>>
      PROVE  Balance'
  BY <1>2, BalanceKept
<1>3. CASE Request
  <2>1. ASSUME NEW j \in Job, NEW k \in Job, Retry(j, k) \/ RetryInterrupted(j, k)
        PROVE  Balance'
    <3>1. def[j] \in Definition
      BY <2>1 DEF Retry, Retryable, RetryInterrupted, Shape, Fits
    <3>2. QED
      BY <1>1, <2>1, <3>1 DEF Retry, Enqueue, RetryInterrupted
  <2>2. ASSUME NEW j \in Job, NEW d \in Definition, Enqueue(j, d)
        PROVE  Balance'
    BY <1>1, <2>2 DEF Enqueue
  <2>3. ASSUME NEW j \in Job, UserCancel(j)
        PROVE  Balance'
    BY <1>2, <2>3 DEF UserCancel, Cancel
  <2>4. ASSUME NEW j \in Job, NEW k \in Job, NEW d \in Definition, Spawn(j, k, d)
        PROVE  Balance'
    BY <1>1, <2>4 DEF Spawn
  <2>5. QED
    BY <1>3, <2>1, <2>2, <2>3, <2>4 DEF Request
<1>4. ASSUME NEW j \in Job, TaskStep(j) \/ EndWork(j)
      PROVE  Balance'
  <2>1. CASE Acquire(j)
    <3>1. CASE Suspend(j)
      BY <1>2, <3>1 DEF Suspend
    <3>2. QED
      BY <2>1, <3>1, TakeLaneBalance, TakeSlotBalance, EnterSharedBalance,
         AnnounceBalance, EnterWriteBalance DEF Acquire
  <2>2. CASE Unwind(j) \/ Abandon(j) \/ Settle(j) \/ FinishFails(j)
    BY <2>2, ReleaseBalance DEF Unwind, Abandon, Settle, FinishFails, Failure, Finish
  <2>3. CASE StartWorker(j) \/ Judge(j) \/ Record(j) \/ Awake(j)
    BY <1>2, <2>3 DEF StartWorker, Judge, Record, Awake
  <2>4. CASE EndWork(j)
    BY <1>2, <2>4 DEF EndWork, CommitWork, ReturnWork, CommitRefused, FailWork, StopWork,
       InterruptWork, Raise
  <2>5. QED
    BY <1>4, <2>1, <2>2, <2>3, <2>4 DEF TaskStep
<1>5. CASE Shutdown \/ ShutdownNext \/ UNCHANGED vars
  BY <1>2, <1>5 DEF Shutdown, ShutdownNext, ShutdownCancel, Cancel, Drain, Expire, Forced, Stopped,
     vars
<1>6. CASE Restart
  <2>1. Untaken'
    BY <1>6 DEF Restart, Untaken
  <2>2. QED
    BY <2>1, NothingHeld, PTL
<1>7. QED
  BY <1>3, <1>4, <1>5, <1>6 DEF Next

LEMMA InitBalance == Init => Balance
  BY NothingHeld DEF Init, Untaken

LEMMA BalanceTyped == Value /\ Balance => TypeOK
<1> SUFFICES ASSUME Value, Balance
             PROVE  TypeOK
  OBVIOUS
<1>1. ASSUME NEW l \in Library, NEW c
      PROVE  Cardinality(Holders(l, c)) \in Nat
  BY Counting DEF Holders
<1>2. /\ papers \in [Library -> Nat]
      /\ readers \in [Library -> Nat]
      /\ waiting \in [Library -> Nat]
  BY <1>1 DEF Value, Balance, ContextsBalanced, BarriersBalanced
<1>3. slots \in [SlotKind -> Nat]
  BY DEF Value, Balance, SlotsLeft
<1>4. QED
  BY <1>2, <1>3 DEF Value, TypeOK

-----------------------------------------------------------------------------
(* Layer 4: exclusion. *)

Inductive == Value /\ Shape /\ Balance

LEMMA InductiveHolds == Spec => []Inductive
<1>1. Init => Inductive
  BY InitValue, InitShape, InitBalance DEF Inductive
<1>2. Inductive /\ [Next]_vars => Inductive'
  BY NextValue, NextShape, NextBalance DEF Inductive
<1>3. QED
  BY <1>1, <1>2, PTL DEF Spec

(***************************************************************************)
(* Every variable stays in its range; in particular no counter of a        *)
(* barrier and no number of free permits ever becomes negative.            *)
(***************************************************************************)
THEOREM TypeCorrect == Spec => []TypeOK
<1>1. Inductive => TypeOK
  BY BalanceTyped DEF Inductive
<1>2. QED
  BY <1>1, InductiveHolds, PTL

(***************************************************************************)
(* Lanes, permits and barriers always tell who is inside, whichever tasks  *)
(* were cancelled where they waited.                                       *)
(***************************************************************************)
THEOREM Balanced == Spec => []ContextsBalanced
<1>1. Inductive => ContextsBalanced
  BY DEF Inductive, Balance
<1>2. QED
  BY <1>1, InductiveHolds, PTL

\* Tasks that have all their contexts are not in conflict.
LEMMA FullExcludes ==
  ASSUME Inductive, NEW j \in Job, NEW k \in Job, j # k,
         def[j] \in JobDefinition, def[k] \in JobDefinition,
         stack[j] = Full(def[j]), stack[k] = Full(def[k])
  PROVE  ~Conflict(def[j], def[k])
<1> SUFFICES ASSUME Conflict(def[j], def[k])
             PROVE  FALSE
  OBVIOUS
<1>1. def[j].library = def[k].library
  BY DEF Conflict
<1>2. \A i \in {j, k} : def[i].scope \in Scope
  BY DEF JobDefinition
<1>3. CASE def[j].scope = "paper" /\ def[k].scope = "paper"
  <2>1. "lane" \in stack[j] /\ "lane" \in stack[k]
    BY <1>3 DEF Full
  <2>2. Lane(def[j]) = Lane(def[k]) /\ Lane(def[j]) \in Library \X Citekey
    BY <1>3 DEF Conflict, Lane, JobDefinition
  <2>3. QED
    BY <2>1, <2>2 DEF Inductive, Balance, ContextsBalanced, LanesBalanced
<1>4. CASE def[j].scope = "library_write" /\ def[k].scope # "remote"
  <2>1. "write" \in stack[j] /\ stack[k] \cap {"paper", "read", "write"} # {}
    BY <1>2, <1>4 DEF Full, Scope
  <2>2. QED
    BY <1>1, <2>1 DEF Inductive, Balance, WriterAlone
<1>5. CASE def[k].scope = "library_write" /\ def[j].scope # "remote"
  <2>1. "write" \in stack[k] /\ stack[j] \cap {"paper", "read", "write"} # {}
    BY <1>2, <1>5 DEF Full, Scope
  <2>2. QED
    BY <1>1, <2>1 DEF Inductive, Balance, WriterAlone
<1>6. QED
  BY <1>3, <1>4, <1>5 DEF Conflict

\* Another running task, seen by the one that has the loop, is in its worker.
LEMMA OthersInside ==
  ASSUME Inductive, NEW j \in Job, NEW k \in Running, j # k, Runs(j)
  PROVE  k \in Job /\ def[k] \in JobDefinition /\ stack[k] = Full(def[k])
<1>1. Fits(k) /\ k \in Job
  BY DEF Running, Inductive, Shape
<1>2. pc[k] \in {"work", "commit"}
  BY <1>1, NoJobIsNoJob DEF Fits, Running, Runs, Active, Sync
<1>3. QED
  BY <1>1, <1>2, DefinitionsTyped DEF Fits, Running, Expected, Ends

LEMMA StartExcludes ==
  ASSUME Inductive, NEW j \in Job, StartWorker(j), NEW k \in Running, j # k
  PROVE  ~Conflict(def[j], def[k]) /\ ~Conflict(def[k], def[j])
<1>1. pc[j] = "invoke" /\ Runs(j)
  BY DEF StartWorker, Resume, Ready
<1>2. Fits(j)
  BY DEF Inductive, Shape
<1>3. def[j] \in JobDefinition /\ stack[j] = Full(def[j])
  BY <1>1, <1>2, DefinitionsTyped DEF Fits, Expected, Ends
<1>4. QED
  BY <1>1, <1>3, OthersInside, FullExcludes

\* Only StartWorker makes a job run, and nothing changes a definition in use.
LEMMA RunningSteps ==
  ASSUME Inductive, [Next]_vars,
         ~\E j \in Job : StartWorker(j)
  PROVE  \A i \in Job : state'[i] = "running" =>
           state[i] = "running" /\ def'[i] = def[i]
<1> SUFFICES ASSUME NEW i \in Job, state'[i] = "running"
             PROVE  state[i] = "running" /\ def'[i] = def[i]
  OBVIOUS
<1> USE DEF Inductive, Value
<1>1. CASE Request
  <2>1. ASSUME NEW j \in Job, NEW d, Enqueue(j, d)
        PROVE  state[i] = "running" /\ def'[i] = def[i]
    BY <2>1 DEF Enqueue, NewJob
  <2>2. ASSUME NEW j \in Job, NEW k \in Job, RetryInterrupted(j, k)
        PROVE  state[i] = "running" /\ def'[i] = def[i]
    BY <2>2 DEF RetryInterrupted, NewJob
  <2>3. ASSUME NEW j \in Job, NEW k \in Job, NEW d, Spawn(j, k, d)
        PROVE  state[i] = "running" /\ def'[i] = def[i]
    BY <2>3 DEF Spawn, NewJob
  <2>4. ASSUME NEW j \in Job, UserCancel(j)
        PROVE  state[i] = "running" /\ def'[i] = def[i]
    BY <2>4 DEF UserCancel, Cancel
  <2>5. QED
    BY <1>1, <2>1, <2>2, <2>3, <2>4 DEF Request, Retry
<1>2. ASSUME NEW j \in Job, TaskStep(j) \/ EndWork(j), ~StartWorker(j)
      PROVE  state[i] = "running" /\ def'[i] = def[i]
  <2>1. CASE i # j
    BY <1>2, <2>1, OwnOnly DEF Untouched
  <2>2. CASE i = j
    <3>1. CASE Acquire(j)
      BY <2>2, <3>1 DEF Acquire, TakeLane, TakeSlot, EnterPaper, EnterRead, AnnounceWrite,
         EnterWrite, Suspend, Enter
    <3>2. CASE Judge(j) \/ Unwind(j) \/ Abandon(j) \/ Record(j) \/ Awake(j)
      BY <2>2, <3>2 DEF Judge, Judgement, Unwind, Abandon, Record, Awake
    <3>3. CASE Settle(j) \/ FinishFails(j)
      <4>1. state'[j] \in Outcome
        BY <3>3 DEF Settle, FinishFails, Failure, Finish, Shape, Fits, Ends, Outcome
      <4>2. QED
        BY <2>2, <4>1 DEF Outcome
    <3>4. CASE EndWork(j)
      BY <2>2, <3>4 DEF EndWork, CommitWork, ReturnWork, CommitRefused, FailWork, StopWork,
         InterruptWork, Raise
    <3>5. QED
      BY <1>2, <3>1, <3>2, <3>3, <3>4 DEF TaskStep
  <2>3. QED
    BY <2>1, <2>2
<1>3. CASE Shutdown \/ ShutdownNext \/ UNCHANGED vars
  <2>1. ASSUME NEW j \in Job, ShutdownCancel(j)
        PROVE  state[i] = "running" /\ def'[i] = def[i]
    BY <2>1 DEF ShutdownCancel, Cancel
  <2>2. QED
    BY <1>3, <2>1 DEF Shutdown, ShutdownNext, Drain, Expire, Forced, Stopped, vars
<1>4. CASE Restart
  BY <1>4 DEF Restart
<1>5. QED
  BY <1>1, <1>2, <1>3, <1>4 DEF Next

(***************************************************************************)
(* Jobs that could touch the same files never run together, for any number *)
(* of jobs, papers and libraries.                                          *)
(***************************************************************************)
THEOREM Exclusion == Spec => []NoConflictRuns
<1>1. Init => NoConflictRuns
  BY DEF Init, NoConflictRuns, Running
<1>2. ASSUME Inductive, NoConflictRuns, [Next]_vars
      PROVE  NoConflictRuns'
  <2>1. CASE ~\E j \in Job : StartWorker(j)
    BY <1>2, <2>1, RunningSteps DEF NoConflictRuns, Running
  <2>2. ASSUME NEW j \in Job, StartWorker(j)
        PROVE  NoConflictRuns'
    <3>1. Running' \subseteq Running \cup {j} /\ def' = def
      BY <1>2, <2>2 DEF Inductive, Value, StartWorker, Running
    <3>2. QED
      BY <1>2, <2>2, <3>1, StartExcludes DEF NoConflictRuns
  <2>3. QED
    BY <2>1, <2>2
<1>3. QED
  BY <1>1, <1>2, InductiveHolds, PTL DEF Spec

-----------------------------------------------------------------------------
(* Cancellation and commit. *)

Decided(j) ==
  /\ token[j] # "clear" =>
       state[j] # "succeeded" /\ (pc[j] \in Ends => ending[j] # "succeeded")
  /\ committed[j] \/ recorded[j] # "none" => state[j] # "absent"
  /\ recorded[j] # "none" => pc[j] \in {"none", "clear", "done"}
  /\ committed[j] /\ def[j].commit = "guarded" =>
       /\ token[j] = "clear"
       /\ pc[j] \in Sync \cup {"done"}
       /\ pc[j] = "unwind" => ending[j] = "Exception"
       /\ pc[j] \in Ends => ending[j] # "cancelled"
       /\ "cancelled" \notin {state[j], recorded[j]}

LEMMA StepDecides ==
  ASSUME Inductive, NEW j \in Job, \A i \in Job : Decided(i),
         TaskStep(j) \/ EndWork(j)
  PROVE  Decided(j)'
<1>0. Fits(j) /\ Decided(j)
  BY DEF Inductive, Shape
<1> USE <1>0 DEF Inductive, Value, Decided, Ends, Sync
<1>1. CASE Acquire(j)
  BY <1>1 DEF Acquire, TakeLane, TakeSlot, EnterPaper, EnterRead, AnnounceWrite, EnterWrite,
     Suspend, Enter, Resume, Ready, taskVars, tokenVars, diskVars, recordVars, Asking
<1>2. CASE StartWorker(j)
  BY <1>2 DEF StartWorker, Resume, Ready, tokenVars, recordVars
<1>3. CASE CommitWork(j)
  BY <1>3 DEF CommitWork, WorkerResumes, recordVars, Fits, Active
<1>4. CASE ReturnWork(j)
  BY <1>4 DEF ReturnWork, WorkerResumes, tokenVars, recordVars
<1>5. CASE CommitRefused(j) \/ FailWork(j) \/ StopWork(j) \/ InterruptWork(j)
  BY <1>5 DEF CommitRefused, FailWork, StopWork, InterruptWork, WorkerResumes, Raise,
     tokenVars, diskVars, recordVars
<1>6. CASE Awake(j)
  BY <1>6 DEF Awake, diskVars, recordVars
<1>7. CASE Judge(j)
  BY <1>7 DEF Judge, Judgement, tokenVars, diskVars, recordVars
<1>8. CASE Unwind(j)
  <2>1. token[j] # "clear" => Verdict(j) # "succeeded"
    BY DEF Verdict
  <2>2. committed[j] /\ def[j].commit = "guarded" => Verdict(j) = "failed"
    BY <1>8 DEF Unwind, Verdict
  <2>3. QED
    BY <1>8, <2>1, <2>2 DEF Unwind, tokenVars, diskVars, recordVars
<1>9. CASE Abandon(j)
  BY <1>9 DEF Abandon, Asking, tokenVars, diskVars, recordVars
<1>10. CASE Record(j)
  BY <1>10 DEF Record, tokenVars, recordVars, Fits, Active
<1>11. CASE Settle(j)
  BY <1>11 DEF Settle, Finish, tokenVars, recordVars, Fits, Outcome
<1>12. CASE FinishFails(j)
  BY <1>12 DEF FinishFails, Failure, Finish, tokenVars, diskVars, recordVars
<1>13. QED
  BY <1>1, <1>2, <1>3, <1>4, <1>5, <1>6, <1>7, <1>8, <1>9, <1>10, <1>11, <1>12
  DEF TaskStep, EndWork

LEMMA NewDecides ==
  ASSUME Inductive, \A i \in Job : Decided(i), NEW k \in Job, NEW d, NewJob(k, d),
         UNCHANGED <<ending, token, committed, recorded>>,
         state'[k] = "queued",
         \A i \in Job \ {k} :
           state'[i] = state[i] \/ (state'[i] = "lost" /\ state[i] # "absent")
  PROVE  \A i \in Job : Decided(i)'
<1>1. ASSUME NEW i \in Job, i # k
      PROVE  Decided(i)'
  <2>1. def'[i] = def[i] /\ pc'[i] = pc[i]
    BY <1>1 DEF NewJob, Inductive, Value
  <2>2. QED
    BY <1>1, <2>1 DEF Decided
<1>2. Decided(k)'
  <2>1. ~committed[k] /\ recorded[k] = "none"
    BY DEF NewJob, Decided, Inductive, Value
  <2>2. pc'[k] \notin Ends
    BY DEF NewJob, Inductive, Value, Entry, Ends
  <2>3. QED
    BY <2>1, <2>2 DEF Decided
<1>3. QED
  BY <1>1, <1>2

LEMMA CancelDecides ==
  ASSUME Inductive, \A i \in Job : Decided(i), NEW j \in Job,
         UserCancel(j) \/ ShutdownCancel(j)
  PROVE  \A i \in Job : Decided(i)'
<1>1. PICK r : Cancel(j, r)
  BY DEF UserCancel, ShutdownCancel
<1>2. pc[j] \notin Ends /\ (pc[j] \in Sync => loop = j) /\ loop = NoJob
  BY <1>1, NoJobIsNoJob DEF Cancel, Inductive, Shape, Fits, Sync
<1>3. QED
  BY <1>1, <1>2
  DEF Cancel, Inductive, Value, Decided, Ends, Sync, taskVars, diskVars, recordVars

LEMMA NextDecides ==
  ASSUME Inductive, \A i \in Job : Decided(i), [Next]_vars
  PROVE  \A i \in Job : Decided(i)'
<1>0. Inductive /\ \A i \in Job : Decided(i)
  OBVIOUS
<1>1. CASE Request
  <2>1. ASSUME NEW k \in Job, NEW d, Enqueue(k, d)
        PROVE  \A i \in Job : Decided(i)'
    <3>1. NewJob(k, d)
      BY <2>1 DEF Enqueue
    <3>2. UNCHANGED <<ending, token, committed, recorded>>
      BY <2>1 DEF Enqueue, tokenVars, diskVars, recordVars
    <3>3. /\ state'[k] = "queued"
          /\ \A i \in Job \ {k} :
               state'[i] = state[i] \/ (state'[i] = "lost" /\ state[i] # "absent")
      BY <2>1 DEF Inductive, Value, Enqueue
    <3>4. QED
      BY <1>0, <3>1, <3>2, <3>3, NewDecides
  <2>2. ASSUME NEW j \in Job, NEW k \in Job, RetryInterrupted(j, k)
        PROVE  \A i \in Job : Decided(i)'
    <3>1. NewJob(k, def[j])
      BY <2>2 DEF RetryInterrupted
    <3>2. UNCHANGED <<ending, token, committed, recorded>>
      BY <2>2 DEF RetryInterrupted, tokenVars, recordVars
    <3>3. /\ state'[k] = "queued"
          /\ \A i \in Job \ {k} :
               state'[i] = state[i] \/ (state'[i] = "lost" /\ state[i] # "absent")
      BY <2>2 DEF Inductive, Value, RetryInterrupted
    <3>4. QED
      BY <1>0, <3>1, <3>2, <3>3, NewDecides
  <2>3. ASSUME NEW j \in Job, NEW k \in Job, NEW d, Spawn(j, k, d)
        PROVE  \A i \in Job : Decided(i)'
    <3>1. NewJob(k, d)
      BY <2>3 DEF Spawn
    <3>2. UNCHANGED <<ending, token, committed, recorded>>
      BY <2>3 DEF Spawn, tokenVars, diskVars, recordVars
    <3>3. /\ state'[k] = "queued"
          /\ \A i \in Job \ {k} :
               state'[i] = state[i] \/ (state'[i] = "lost" /\ state[i] # "absent")
      BY <2>3 DEF Inductive, Value, Spawn
    <3>4. QED
      BY <1>0, <3>1, <3>2, <3>3, NewDecides
  <2>4. ASSUME NEW j \in Job, UserCancel(j)
        PROVE  \A i \in Job : Decided(i)'
    BY <2>4, CancelDecides
  <2>5. QED
    BY <1>1, <2>1, <2>2, <2>3, <2>4 DEF Request, Retry
<1>2. ASSUME NEW j \in Job, TaskStep(j) \/ EndWork(j)
      PROVE  \A i \in Job : Decided(i)'
  <2>1. ASSUME NEW i \in Job, i # j
        PROVE  Decided(i)'
    BY <1>2, <2>1, OwnOnly DEF Inductive, Untouched, Decided
  <2>2. QED
    BY <1>2, <2>1, StepDecides
<1>3. CASE Shutdown \/ ShutdownNext \/ UNCHANGED vars
  BY <1>3, CancelDecides
  DEF Shutdown, ShutdownNext, Drain, Expire, Forced, Stopped, vars, Decided, taskVars, tokenVars,
      diskVars, recordVars
<1>4. CASE Restart
  BY <1>4 DEF Restart, Inductive, Value, Decided, Ends, Sync, recordVars
<1>5. QED
  BY <1>1, <1>2, <1>3, <1>4 DEF Next

(***************************************************************************)
(* A job whose cancellation was accepted does not end as succeeded, and    *)
(* one that began its commit and did not suspend after it is not reported  *)
(* or recorded as cancelled.                                               *)
(***************************************************************************)
THEOREM CancelExcludesCommit == Spec => []CancelOrCommit
<1> DEFINE AllDecided == \A j \in Job : Decided(j)
<1>1. Init => AllDecided
  BY DEF Init, Decided, Ends, Sync
<1>2. Inductive /\ AllDecided /\ [Next]_vars => AllDecided'
  BY NextDecides
<1>3. AllDecided => CancelOrCommit
  BY DEF Decided, CancelOrCommit
<1>4. QED
  BY <1>1, <1>2, <1>3, InductiveHolds, PTL DEF Spec

-----------------------------------------------------------------------------
(* The queue implements JobSystem. *)

\* JobSystem speaks of the same definitions.
LEMMA Vocabulary ==
  /\ Promise!Outcome = Outcome
  /\ \A d, e : Promise!Conflict(d, e) <=> Conflict(d, e)
  /\ \A d : Promise!UsesSlot(d) <=> UsesSlot(d)
  /\ Promise!SlotLimit = SlotLimit
  /\ Promise!Running = Running
  /\ \A S : Promise!Cardinality(S) = Cardinality(S)
BY DEF Promise!Outcome, Outcome, Promise!Conflict, Conflict, Promise!UsesSlot, UsesSlot,
   Promise!SlotKind, SlotKind, Promise!SlotLimit, SlotLimit, Promise!Running, Running,
   Promise!Cardinality, Cardinality

(***************************************************************************)
(* A task on its way to the worker is that of a queued job, or of one that *)
(* was cancelled and is about to be told; only a worker waits for a child. *)
(***************************************************************************)
Coming(j) ==
  /\ pc[j] \in Asking \cup {"invoke"} =>
       \/ state[j] = "queued"
       \/ state[j] = "cancelled" /\ kill[j]
  /\ child[j] # NoJob => pc[j] = "work"

LEMMA NewComing ==
  ASSUME Inductive, \A j \in Job : Coming(j), NEW k \in Job, NEW d, NewJob(k, d),
         UNCHANGED kill, state'[k] = "queued",
         \A i \in Job \ {k} :
           /\ child'[i] # NoJob => child[i] # NoJob \/ pc[i] = "work"
           /\ state'[i] = state[i] \/ state[i] = "interrupted",
         child'[k] = child[k]
  PROVE  \A j \in Job : Coming(j)'
<1>1. Coming(k)'
  <2>1. child[k] = NoJob
    BY DEF NewJob, Inductive, Shape, Fits, Coming
  <2>2. QED
    BY <2>1 DEF Coming
<1>2. ASSUME NEW i \in Job, i # k
      PROVE  Coming(i)'
  <2>1. pc'[i] = pc[i]
    BY <1>2 DEF NewJob, Inductive, Value
  <2>2. QED
    BY <1>2, <2>1 DEF Coming
<1>3. QED
  BY <1>1, <1>2

LEMMA NextComing ==
  ASSUME Inductive, \A j \in Job : Coming(j), [Next]_vars
  PROVE  \A j \in Job : Coming(j)'
<1> USE DEF Inductive, Value, Coming, Asking
<1>1. CASE Request
  <2>1. ASSUME NEW j \in Job, NEW d \in Definition, Enqueue(j, d)
        PROVE  \A i \in Job : Coming(i)'
    BY <2>1, NewComing DEF Enqueue, tokenVars
  <2>2. ASSUME NEW j \in Job, NEW k \in Job, Retry(j, k)
        PROVE  \A i \in Job : Coming(i)'
    <3>1. def[j] \in Definition
      BY <2>2 DEF Retry, Retryable, Shape, Fits
    <3>2. QED
      BY <2>1, <2>2, <3>1 DEF Retry
  <2>3. ASSUME NEW j \in Job, NEW k \in Job, RetryInterrupted(j, k)
        PROVE  \A i \in Job : Coming(i)'
    BY <2>3, NewComing DEF RetryInterrupted, tokenVars
  <2>4. ASSUME NEW j \in Job, NEW k \in Job, NEW d \in Definition, Spawn(j, k, d)
        PROVE  \A i \in Job : Coming(i)'
    <3>1. k # j
      BY <2>4 DEF Spawn, NewJob, WorkerResumes, Shape, Fits
    <3>2. QED
      BY <2>4, <3>1, NewComing DEF Spawn, WorkerResumes, tokenVars
  <2>5. ASSUME NEW j \in Job, UserCancel(j)
        PROVE  \A i \in Job : Coming(i)'
    BY <2>5 DEF UserCancel, Cancel, taskVars
  <2>6. QED
    BY <1>1, <2>1, <2>2, <2>3, <2>4, <2>5 DEF Request
<1>2. ASSUME NEW j \in Job, TaskStep(j) \/ EndWork(j)
      PROVE  \A i \in Job : Coming(i)'
  <2>1. CASE Acquire(j)
    BY <2>1 DEF Acquire, TakeLane, TakeSlot, EnterPaper, EnterRead, AnnounceWrite,
       EnterWrite, Suspend, Enter, Resume, Ready, taskVars, tokenVars
  <2>2. CASE StartWorker(j)
    BY <2>2 DEF StartWorker, Resume, Ready, tokenVars
  <2>3. CASE EndWork(j)
    BY <2>3 DEF EndWork, CommitWork, ReturnWork, CommitRefused, FailWork, StopWork,
       InterruptWork, Raise, WorkerResumes, tokenVars
  <2>4. CASE Judge(j) \/ Unwind(j) \/ Abandon(j) \/ Record(j) \/ Awake(j)
    BY <2>4 DEF Judge, Judgement, Unwind, Abandon, Record, Awake, tokenVars
  <2>5. CASE Settle(j) \/ FinishFails(j)
    BY <2>5 DEF Settle, FinishFails, Failure, Finish, tokenVars
  <2>6. QED
    BY <1>2, <2>1, <2>2, <2>3, <2>4, <2>5 DEF TaskStep
<1>3. CASE Shutdown \/ ShutdownNext \/ UNCHANGED vars
  BY <1>3 DEF Shutdown, ShutdownNext, ShutdownCancel, Cancel, Drain, Expire, Forced, Stopped, vars,
     taskVars, tokenVars
<1>4. CASE Restart
  BY <1>4 DEF Restart
<1>5. QED
  BY <1>1, <1>2, <1>3, <1>4 DEF Next

\* An attempt has a marker while it runs, or when a write after it failed.
MarkerFits ==
  \A j \in marker : Promise!MayBeInterrupted(j)

LEMMA NextMarkers ==
  ASSUME Inductive, MarkerFits, [Next]_vars
  PROVE  MarkerFits'
<1> USE DEF Promise!MayBeInterrupted, MarkerFits, Inductive, Value
<1>0. ASSUME marker' \subseteq marker,
             \A i \in marker' : state[i] \in {"running", "interrupted", "failed"} =>
                                  state'[i] = state[i]
      PROVE  MarkerFits'
  BY <1>0
<1>1. CASE Request
  <2>1. ASSUME NEW j \in Job, NEW d, Enqueue(j, d)
        PROVE  MarkerFits'
    BY <2>1 DEF Enqueue, NewJob, diskVars
  <2>2. ASSUME NEW j \in Job, NEW k \in Job, RetryInterrupted(j, k)
        PROVE  MarkerFits'
    BY <2>2 DEF RetryInterrupted, NewJob
  <2>3. ASSUME NEW j \in Job, NEW k \in Job, NEW d, Spawn(j, k, d)
        PROVE  MarkerFits'
    BY <2>3 DEF Spawn, NewJob, diskVars
  <2>4. ASSUME NEW j \in Job, UserCancel(j)
        PROVE  MarkerFits'
    BY <2>4 DEF UserCancel, Cancel, diskVars
  <2>5. QED
    BY <1>1, <2>1, <2>2, <2>3, <2>4 DEF Request, Retry
<1>2. ASSUME NEW j \in Job, TaskStep(j) \/ EndWork(j)
      PROVE  MarkerFits'
  <2>1. CASE Acquire(j)
    BY <2>1 DEF Acquire, TakeLane, TakeSlot, EnterPaper, EnterRead, AnnounceWrite,
       EnterWrite, Suspend, Enter, diskVars
  <2>2. CASE StartWorker(j)
    BY <2>2 DEF StartWorker
  <2>3. CASE EndWork(j)
    BY <2>3 DEF EndWork, CommitWork, ReturnWork, CommitRefused, FailWork, StopWork,
       InterruptWork, Raise, diskVars
  <2>4. CASE Judge(j) \/ Unwind(j) \/ Abandon(j) \/ Record(j) \/ Awake(j)
    BY <2>4 DEF Judge, Judgement, Unwind, Abandon, Record, Awake, Release, diskVars
  <2>5. CASE Settle(j)
    BY <2>5 DEF Settle, Finish
  <2>6. CASE FinishFails(j)
    BY <2>6 DEF FinishFails, Failure, Finish, diskVars
  <2>7. QED
    BY <1>2, <2>1, <2>2, <2>3, <2>4, <2>5, <2>6 DEF TaskStep
<1>3. CASE Shutdown \/ ShutdownNext \/ UNCHANGED vars
  BY <1>3 DEF Shutdown, ShutdownNext, ShutdownCancel, Cancel, Drain, Expire, Forced, Stopped, vars,
     diskVars
<1>4. CASE Restart
  BY <1>4 DEF Restart
<1>5. QED
  BY <1>1, <1>2, <1>3, <1>4 DEF Next

\* A worker that starts finds its slot free in the sense of JobSystem.
LEMMA StartHasSlot ==
  ASSUME Inductive, NEW j \in Job, StartWorker(j), UsesSlot(def[j])
  PROVE  Cardinality(Promise!InSlot(def[j].kind)) < SlotLimit[def[j].kind]
<1> DEFINE k == def[j].kind
           Inside == Promise!InSlot(k)
           Holding == SlotHolders(k)
<1>1. pc[j] = "invoke" /\ Runs(j) /\ state[j] # "running" /\ Fits(j)
  BY DEF StartWorker, Resume, Ready, Inductive, Shape, Fits, Active, Sync, Ends
<1>2. j \in Holding /\ j \notin Inside
  <2>1. "slot" \in stack[j]
    BY <1>1 DEF Fits, Expected, Full, Slot, UsesSlot, Ends
  <2>2. QED
    BY <1>1, <2>1, Vocabulary DEF SlotHolders, Promise!InSlot, Running
<1>3. Inside \subseteq Holding
  <2>1. SUFFICES ASSUME NEW i \in Inside
                 PROVE  i \in Holding
    OBVIOUS
  <2>2. i \in Running /\ i # j /\ UsesSlot(def[i]) /\ def[i].kind = k
    BY <1>1, Vocabulary DEF Promise!InSlot, Running
  <2>3. i \in Job /\ stack[i] = Full(def[i])
    BY <1>1, <2>2, OthersInside
  <2>4. "slot" \in stack[i]
    BY <2>2, <2>3 DEF Full, Slot, UsesSlot
  <2>5. QED
    BY <2>2, <2>3, <2>4 DEF SlotHolders
<1>4. IsFiniteSet(Holding) /\ Holding \subseteq Job
  BY JobsFinite, FS_Subset DEF SlotHolders
<1>5. Cardinality(Inside) < Cardinality(Holding)
  <2>1. Inside \subseteq Holding \ {j}
    BY <1>2, <1>3
  <2>2. IsFiniteSet(Holding \ {j}) /\ Cardinality(Holding \ {j}) = Cardinality(Holding) - 1
    BY <1>2, <1>4, FS_RemoveElement
  <2>3. Cardinality(Inside) <= Cardinality(Holding \ {j}) /\ IsFiniteSet(Inside)
    BY <2>1, <2>2, FS_Subset
  <2>4. Cardinality(Inside) \in Nat /\ Cardinality(Holding) \in Nat
    BY <1>4, <2>3, FS_CardinalityType
  <2>5. QED
    BY <2>2, <2>3, <2>4
<1>6. Cardinality(Holding) <= SlotLimit[k]
  <2>1. k \in SlotKind
    BY DEF UsesSlot
  <2>2. slots[k] \in Nat /\ slots[k] + Cardinality(Holding) = SlotLimit[k]
    BY <2>1 DEF Inductive, Balance, ContextsBalanced, SlotsBalanced, SlotsLeft
  <2>3. Cardinality(Holding) \in Nat
    BY <1>4, FS_CardinalityType
  <2>4. QED
    BY <2>2, <2>3
<1>7. QED
  <2>1. Cardinality(Inside) \in Nat /\ Cardinality(Holding) \in Nat
    BY <1>3, <1>4, FS_Subset, FS_CardinalityType
  <2>2. SlotLimit[k] \in Nat
    BY DEF UsesSlot, SlotKind, SlotLimit
  <2>3. QED
    BY <1>5, <1>6, <2>1, <2>2

LEMMA NextPromised ==
  ASSUME Inductive, MarkerFits, \A j \in Job : Coming(j), [Next]_vars
  PROVE  [Promise!Next]_(Promise!vars)
<1> USE DEF Promise!Next, Promise!vars
<1>1. CASE Request
  <2>1. ASSUME NEW j \in Job, NEW d \in Definition, Enqueue(j, d)
        PROVE  Promise!Enqueue(j, d)
    BY <2>1 DEF Enqueue, NewJob, Promise!Enqueue
  <2>2. ASSUME NEW j \in Job, NEW k \in Job, Retry(j, k)
        PROVE  Promise!Next
    <3>1. def[j] \in Definition
      BY <2>2 DEF Retry, Retryable, Inductive, Shape, Fits
    <3>2. QED
      BY <2>1, <2>2, <3>1 DEF Retry
  <2>3. ASSUME NEW j \in Job, NEW k \in Job, RetryInterrupted(j, k)
        PROVE  Promise!Replace(j, k)
    BY <2>3 DEF RetryInterrupted, NewJob, Promise!Replace
  <2>4. ASSUME NEW j \in Job, NEW k \in Job, NEW d \in Definition, Spawn(j, k, d)
        PROVE  Promise!Enqueue(k, d)
    BY <2>4 DEF Spawn, NewJob, Promise!Enqueue
  <2>5. ASSUME NEW j \in Job, UserCancel(j)
        PROVE  [Promise!Next]_(Promise!vars)
    BY <2>5 DEF UserCancel, Cancel, Promise!CancelQueued
  <2>6. QED
    BY <1>1, <2>1, <2>2, <2>3, <2>4, <2>5 DEF Request
<1>2. ASSUME NEW j \in Job, TaskStep(j) \/ EndWork(j)
      PROVE  [Promise!Next]_(Promise!vars)
  <2>1. CASE Acquire(j)
    BY <2>1 DEF Acquire, TakeLane, TakeSlot, EnterPaper, EnterRead, AnnounceWrite,
       EnterWrite, Suspend, Enter
  <2>2. CASE StartWorker(j)
    <3>1. state[j] = "queued"
      BY <2>2 DEF StartWorker, Resume, Ready, Coming
    <3>2. \A k \in Promise!Running : ~Conflict(def[j], def[k])
      <4>1. Promise!Running = Running /\ j \notin Running
        BY <3>1, Vocabulary DEF Running
      <4>2. QED
        BY <2>2, <4>1, StartExcludes
    <3>3. \A k \in Promise!Running : ~Promise!Conflict(def[j], def[k])
      BY <3>2, Vocabulary
    <3>4. Promise!UsesSlot(def[j]) =>
            Promise!Cardinality(Promise!InSlot(def[j].kind))
              < Promise!SlotLimit[def[j].kind]
      BY <2>2, StartHasSlot, Vocabulary
    <3>5. state' = [state EXCEPT ![j] = "running"] /\ UNCHANGED def
      BY <2>2 DEF StartWorker
    <3>6. Promise!Start(j)
      BY <3>1, <3>3, <3>4, <3>5 DEF Promise!Start
    <3>7. QED
      BY <3>6
  <2>3. CASE EndWork(j)
    BY <2>3 DEF EndWork, CommitWork, ReturnWork, CommitRefused, FailWork, StopWork,
       InterruptWork, Raise
  <2>4. CASE Judge(j) \/ Unwind(j) \/ Abandon(j) \/ Record(j) \/ Awake(j)
    BY <2>4 DEF Judge, Judgement, Unwind, Abandon, Record, Awake
  <2>5. CASE Settle(j)
    <3>1. state[j] = "running" /\ ending[j] \in Outcome
      BY <2>5 DEF Settle, Inductive, Shape, Fits, Active, Sync, Ends
    <3>2. Promise!End(j, ending[j])
      BY <2>5, <3>1 DEF Settle, Finish, Promise!End
    <3>3. QED
      BY <3>1, <3>2, Vocabulary
  <2>6. CASE FinishFails(j)
    <3>1. state[j] = "running"
      BY <2>6 DEF FinishFails, Failure, Inductive, Shape, Fits, Active, Sync, Ends
    <3>2. Promise!End(j, "failed") /\ "failed" \in Outcome
      BY <2>6, <3>1 DEF FinishFails, Failure, Finish, Promise!End, Outcome
    <3>3. QED
      BY <3>2, Vocabulary
  <2>7. QED
    BY <1>2, <2>1, <2>2, <2>3, <2>4, <2>5, <2>6 DEF TaskStep
<1>3. CASE Shutdown \/ ShutdownNext \/ UNCHANGED vars
  BY <1>3 DEF Shutdown, ShutdownNext, ShutdownCancel, Cancel, Drain, Expire, Forced, Stopped, vars,
     Promise!CancelQueued
<1>4. CASE Restart
  <2>1. marker' \subseteq {j \in Job : Promise!MayBeInterrupted(j)}
    BY <1>4 DEF Restart, MarkerFits, Inductive, Value
  <2>2. Promise!Restart
    BY <1>4, <2>1 DEF Restart, Promise!Restart
  <2>3. QED
    BY <2>2
<1>5. QED
  BY <1>1, <1>2, <1>3, <1>4 DEF Next

(***************************************************************************)
(* Hidden behind `def' and `state', lanes, barriers, permits, tokens and   *)
(* markers only ever make the steps that JobSystem promises.               *)
(***************************************************************************)
THEOREM Implementation == Spec => ImplementsPromise
<1> DEFINE AllComing == \A j \in Job : Coming(j)
<1>1. Init => Promise!Init /\ MarkerFits /\ AllComing
  BY DEF Init, Promise!Init, MarkerFits, Coming, Asking
<1>2. Inductive /\ MarkerFits /\ [Next]_vars => MarkerFits'
  BY NextMarkers
<1>3. Inductive /\ AllComing /\ [Next]_vars => AllComing'
  BY NextComing
<1>4. Inductive /\ MarkerFits /\ AllComing /\ [Next]_vars
        => [Promise!Next]_(Promise!vars)
  BY NextPromised
<1>5. QED
  BY <1>1, <1>2, <1>3, <1>4, InductiveHolds, PTL DEF Spec, ImplementsPromise, Promise!Spec
-----------------------------------------------------------------------------
(* Shutdown. *)

(***************************************************************************)
(* A job that has not begun was neither signalled nor has it committed,    *)
(* and once shutdown has signalled every job there is none.                *)
(***************************************************************************)
Fresh(j) ==
  /\ state[j] \in {"absent", "queued"} => token[j] = "clear" /\ ~committed[j]
  /\ phase \notin {"open", "cancelling"} => state[j] # "queued"

\* A request for a new job finds the queue open.
LEMMA NewFresh ==
  ASSUME Value, \A j \in Job : Fresh(j), NEW k \in Job, NEW d, NewJob(k, d),
         UNCHANGED <<token, committed, phase>>,
         \A i \in Job \ {k} : state'[i] \in {state[i], "lost"}
  PROVE  \A j \in Job : Fresh(j)'
<1>1. phase = "open" /\ state[k] = "absent"
  BY DEF NewJob
<1>2. ASSUME NEW i \in Job, i # k
      PROVE  Fresh(i)'
  BY <1>1, <1>2 DEF Fresh
<1>3. Fresh(k)'
  BY <1>1 DEF Fresh
<1>4. QED
  BY <1>2, <1>3

\* Every step of the queue keeps it.
LEMMA NextFresh ==
  ASSUME Inductive, \A j \in Job : Fresh(j), [Next]_vars
  PROVE  \A j \in Job : Fresh(j)'
<1> USE DEF Inductive, Value
<1>1. CASE Request
  <2>1. ASSUME NEW j \in Job, NEW d, Enqueue(j, d)
        PROVE  \A i \in Job : Fresh(i)'
    BY <2>1, NewFresh DEF Enqueue, tokenVars
  <2>2. ASSUME NEW j \in Job, NEW k \in Job, RetryInterrupted(j, k)
        PROVE  \A i \in Job : Fresh(i)'
    BY <2>2, NewFresh DEF RetryInterrupted, tokenVars
  <2>3. ASSUME NEW j \in Job, NEW k \in Job, NEW d, Spawn(j, k, d)
        PROVE  \A i \in Job : Fresh(i)'
    BY <2>3, NewFresh DEF Spawn, tokenVars
  <2>4. ASSUME NEW j \in Job, UserCancel(j)
        PROVE  \A i \in Job : Fresh(i)'
    BY <2>4 DEF UserCancel, Cancel, Fresh
  <2>5. QED
    BY <1>1, <2>1, <2>2, <2>3, <2>4 DEF Request, Retry
<1>2. ASSUME NEW j \in Job, TaskStep(j) \/ EndWork(j)
      PROVE  \A i \in Job : Fresh(i)'
  <2>1. CASE Acquire(j)
    BY <2>1 DEF Acquire, TakeLane, TakeSlot, EnterPaper, EnterRead, AnnounceWrite,
       EnterWrite, Suspend, Enter, tokenVars, Fresh
  <2>2. CASE StartWorker(j)
    BY <2>2 DEF StartWorker, tokenVars, Fresh
  <2>3. CASE CommitWork(j)
    <3>1. state[j] = "running"
      BY <2>3 DEF CommitWork, WorkerResumes, Shape, Fits, Active
    <3>2. QED
      BY <2>3, <3>1 DEF CommitWork, Fresh
  <2>4. CASE ReturnWork(j) \/ CommitRefused(j) \/ FailWork(j) \/ StopWork(j)
             \/ InterruptWork(j)
    BY <2>4 DEF ReturnWork, CommitRefused, FailWork, StopWork, InterruptWork, Raise,
       tokenVars, Fresh
  <2>5. CASE Judge(j) \/ Unwind(j) \/ Abandon(j) \/ Record(j) \/ Awake(j)
    BY <2>5 DEF Judge, Unwind, Abandon, Record, Awake, tokenVars, Fresh
  <2>6. CASE Settle(j) \/ FinishFails(j)
    <3>1. state'[j] \in Outcome
      BY <2>6 DEF Settle, FinishFails, Failure, Finish, Shape, Fits, Ends, Outcome
    <3>2. QED
      BY <2>6, <3>1 DEF Settle, FinishFails, Finish, tokenVars, Outcome, Fresh
  <2>7. QED
    BY <1>2, <2>1, <2>2, <2>3, <2>4, <2>5, <2>6 DEF TaskStep, EndWork
<1>3. CASE Shutdown \/ Stopped \/ Expire \/ UNCHANGED vars
  BY <1>3 DEF Shutdown, Stopped, Expire, Forced, ShutdownStep, vars, tokenVars, Fresh
<1>4. CASE Drain
  BY <1>4 DEF Drain, ShutdownStep, Created, Signalled, Terminal, Outcome, tokenVars, Fresh
<1>5. ASSUME NEW j \in Job, ShutdownCancel(j)
      PROVE  \A i \in Job : Fresh(i)'
  BY <1>5 DEF ShutdownCancel, Cancel, Fresh
<1>6. CASE Restart
  BY <1>6 DEF Restart, Fresh
<1>7. QED
  BY <1>1, <1>2, <1>3, <1>4, <1>5, <1>6 DEF Next, ShutdownNext

(***************************************************************************)
(* Once shutdown has signalled every job no worker starts, for any number  *)
(* of jobs, wherever each of them waited when it was signalled.            *)
(***************************************************************************)
THEOREM NoLateStart == Spec => NoStartWhileDraining
<1> DEFINE AllComing == \A j \in Job : Coming(j)
           AllFresh == \A j \in Job : Fresh(j)
<1>1. Init => AllComing /\ AllFresh
  BY DEF Init, Coming, Fresh, Asking
<1>2. Inductive /\ AllComing /\ AllFresh /\ [Next]_vars => AllComing' /\ AllFresh'
  BY NextComing, NextFresh
<1>3. ASSUME Inductive, AllComing, AllFresh, [Next]_vars,
             phase \notin {"open", "cancelling"}, NEW j \in Job, state'[j] = "running"
      PROVE  state[j] = "running"
  <2>1. ASSUME NEW k \in Job, StartWorker(k)
        PROVE  FALSE
    <3>1. pc[k] = "invoke" /\ ~kill[k]
      BY <2>1 DEF StartWorker, Ready
    <3>2. state[k] = "queued"
      BY <1>3, <3>1 DEF Coming
    <3>3. QED
      BY <1>3, <3>2 DEF Fresh
  <2>2. QED
    BY <1>3, <2>1, RunningSteps
<1>4. Inductive /\ AllComing /\ AllFresh /\ [Next]_vars
        => [phase \notin {"open", "cancelling"} =>
              \A j \in Job : state'[j] = "running" => state[j] = "running"]_vars
  BY <1>3
<1>5. QED
  BY <1>1, <1>2, <1>4, InductiveHolds, PTL DEF Spec, NoStartWhileDraining

-----------------------------------------------------------------------------
(* What attempts leave on disk. *)

\* Slots are among those a paper has.
LEMMA SlotOfJob ==
  ASSUME NEW j, def[j] \in Definition
  PROVE  Target(def[j]) \in AllTargets
  BY DefinitionsTyped DEF JobDefinition, Target, AllTargets

\* The worker of j has installed what it made and was not overtaken by a failure.
Installed(j) ==
  \/ pc[j] \in {"commit", "returned"}
  \/ pc[j] \in Ends /\ ending[j] = "succeeded"

(***************************************************************************)
(* What paper.json, the artifacts and the markers say of an attempt.  A    *)
(* marker that outlives the outcome of its attempt is that of one between  *)
(* the two writes, or could not be removed.  A worker that committed has   *)
(* its bytes in the slot until its job ends, because it has the lane.      *)
(***************************************************************************)
Attempted(j) ==
  /\ \A t \in AllTargets : lastAttempt[t] = j => recorded[j] # "none"
  /\ j \in marker => Tracked(j)
  /\ j \in marker /\ recorded[j] # "none" =>
       pc[j] = "clear" \/ state[j] \in {"failed", "interrupted"}
  /\ Tracked(j) /\ pc[j] = "clear" =>
       /\ recorded[j] = ending[j]
       /\ lastAttempt[Target(def[j])] = j
       /\ ending[j] = "succeeded" => provenance[Target(def[j])] = j
  /\ Tracked(j) /\ Installed(j) =>
       artifact[Target(def[j])] = j

\* A step of the task of j writes into its own slot only, and there its own name.
LEMMA OwnSlot ==
  ASSUME Value, NEW j \in Job, TaskStep(j) \/ EndWork(j), NEW t \in AllTargets
  PROVE  /\ lastAttempt'[t] \in {lastAttempt[t], j}
         /\ pc[j] # "record" => provenance'[t] = provenance[t]
         /\ artifact'[t] # artifact[t] =>
              /\ t = Target(def[j]) /\ def[j].commit # "none"
              /\ pc[j] = "work" /\ loop = NoJob
<1> USE DEF Value, diskVars, recordVars
<1>1. CASE Acquire(j)
  BY <1>1 DEF Acquire, TakeLane, TakeSlot, EnterPaper, EnterRead, AnnounceWrite,
     EnterWrite, Suspend, Enter
<1>2. CASE StartWorker(j)
  BY <1>2 DEF StartWorker
<1>3. CASE CommitWork(j)
  BY <1>3 DEF CommitWork, WorkerResumes, Install
<1>4. CASE ReturnWork(j)
  BY <1>4 DEF ReturnWork, WorkerResumes, Install
<1>5. CASE CommitRefused(j) \/ FailWork(j) \/ StopWork(j) \/ InterruptWork(j)
  BY <1>5 DEF CommitRefused, FailWork, StopWork, InterruptWork, Raise
<1>6. CASE Awake(j) \/ Judge(j) \/ Unwind(j) \/ Abandon(j)
  BY <1>6 DEF Awake, Judge, Unwind, Abandon
<1>7. CASE Record(j)
  BY <1>7 DEF Record
<1>8. CASE Settle(j) \/ FinishFails(j)
  BY <1>8 DEF Settle, FinishFails
<1>9. QED
  BY <1>1, <1>2, <1>3, <1>4, <1>5, <1>6, <1>7, <1>8 DEF TaskStep, EndWork

\* Nobody installs into the slot of a worker that has committed.
LEMMA SlotHeld ==
  ASSUME Inductive, NoConflictRuns, NEW i \in Job, NEW j \in Job, i # j,
         Tracked(i), pc[i] = "commit", pc[j] = "work", def[j].commit # "none"
  PROVE  Target(def[i]) # Target(def[j])
<1>1. Fits(i) /\ Fits(j)
  BY DEF Inductive, Shape
<1>2. i \in Running /\ j \in Running
  BY <1>1 DEF Fits, Active, Running
<1>3. def[i] \in Definition /\ def[j] \in Definition
  BY <1>1, <1>2 DEF Fits, Running
<1>4. def[i].scope = "paper" /\ def[j].scope \in {"paper", "library_write"}
  BY <1>3, TrackedInstall, InstallersHold DEF Tracked
<1>5. ~Conflict(def[i], def[j])
  BY <1>2 DEF NoConflictRuns
<1>6. QED
  BY <1>4, <1>5 DEF Conflict, Target

\* A step of the task of j leaves what is on disk of another attempt.
LEMMA OthersAttempted ==
  ASSUME Inductive, NoConflictRuns, NEW j \in Job, NEW i \in Job, i # j, Attempted(i),
         TaskStep(j) \/ EndWork(j)
  PROVE  Attempted(i)'
<1>0. Fits(i) /\ Value
  BY DEF Inductive, Shape
<1>1. Untouched(i) /\ pc[i] \notin Sync
  BY <1>0, OwnOnly, NoJobIsNoJob DEF Fits
<1>2. \A t \in AllTargets : lastAttempt'[t] = i => lastAttempt[t] = i
  BY <1>0, OwnSlot
<1>3. ASSUME Tracked(i), pc[i] = "commit"
      PROVE  artifact'[Target(def[i])] = artifact[Target(def[i])]
  <2>1. def[i] \in Definition
    BY <1>0, <1>3 DEF Fits, Active
  <2>2. Target(def[i]) \in AllTargets
    BY <2>1, SlotOfJob
  <2>3. CASE pc[j] = "work" /\ def[j].commit # "none"
    BY <1>0, <1>3, <2>2, <2>3, SlotHeld, OwnSlot
  <2>4. CASE ~(pc[j] = "work" /\ def[j].commit # "none")
    BY <1>0, <2>2, <2>4, OwnSlot
  <2>5. QED
    BY <2>3, <2>4
<1>4. QED
  BY <1>1, <1>2, <1>3 DEF Attempted, Installed, Untouched, Tracked, Sync, Ends

\* A step of its own task keeps what is on disk of an attempt in order.
LEMMA StepAttempted ==
  ASSUME Inductive, NEW j \in Job, Decided(j), Attempted(j), TaskStep(j) \/ EndWork(j)
  PROVE  Attempted(j)'
<1>0. Fits(j)
  BY DEF Inductive, Shape
<1>t. state[j] # "absent" => def[j] \in Definition /\ Target(def[j]) \in AllTargets
  BY <1>0, SlotOfJob DEF Fits
<1>r. recorded[j] # "none" => pc[j] \in {"none", "clear", "done"}
  BY DEF Decided
<1> USE <1>0 DEF Inductive, Value, Attempted, Installed, Ends, Sync, Tracked
<1>1. CASE Acquire(j)
  BY <1>1 DEF Acquire, TakeLane, TakeSlot, EnterPaper, EnterRead, AnnounceWrite,
     EnterWrite, Suspend, Enter, Resume, Ready, Asking, taskVars, diskVars, recordVars
<1>2. CASE StartWorker(j)
  BY <1>2, <1>r DEF StartWorker, Ready, recordVars
<1>3. CASE CommitWork(j)
  BY <1>3, <1>t DEF CommitWork, WorkerResumes, Install, recordVars, Fits, Active
<1>4. CASE ReturnWork(j)
  BY <1>4, <1>t, TrackedInstall
  DEF ReturnWork, WorkerResumes, Install, recordVars, Fits, Active
<1>5. CASE CommitRefused(j) \/ FailWork(j) \/ StopWork(j) \/ InterruptWork(j)
  <2>1. pc[j] \in {"work", "commit"} /\ recorded[j] = "none"
    BY <1>5, <1>r DEF CommitRefused, FailWork, StopWork, InterruptWork, WorkerResumes
  <2>2. \E e : Raise(j, e)
    BY <1>5 DEF CommitRefused, FailWork, StopWork, InterruptWork
  <2>3. QED
    BY <2>1, <2>2 DEF Raise, diskVars, recordVars
<1>6. CASE Awake(j)
  BY <1>6 DEF Awake, diskVars, recordVars
<1>7. CASE Judge(j)
  BY <1>7, <1>r DEF Judge, Judgement, diskVars, recordVars
<1>8. CASE Unwind(j)
  <2>1. Verdict(j) # "succeeded"
    BY DEF Verdict
  <2>2. QED
    BY <1>8, <1>r, <2>1 DEF Unwind, diskVars, recordVars
<1>9. CASE Abandon(j)
  BY <1>9, <1>r DEF Abandon, Asking, diskVars, recordVars
<1>10. CASE Record(j)
  <2>1. ending[j] \in Outcome /\ ending[j] # "none"
    BY <1>10 DEF Record, Fits, Outcome
  <2>2. QED
    BY <1>10, <1>r, <1>t, <2>1 DEF Record, recordVars, Fits, Active
<1>11. CASE Settle(j)
  BY <1>11 DEF Settle, Finish, recordVars
<1>12. CASE FinishFails(j)
  BY <1>12 DEF FinishFails, Failure, Finish, diskVars, recordVars
<1>13. QED
  BY <1>1, <1>2, <1>3, <1>4, <1>5, <1>6, <1>7, <1>8, <1>9, <1>10, <1>11, <1>12
  DEF TaskStep, EndWork

\* A request for a new job says nothing of an attempt, and forgets one at most.
LEMMA NewAttempted ==
  ASSUME Inductive, \A i \in Job : Decided(i) /\ Attempted(i), NEW k \in Job, NEW d,
         NewJob(k, d), UNCHANGED <<ending, lastAttempt, provenance, artifact, recorded>>,
         marker' \subseteq marker, \A i \in marker' : state'[i] = state[i]
  PROVE  \A i \in Job : Attempted(i)'
<1>1. state[k] = "absent"
  BY DEF NewJob
<1>2. k \notin marker' /\ recorded[k] = "none"
  BY <1>1 DEF Inductive, Shape, Fits, Decided
<1>3. pc'[k] \notin {"commit", "returned", "clear"} \cup Ends
  BY DEF NewJob, Inductive, Value, Entry, Ends
<1>4. Attempted(k)'
  BY <1>2, <1>3 DEF Attempted, Installed
<1>5. ASSUME NEW i \in Job, i # k
      PROVE  Attempted(i)'
  <2>1. def'[i] = def[i] /\ pc'[i] = pc[i]
    BY <1>5 DEF NewJob, Inductive, Value
  <2>2. QED
    BY <2>1 DEF Attempted, Installed, Tracked
<1>6. QED
  BY <1>4, <1>5

\* A cancellation changes a job that is not at its end, and nothing on disk.
LEMMA CancelAttempted ==
  ASSUME Value, \A i \in Job : Attempted(i), NEW j \in Job, NEW r, Cancel(j, r)
  PROVE  \A i \in Job : Attempted(i)'
<1> SUFFICES ASSUME NEW i \in Job
             PROVE  Attempted(i)'
  OBVIOUS
<1>1. UNCHANGED <<def[i], pc[i], ending[i], lastAttempt, provenance, artifact, recorded,
                  marker>>
  BY DEF Cancel, taskVars, diskVars, recordVars
<1>2. state[i] \in {"failed", "interrupted"} => state'[i] = state[i]
  BY DEF Cancel, Value
<1>3. QED
  BY <1>1, <1>2 DEF Attempted, Installed, Tracked

\* Every step of the queue keeps what is on disk in order.
LEMMA NextAttempted ==
  ASSUME Inductive, NoConflictRuns, \A i \in Job : Decided(i) /\ Attempted(i), [Next]_vars
  PROVE  \A i \in Job : Attempted(i)'
<1>0. Inductive /\ Value /\ \A i \in Job : Decided(i) /\ Attempted(i)
  BY DEF Inductive
<1>1. CASE Request
  <2>1. ASSUME NEW k \in Job, NEW d, Enqueue(k, d)
        PROVE  \A i \in Job : Attempted(i)'
    <3>1. /\ NewJob(k, d)
          /\ UNCHANGED <<ending, lastAttempt, provenance, artifact, recorded>>
          /\ marker' \subseteq marker
      BY <2>1 DEF Enqueue, diskVars, recordVars
    <3>2. \A i \in marker' : state'[i] = state[i]
      BY <1>0, <2>1, <3>1 DEF Enqueue, NewJob, Inductive, Value, Shape, Fits
    <3>3. QED
      BY <1>0, <3>1, <3>2, NewAttempted
  <2>2. ASSUME NEW j \in Job, NEW k \in Job, RetryInterrupted(j, k)
        PROVE  \A i \in Job : Attempted(i)'
    <3>1. /\ NewJob(k, def[j])
          /\ UNCHANGED <<ending, lastAttempt, provenance, artifact, recorded>>
          /\ marker' = marker \ {j}
      BY <2>2 DEF RetryInterrupted, recordVars
    <3>2. \A i \in marker' : state'[i] = state[i]
      BY <1>0, <2>2, <3>1 DEF RetryInterrupted, NewJob, Inductive, Value, Shape, Fits
    <3>3. QED
      BY <1>0, <3>1, <3>2, NewAttempted
  <2>3. ASSUME NEW j \in Job, NEW k \in Job, NEW d, Spawn(j, k, d)
        PROVE  \A i \in Job : Attempted(i)'
    <3>1. /\ NewJob(k, d)
          /\ UNCHANGED <<ending, lastAttempt, provenance, artifact, recorded>>
          /\ marker' \subseteq marker
      BY <2>3 DEF Spawn, diskVars, recordVars
    <3>2. \A i \in marker' : state'[i] = state[i]
      BY <1>0, <2>3, <3>1 DEF Spawn, NewJob, Inductive, Value, Shape, Fits, diskVars
    <3>3. QED
      BY <1>0, <3>1, <3>2, NewAttempted
  <2>4. ASSUME NEW j \in Job, UserCancel(j)
        PROVE  \A i \in Job : Attempted(i)'
    BY <1>0, <2>4, CancelAttempted DEF UserCancel
  <2>5. QED
    BY <1>1, <2>1, <2>2, <2>3, <2>4 DEF Request, Retry
<1>2. ASSUME NEW j \in Job, TaskStep(j) \/ EndWork(j)
      PROVE  \A i \in Job : Attempted(i)'
  <2>1. Attempted(j)'
    BY <1>0, <1>2, StepAttempted
  <2>2. ASSUME NEW i \in Job, i # j
        PROVE  Attempted(i)'
    BY <1>0, <1>2, <2>2, OthersAttempted
  <2>3. QED
    BY <2>1, <2>2
<1>3. CASE Shutdown \/ Drain \/ Expire \/ Stopped \/ UNCHANGED vars
  BY <1>0, <1>3
  DEF Shutdown, Drain, Expire, Stopped, vars, Attempted, Installed, Tracked, taskVars, diskVars,
      recordVars
<1>4. ASSUME NEW j \in Job, ShutdownCancel(j)
      PROVE  \A i \in Job : Attempted(i)'
  BY <1>0, <1>4, CancelAttempted DEF ShutdownCancel
<1>5. CASE Restart
  BY <1>0, <1>5 DEF Restart, Inductive, Value, Attempted, Installed, Tracked, Ends, recordVars
<1>6. QED
  BY <1>1, <1>2, <1>3, <1>4, <1>5 DEF Next, ShutdownNext

\* It is an invariant, with those it rests on.
OnDisk == Inductive /\ NoConflictRuns /\ \A j \in Job : Decided(j) /\ Attempted(j)

LEMMA OnDiskHolds == Spec => []OnDisk
<1> DEFINE All == \A j \in Job : Decided(j) /\ Attempted(j)
<1>1. Init => All
  BY NoJobIsNoJob DEF Init, Decided, Attempted, Installed, Ends, Sync, AllTargets
<1>2. Inductive /\ NoConflictRuns /\ All /\ [Next]_vars => All'
  BY NextDecides, NextAttempted
<1>3. Inductive /\ NoConflictRuns /\ All <=> OnDisk
  BY DEF OnDisk
<1>4. QED
  BY <1>1, <1>2, <1>3, InductiveHolds, Exclusion, PTL DEF Spec

(***************************************************************************)
(* A running job with recovery hooks that ends otherwise than failed has   *)
(* its outcome in paper.json and no marker; if it succeeded, the slot has  *)
(* its bytes and names it, whatever other jobs of the paper do meanwhile.  *)
(***************************************************************************)
THEOREM EndingsOnDisk == Spec => EndsRecorded
<1> DEFINE Kept ==
      \A j \in Running :
        LET t == Target(def[j]) IN
        /\ Tracked(j)
        /\ state'[j] \in Outcome \ {"failed"}
        => /\ recorded'[j] = state'[j]
           /\ j \notin marker'
           /\ state'[j] = "succeeded" => provenance'[t] = j /\ artifact'[t] = j
<1>1. ASSUME OnDisk, [Next]_vars, NEW j \in Running, Tracked(j),
             state'[j] \in Outcome \ {"failed"}
      PROVE  Settle(j)
  <2>0. j \in Job /\ state[j] = "running" /\ state'[j] # "running" /\ Value /\ Fits(j)
    BY <1>1 DEF Running, Outcome, OnDisk, Inductive, Shape
  <2>1. ASSUME NEW k \in Job, NEW d, NewJob(k, d)
        PROVE  k # j
    BY <2>0, <2>1 DEF NewJob
  <2>2. ~Request
    <3>1. ASSUME NEW k \in Job, NEW d, Enqueue(k, d)
          PROVE  FALSE
      BY <2>0, <2>1, <3>1 DEF Enqueue, Value
    <3>2. ASSUME NEW i \in Job, NEW k \in Job, RetryInterrupted(i, k)
          PROVE  FALSE
      BY <2>0, <2>1, <3>2 DEF RetryInterrupted, Value
    <3>3. ASSUME NEW i \in Job, NEW k \in Job, NEW d, Spawn(i, k, d)
          PROVE  FALSE
      BY <2>0, <2>1, <3>3 DEF Spawn, Value
    <3>4. ASSUME NEW i \in Job, UserCancel(i)
          PROVE  FALSE
      BY <2>0, <3>4 DEF UserCancel, Cancel, Value
    <3>5. QED
      BY <3>1, <3>2, <3>3, <3>4 DEF Request, Retry
  <2>3. ~(Shutdown \/ ShutdownNext \/ UNCHANGED vars)
    <3>1. ASSUME NEW i \in Job, ShutdownCancel(i)
          PROVE  FALSE
      BY <2>0, <3>1 DEF ShutdownCancel, Cancel, Value
    <3>2. QED
      BY <2>0, <3>1 DEF Shutdown, ShutdownNext, Drain, Expire, Stopped, vars
  <2>4. ~Restart
    BY <1>1, <2>0 DEF Restart, Outcome
  <2>5. PICK i \in Job : TaskStep(i) \/ EndWork(i)
    BY <1>1, <2>2, <2>3, <2>4 DEF Next
  <2>6. i = j
    BY <2>0, <2>5, OwnOnly DEF Untouched
  <2>7. ~EndWork(j)
    BY <2>0 DEF EndWork, CommitWork, ReturnWork, CommitRefused, FailWork, StopWork,
       InterruptWork, Raise
  <2>8. ~(Acquire(j) \/ StartWorker(j))
    BY <2>0 DEF Acquire, TakeLane, TakeSlot, EnterPaper, EnterRead, AnnounceWrite,
       EnterWrite, Suspend, Enter, StartWorker, Value
  <2>9. ~(Judge(j) \/ Unwind(j) \/ Abandon(j) \/ Record(j) \/ Awake(j))
    BY <2>0 DEF Judge, Unwind, Abandon, Record, Awake
  <2>10. ~FinishFails(j)
    BY <1>1, <2>0 DEF FinishFails, Failure, Finish, Value
  <2>11. QED
    BY <2>5, <2>6, <2>7, <2>8, <2>9, <2>10 DEF TaskStep
<1>2. ASSUME OnDisk, NEW j \in Running, Tracked(j), Settle(j)
      PROVE  /\ recorded'[j] = state'[j]
             /\ j \notin marker'
             /\ state'[j] = "succeeded" =>
                  provenance'[Target(def[j])] = j /\ artifact'[Target(def[j])] = j
  <2>1. Attempted(j) /\ Value
    BY <1>2 DEF OnDisk, Running, Inductive
  <2>2. /\ pc[j] = "clear" /\ marker' = marker \ {j} /\ state'[j] = ending[j]
        /\ UNCHANGED <<recorded, provenance, artifact>>
    BY <1>2, <2>1 DEF Settle, Finish, Value, recordVars, Running
  <2>3. QED
    BY <1>2, <2>1, <2>2 DEF Attempted, Installed, Ends
<1>3. OnDisk /\ [Next]_vars => Kept
  BY <1>1, <1>2
<1>4. OnDisk /\ [Next]_vars => [Kept]_vars
  BY <1>3
<1>5. QED
  BY <1>4, OnDiskHolds, PTL DEF Spec, EndsRecorded

\* The marker of an attempt without outcome is there.
Marked(j) ==
  Tracked(j) /\ state[j] \in {"running", "failed", "interrupted"} /\ recorded[j] = "none"
    => j \in marker

\* The marker survives its attempt where it could be written.
LEMMA NextMarked ==
  ASSUME "marker" \notin Faults, OnDisk, \A i \in Job : Marked(i), [Next]_vars
  PROVE  \A i \in Job : Marked(i)'
<1>0. Value /\ \A i \in Job : Fits(i) /\ Attempted(i) /\ Marked(i)
  BY DEF OnDisk, Inductive, Shape
<1> USE DEF Marked, Tracked
<1>a. ASSUME NEW k \in Job, NEW d, NewJob(k, d), UNCHANGED recorded, state'[k] = "queued",
             \A i \in Job \ {k} :
               \/ state'[i] = state[i] /\ (i \in marker => i \in marker')
               \/ state'[i] = "lost"
      PROVE  \A i \in Job : Marked(i)'
  <2>1. ASSUME NEW i \in Job, i # k
        PROVE  Marked(i)'
    <3>1. def'[i] = def[i]
      BY <1>0, <1>a, <2>1 DEF NewJob, Value
    <3>2. QED
      BY <1>0, <1>a, <2>1, <3>1
  <2>2. QED
    BY <1>a, <2>1
<1>1. CASE Request
  <2>1. ASSUME NEW k \in Job, NEW d, Enqueue(k, d)
        PROVE  \A i \in Job : Marked(i)'
    BY <1>0, <1>a, <2>1 DEF Enqueue, Value, diskVars, recordVars
  <2>2. ASSUME NEW j \in Job, NEW k \in Job, RetryInterrupted(j, k)
        PROVE  \A i \in Job : Marked(i)'
    <3>1. j # k
      BY <2>2 DEF RetryInterrupted, NewJob
    <3>2. QED
      BY <1>0, <1>a, <2>2, <3>1 DEF RetryInterrupted, Value, recordVars
  <2>3. ASSUME NEW j \in Job, NEW k \in Job, NEW d, Spawn(j, k, d)
        PROVE  \A i \in Job : Marked(i)'
    BY <1>0, <1>a, <2>3 DEF Spawn, Value, diskVars, recordVars
  <2>4. ASSUME NEW j \in Job, UserCancel(j)
        PROVE  \A i \in Job : Marked(i)'
    BY <1>0, <2>4 DEF UserCancel, Cancel, Value, diskVars, recordVars
  <2>5. QED
    BY <1>1, <2>1, <2>2, <2>3, <2>4 DEF Request, Retry
<1>2. ASSUME NEW j \in Job, TaskStep(j) \/ EndWork(j)
      PROVE  \A i \in Job : Marked(i)'
  <2>1. ASSUME NEW i \in Job, i # j
        PROVE  Marked(i)'
    BY <1>0, <1>2, <2>1, OwnOnly DEF Untouched
  <2>2. Marked(j)'
    <3>1. CASE Acquire(j)
      BY <1>0, <3>1 DEF Acquire, TakeLane, TakeSlot, EnterPaper, EnterRead, AnnounceWrite,
         EnterWrite, Suspend, Enter, diskVars, recordVars
    <3>2. CASE StartWorker(j)
      BY <1>0, <3>2 DEF StartWorker
    <3>3. CASE EndWork(j)
      BY <1>0, <3>3 DEF EndWork, CommitWork, ReturnWork, CommitRefused, FailWork, StopWork,
         InterruptWork, Raise, diskVars, recordVars
    <3>4. CASE Judge(j) \/ Unwind(j) \/ Abandon(j) \/ Awake(j)
      BY <1>0, <3>4 DEF Judge, Unwind, Abandon, Awake, diskVars, recordVars
    <3>5. CASE Record(j)
      <4>1. ending[j] # "none"
        BY <1>0, <3>5 DEF Record, Fits, Ends, Outcome
      <4>2. QED
        BY <1>0, <3>5, <4>1 DEF Record, Value, recordVars
    <3>6. CASE Settle(j)
      <4>1. Tracked(j) => recorded[j] # "none"
        BY <1>0, <3>6 DEF Settle, Attempted, Fits, Ends, Outcome
      <4>2. QED
        BY <1>0, <3>6, <4>1 DEF Settle, Finish, recordVars
    <3>7. CASE FinishFails(j)
      <4>1. state[j] = "running"
        BY <1>0, <3>7 DEF FinishFails, Fits, Active, Sync, Ends
      <4>2. QED
        BY <1>0, <3>7, <4>1 DEF FinishFails, Finish, diskVars, recordVars
    <3>8. QED
      BY <1>2, <3>1, <3>2, <3>3, <3>4, <3>5, <3>6, <3>7 DEF TaskStep
  <2>3. QED
    BY <2>1, <2>2
<1>3. CASE Shutdown \/ Drain \/ Expire \/ Stopped \/ UNCHANGED vars
  BY <1>0, <1>3 DEF Shutdown, Drain, Expire, Stopped, vars, diskVars, recordVars
<1>4. ASSUME NEW j \in Job, ShutdownCancel(j)
      PROVE  \A i \in Job : Marked(i)'
  BY <1>0, <1>4 DEF ShutdownCancel, Cancel, Value, diskVars, recordVars
<1>5. CASE Restart
  BY <1>0, <1>5 DEF Restart, recordVars
<1>6. QED
  BY <1>1, <1>2, <1>3, <1>4, <1>5 DEF Next, ShutdownNext

\* Only a restart counts as one.
LEMMA RestartCounted ==
  ASSUME [Next]_vars, restarts' # restarts
  PROVE  Restart
<1>1. ~Request
  BY DEF Request, Retry, Enqueue, RetryInterrupted, UserCancel, Cancel, Spawn
<1>2. ASSUME NEW j \in Job, TaskStep(j)
      PROVE  FALSE
  <2>1. ~Acquire(j)
    BY DEF Acquire, TakeLane, TakeSlot, EnterPaper, EnterRead, AnnounceWrite, EnterWrite,
       Suspend, Enter
  <2>2. ~(StartWorker(j) \/ Judge(j) \/ Unwind(j) \/ Abandon(j))
    BY DEF StartWorker, Judge, Unwind, Abandon
  <2>3. ~(Record(j) \/ Settle(j) \/ FinishFails(j) \/ Awake(j))
    BY DEF Record, Settle, FinishFails, Awake
  <2>4. QED
    BY <1>2, <2>1, <2>2, <2>3 DEF TaskStep
<1>3. ASSUME NEW j \in Job, EndWork(j)
      PROVE  FALSE
  BY <1>3 DEF EndWork, CommitWork, ReturnWork, CommitRefused, FailWork, StopWork,
     InterruptWork, Raise
<1>4. ~(Shutdown \/ ShutdownNext \/ UNCHANGED vars)
  BY DEF Shutdown, ShutdownNext, ShutdownCancel, Cancel, Drain, Expire, Stopped, vars
<1>5. QED
  BY <1>1, <1>2, <1>3, <1>4 DEF Next

(***************************************************************************)
(* Where markers can be written, a restart shows exactly the attempts that *)
(* began and have no outcome in paper.json, however often the process ends *)
(* and at whichever of its durable writes.  A marker that could not be     *)
(* removed is left out by the property.                                    *)
(***************************************************************************)
THEOREM InterruptionsExact ==
  ASSUME "marker" \notin Faults
  PROVE  Spec => InterruptedIffUnrecorded
<1> DEFINE AllMarked == \A j \in Job : Marked(j)
           Exact ==
             restarts' # restarts =>
               \A j \in Job :
                 ~Leftover(j) =>
                   (state'[j] = "interrupted" <=>
                      /\ state[j] \in {"running", "failed", "interrupted"}
                      /\ Tracked(j)
                      /\ recorded[j] = "none")
<1>1. Init => AllMarked /\ MarkerFits
  BY DEF Init, Marked, MarkerFits
<1>2. OnDisk /\ AllMarked /\ [Next]_vars => AllMarked'
  BY NextMarked
<1>3. OnDisk /\ MarkerFits /\ [Next]_vars => MarkerFits'
  BY NextMarkers DEF OnDisk
<1>4. ASSUME OnDisk, MarkerFits, AllMarked, Restart, NEW j \in Job, ~Leftover(j)
      PROVE  state'[j] = "interrupted" <=>
               /\ state[j] \in {"running", "failed", "interrupted"}
               /\ Tracked(j)
               /\ recorded[j] = "none"
  <2>1. Attempted(j) /\ Marked(j) /\ Fits(j)
    BY <1>4 DEF OnDisk, Inductive, Shape
  <2>2. state'[j] = "interrupted" <=> j \in marker /\ ~TerminalAttemptExists(j)
    BY <1>4 DEF Restart
  <2>3. ASSUME j \in marker, ~TerminalAttemptExists(j)
        PROVE  /\ state[j] \in {"running", "failed", "interrupted"}
               /\ Tracked(j)
               /\ recorded[j] = "none"
    <3>1. state[j] \in {"running", "failed", "interrupted"}
      BY <1>4, <2>3 DEF MarkerFits, Promise!MayBeInterrupted
    <3>2. Tracked(j)
      BY <2>1, <2>3 DEF Attempted
    <3>3. ASSUME recorded[j] # "none"
          PROVE  FALSE
      <4>1. pc[j] = "clear"
        BY <1>4, <2>1, <2>3, <3>3 DEF Attempted, Leftover
      <4>2. def[j] \in Definition
        BY <2>1, <4>1 DEF Fits
      <4>3. Target(def[j]) \in AllTargets
        BY <4>2, SlotOfJob
      <4>4. QED
        BY <2>1, <2>3, <3>2, <4>1, <4>3 DEF Attempted, TerminalAttemptExists
    <3>4. QED
      BY <3>1, <3>2, <3>3
  <2>4. ASSUME state[j] \in {"running", "failed", "interrupted"}, Tracked(j),
               recorded[j] = "none"
        PROVE  j \in marker /\ ~TerminalAttemptExists(j)
    BY <2>1, <2>4 DEF Attempted, Marked, TerminalAttemptExists
  <2>5. QED
    BY <2>2, <2>3, <2>4
<1>5. OnDisk /\ MarkerFits /\ AllMarked /\ [Next]_vars => Exact
  BY <1>4, RestartCounted
<1>6. OnDisk /\ MarkerFits /\ AllMarked /\ [Next]_vars => [Exact]_vars
  BY <1>5
<1>7. QED
  BY <1>1, <1>2, <1>3, <1>6, OnDiskHolds, PTL DEF Spec, InterruptedIffUnrecorded

-----------------------------------------------------------------------------
(* No cycle of waits. *)

\* A coordinator waits, without any context, for a paper job of this process.
Waits(j) ==
  child[j] # NoJob =>
    /\ def[j].scope = "remote"
    /\ pc[j] = "work"
    /\ state[child[j]] # "absent"
    /\ def[child[j]].scope = "paper"
    /\ pc[child[j]] # "none"

\* A request for a new job disturbs no coordinator.
LEMMA NewWaits ==
  ASSUME Value, \A i \in Job : Waits(i), NEW k \in Job, NEW d, NewJob(k, d),
         UNCHANGED child, state'[k] = "queued", child[k] = NoJob,
         \A i \in Job \ {k} : state'[i] \in {state[i], "lost"}
  PROVE  \A i \in Job : Waits(i)'
<1> SUFFICES ASSUME NEW i \in Job, child[i] # NoJob
             PROVE  Waits(i)'
  BY DEF Waits
<1>1. i # k /\ child[i] # k /\ child[i] \in Job
  BY DEF NewJob, Waits, Value
<1>2. \A x \in {i, child[i]} : def'[x] = def[x] /\ pc'[x] = pc[x]
  BY <1>1 DEF NewJob, Value
<1>3. state'[child[i]] # "absent"
  BY <1>1 DEF Waits
<1>4. QED
  BY <1>1, <1>2, <1>3 DEF Waits

\* A step that moves one task keeps it, if that task stays where it waits.
LEMMA MovedWaits ==
  ASSUME Value, \A i \in Job : Waits(i), NEW j \in Job,
         \A i \in Job : i # j => UNCHANGED <<pc[i], state[i]>>,
         UNCHANGED <<def, child>>, child[j] = NoJob,
         pc'[j] # "none", state'[j] # "absent"
  PROVE  \A i \in Job : Waits(i)'
<1> SUFFICES ASSUME NEW i \in Job, child[i] # NoJob
             PROVE  Waits(i)'
  BY DEF Waits
<1>1. i # j /\ child[i] \in Job
  BY DEF Value
<1>2. QED
  BY <1>1 DEF Waits

\* Every step of the queue keeps it.
LEMMA NextWaits ==
  ASSUME Inductive, \A i \in Job : Coming(i), \A i \in Job : Waits(i), [Next]_vars
  PROVE  \A i \in Job : Waits(i)'
<1>0. Value /\ Shape
  BY DEF Inductive
<1>a. \A k \in Job : state[k] = "absent" => child[k] = NoJob
  BY <1>0 DEF Shape, Fits, Coming
<1>1. CASE Request
  <2>1. ASSUME NEW k \in Job, NEW d, Enqueue(k, d)
        PROVE  \A i \in Job : Waits(i)'
    BY <1>0, <1>a, <2>1, NewWaits DEF Enqueue, NewJob, Value
  <2>2. ASSUME NEW j \in Job, NEW k \in Job, RetryInterrupted(j, k)
        PROVE  \A i \in Job : Waits(i)'
    BY <1>0, <1>a, <2>2, NewWaits DEF RetryInterrupted, NewJob, Value
  <2>3. ASSUME NEW j \in Job, NEW k \in Job, NEW d, Spawn(j, k, d)
        PROVE  \A i \in Job : Waits(i)'
    <3>1. /\ pc[j] = "work" /\ def[j].scope = "remote" /\ d.scope = "paper"
          /\ NewJob(k, d) /\ child' = [child EXCEPT ![j] = k]
          /\ state' = [state EXCEPT ![k] = "queued"]
      BY <2>3 DEF Spawn, WorkerResumes
    <3>2. state[k] = "absent" /\ state[j] # "absent" /\ k # j /\ child[k] = NoJob
      BY <1>0, <1>a, <3>1 DEF NewJob, Shape, Fits
    <3>3. /\ def'[k] = d /\ pc'[k] = "lane" /\ state'[k] = "queued"
          /\ \A x \in Job \ {k} : def'[x] = def[x] /\ pc'[x] = pc[x] /\ state'[x] = state[x]
      BY <1>0, <3>1 DEF NewJob, Value, Entry
    <3>4. Waits(j)'
      BY <1>0, <3>1, <3>2, <3>3 DEF Waits, Value
    <3>5. ASSUME NEW i \in Job, i # j, child[i] # NoJob
          PROVE  Waits(i)'
      <4>1. child'[i] = child[i] /\ child[i] \in Job \ {k} /\ i # k
        BY <1>0, <3>1, <3>2, <3>5 DEF Waits, Value
      <4>2. QED
        BY <3>3, <3>5, <4>1 DEF Waits
    <3>6. \A i \in Job \ {j} : child'[i] = child[i]
      BY <1>0, <3>1 DEF Value
    <3>7. QED
      BY <3>4, <3>5, <3>6 DEF Waits
  <2>4. ASSUME NEW j \in Job, UserCancel(j)
        PROVE  \A i \in Job : Waits(i)'
    BY <1>0, <2>4 DEF UserCancel, Cancel, taskVars, Value, Waits
  <2>5. QED
    BY <1>1, <2>1, <2>2, <2>3, <2>4 DEF Request, Retry
<1>2. ASSUME NEW j \in Job, TaskStep(j) \/ EndWork(j)
      PROVE  \A i \in Job : Waits(i)'
  <2>1. CASE Awake(j)
    BY <1>0, <2>1 DEF Awake, Value, Waits
  <2>2. CASE ~Awake(j)
    <3>1. UNCHANGED <<def, child>>
      <4>1. CASE Acquire(j)
        BY <4>1 DEF Acquire, TakeLane, TakeSlot, EnterPaper, EnterRead, AnnounceWrite,
           EnterWrite, Suspend, Enter, taskVars
      <4>2. CASE StartWorker(j) \/ Judge(j) \/ Unwind(j) \/ Abandon(j) \/ Record(j)
                 \/ Settle(j) \/ FinishFails(j)
        BY <4>2 DEF StartWorker, Judge, Unwind, Abandon, Record, Settle, FinishFails
      <4>3. CASE EndWork(j)
        BY <4>3 DEF EndWork, CommitWork, ReturnWork, CommitRefused, FailWork, StopWork,
           InterruptWork, Raise
      <4>4. QED
        BY <1>2, <2>2, <4>1, <4>2, <4>3 DEF TaskStep
    <3>2. child[j] = NoJob
      <4>1. CASE pc[j] # "work"
        BY <4>1 DEF Coming
      <4>2. CASE pc[j] = "work"
        BY <1>2, <2>2, <4>2
        DEF TaskStep, Acquire, TakeLane, TakeSlot, EnterPaper, EnterRead, AnnounceWrite,
            EnterWrite, Suspend, Resume, Ready, Asking, StartWorker, Judge, Unwind, Abandon,
            Record, Settle, FinishFails, EndWork, CommitWork, ReturnWork, CommitRefused,
            FailWork, StopWork, InterruptWork, WorkerResumes
      <4>3. QED
        BY <4>1, <4>2
    <3>3. pc[j] # "none"
      BY <1>2, <2>2, <3>2
      DEF TaskStep, Acquire, TakeLane, TakeSlot, EnterPaper, EnterRead, AnnounceWrite,
          EnterWrite, Suspend, Resume, Ready, Asking, StartWorker, Judge, Unwind, Abandon,
          Record, Settle, FinishFails, EndWork, CommitWork, ReturnWork, CommitRefused,
          FailWork, StopWork, InterruptWork, WorkerResumes
    <3>4. pc'[j] # "none"
      <4>1. CASE Acquire(j)
        BY <1>0, <3>3, <4>1 DEF Acquire, TakeLane, TakeSlot, EnterPaper, EnterRead,
           AnnounceWrite, EnterWrite, Suspend, Enter, taskVars, Value
      <4>2. CASE StartWorker(j) \/ Judge(j) \/ Unwind(j) \/ Abandon(j) \/ Record(j)
                 \/ Settle(j) \/ FinishFails(j)
        BY <1>0, <4>2 DEF StartWorker, Judge, Judgement, Unwind, Abandon, Record, Settle,
           FinishFails, Finish, Value
      <4>3. CASE EndWork(j)
        BY <1>0, <4>3 DEF EndWork, CommitWork, ReturnWork, CommitRefused, FailWork, StopWork,
           InterruptWork, Raise, Value
      <4>4. QED
        BY <1>2, <2>2, <4>1, <4>2, <4>3 DEF TaskStep
    <3>5. \A i \in Job : i # j => UNCHANGED <<pc[i], state[i]>>
      BY <1>0, <1>2, OwnOnly DEF Untouched
    <3>6. Shape'
      <4>1. [Next]_vars
        OBVIOUS
      <4>2. QED
        BY <1>0, <4>1, NextShape
    <3>7. state'[j] # "absent"
      BY <3>4, <3>6 DEF Shape, Fits
    <3>8. QED
      BY <1>0, <3>1, <3>2, <3>4, <3>5, <3>7, MovedWaits
  <2>3. QED
    BY <2>1, <2>2
<1>3. CASE Shutdown \/ Drain \/ Expire \/ Stopped \/ UNCHANGED vars
  BY <1>3 DEF Shutdown, Drain, Expire, Stopped, vars, taskVars, Waits
<1>4. ASSUME NEW j \in Job, ShutdownCancel(j)
      PROVE  \A i \in Job : Waits(i)'
  BY <1>0, <1>4 DEF ShutdownCancel, Cancel, taskVars, Value, Waits
<1>5. CASE Restart
  BY <1>5 DEF Restart, Waits
<1>6. QED
  BY <1>1, <1>2, <1>3, <1>4, <1>5 DEF Next, ShutdownNext

\* A task that has a context is beyond the place where it asked for it, and
\* waits for no child.
LEMMA HolderStage ==
  ASSUME Shape, NEW k \in Job, Waits(k), stack[k] # {}
  PROVE  /\ k \in Task
         /\ "lane" \in stack[k] => Stage(k) >= 2
         /\ "slot" \in stack[k] => Stage(k) >= 3
         /\ "waiting" \in stack[k] => Stage(k) >= 4
         /\ stack[k] \cap {"paper", "read", "write"} # {} => Stage(k) = 5
<1>0. Fits(k)
  BY DEF Shape
<1>1. pc[k] \notin {"none", "done", "lane", "arrive"}
  BY <1>0 DEF Fits, Expected, Ends
<1>2. k \in Task
  BY <1>1 DEF Task
<1>3. child[k] = NoJob
  <2>1. ASSUME child[k] # NoJob
        PROVE  FALSE
    BY <1>0, <2>1 DEF Waits, Fits, Ends, Expected, Full
  <2>2. QED
    BY <2>1
<1>4. CASE pc[k] = "slot"
  BY <1>0, <1>2, <1>3, <1>4 DEF Fits, Ends, Expected, Stage
<1>5. CASE pc[k] = "barrier"
  BY <1>0, <1>2, <1>3, <1>5 DEF Fits, Ends, Expected, Stage, Slot
<1>6. CASE pc[k] = "writer"
  BY <1>0, <1>2, <1>3, <1>6 DEF Fits, Ends, Expected, Stage
<1>7. CASE pc[k] \notin {"slot", "barrier", "writer"}
  BY <1>1, <1>2, <1>3, <1>7 DEF Stage
<1>8. QED
  BY <1>4, <1>5, <1>6, <1>7

\* A count that is not zero is that of a holder.
LEMMA SomeHolder ==
  ASSUME NEW S, Cardinality(S) # 0
  PROVE  \E k \in S : TRUE
<1>1. S # {}
  BY FS_EmptySet
<1>2. QED
  BY <1>1

(***************************************************************************)
(* No cycle of tasks waits for each other, whatever jobs, libraries and    *)
(* papers there are and whoever was cancelled: this is what JobsSettle     *)
(* needs beside fairness.                                                  *)
(***************************************************************************)
THEOREM NoCircularWait == Spec => []WaitsEnd
<1> DEFINE AllComing == \A j \in Job : Coming(j)
           AllWait == \A j \in Job : Waits(j)
<1>1. Init => AllComing /\ AllWait
  BY DEF Init, Coming, Waits, Asking
<1>2. Inductive /\ AllComing /\ AllWait /\ [Next]_vars => AllComing' /\ AllWait'
  BY NextComing, NextWaits
<1>3. ASSUME Inductive, AllWait
      PROVE  WaitsEnd
  <2> SUFFICES ASSUME NEW j \in Task, ~CanGoOn(j)
               PROVE  \E k \in Task : WaitsFor(j, k) /\ Stage(j) < Stage(k)
    BY DEF WaitsEnd
  <2>0. /\ j \in Job /\ Fits(j) /\ Waits(j) /\ Value /\ Shape
        /\ pc[j] \in Asking => ~Granted(j) /\ child[j] = NoJob
    BY <1>3 DEF Task, Inductive, Shape, CanGoOn, Waits, Asking
  <2>d. pc[j] \in Asking => def[j] \in JobDefinition
    BY <2>0, DefinitionsTyped DEF Fits, Asking
  <2>b. \A k \in Job : Waits(k) /\ Fits(k)
    BY <1>3, <2>0 DEF Shape
  <2>1. CASE pc[j] \notin Asking
    <3>1. child[j] \in Job /\ pc[child[j]] # "done" /\ child[j] # NoJob
      BY <2>0, <2>1 DEF CanGoOn, Value
    <3>2. pc[child[j]] # "none" /\ def[child[j]].scope = "paper"
      BY <2>0, <3>1 DEF Waits
    <3>3. child[child[j]] = NoJob
      BY <2>b, <3>1, <3>2 DEF Waits
    <3>4. child[j] \in Task /\ WaitsFor(j, child[j])
      BY <3>1, <3>2 DEF Task, WaitsFor
    <3>5. Stage(j) = 0
      BY <2>1, <3>1 DEF Stage, Asking
    <3>6. Stage(child[j]) \in 1..5
      BY <3>3 DEF Stage
    <3>7. QED
      BY <3>4, <3>5, <3>6
  <2>2. CASE pc[j] = "lane"
    <3> DEFINE k == laneOwner[Lane(def[j])]
    <3>1. Lane(def[j]) \in Library \X Citekey
      BY <2>d, <2>2 DEF Asking, Lane, JobDefinition
    <3>2. k \in Job
      BY <2>0, <2>2, <3>1 DEF Granted, Asking, Value
    <3>3. "lane" \in stack[k]
      BY <1>3, <3>1, <3>2 DEF Inductive, Balance, ContextsBalanced, LanesBalanced
    <3>4. k \in Task /\ Stage(k) >= 2
      BY <2>0, <2>b, <3>2, <3>3, HolderStage
    <3>5. Stage(j) = 1 /\ WaitsFor(j, k)
      BY <2>0, <2>2 DEF Stage, WaitsFor, Asking
    <3>6. Stage(k) \in Nat
      BY DEF Stage
    <3>7. QED
      BY <3>4, <3>5, <3>6
  <2>3. CASE pc[j] = "slot"
    <3>1. def[j].kind \in SlotKind
      BY <2>0, <2>3 DEF Fits, UsesSlot
    <3>2. slots[def[j].kind] = 0
      BY <1>3, <2>0, <2>3, <3>1
      DEF Granted, AdmitsSlot, Asking, Inductive, Balance, SlotsLeft
    <3>3. Cardinality(SlotHolders(def[j].kind)) # 0
      BY <1>3, <3>1, <3>2
      DEF Inductive, Balance, ContextsBalanced, SlotsBalanced, SlotLimit, SlotKind
    <3>4. PICK k \in SlotHolders(def[j].kind) : TRUE
      BY <3>3, SomeHolder
    <3>5. k \in Task /\ Stage(k) >= 3
      BY <2>0, <2>b, <3>4, HolderStage DEF SlotHolders
    <3>6. Stage(j) = 2 /\ WaitsFor(j, k)
      BY <2>0, <2>3, <3>4 DEF Stage, WaitsFor, Asking
    <3>7. Stage(k) \in Nat
      BY DEF Stage
    <3>8. QED
      BY <3>5, <3>6, <3>7
  <2>4. ASSUME pc[j] \in {"barrier", "writer"}
        PROVE  def[j].library \in Library
    BY <2>d, <2>4 DEF Asking, JobDefinition
  <2>5. CASE pc[j] = "barrier"
    <3> DEFINE l == def[j].library
    <3>1. writing[l] \/ waiting[l] # 0
      BY <2>0, <2>5 DEF Granted, AdmitsShared, Asking
    <3>2. Cardinality(Holders(l, "write")) # 0 \/ Cardinality(Holders(l, "waiting")) # 0
      BY <1>3, <2>4, <2>5, <3>1 DEF Inductive, Balance, ContextsBalanced, BarriersBalanced
    <3>3. PICK k \in Holders(l, "write") \cup Holders(l, "waiting") : TRUE
      BY <3>2, SomeHolder
    <3>4. k \in Task /\ Stage(k) >= 4
      BY <2>0, <2>b, <3>3, HolderStage DEF Holders
    <3>5. Stage(j) = 3 /\ WaitsFor(j, k)
      BY <2>0, <2>5, <3>3 DEF Stage, WaitsFor, Asking
    <3>6. Stage(k) \in Nat
      BY DEF Stage
    <3>7. QED
      BY <3>4, <3>5, <3>6
  <2>6. CASE pc[j] = "writer"
    <3> DEFINE l == def[j].library
    <3>1. papers[l] # 0 \/ readers[l] # 0 \/ writing[l]
      BY <2>0, <2>6 DEF Granted, AdmitsWriter, Asking
    <3>2. \E c \in {"paper", "read", "write"} : Cardinality(Holders(l, c)) # 0
      BY <1>3, <2>4, <2>6, <3>1 DEF Inductive, Balance, ContextsBalanced, BarriersBalanced
    <3>3. PICK c \in {"paper", "read", "write"} : Cardinality(Holders(l, c)) # 0
      BY <3>2
    <3>4. PICK k \in Holders(l, c) : TRUE
      BY <3>3, SomeHolder
    <3>5. k \in Task /\ Stage(k) = 5
      BY <2>0, <2>b, <3>4, HolderStage DEF Holders
    <3>6. Stage(j) = 4 /\ WaitsFor(j, k)
      BY <2>0, <2>6, <3>4 DEF Stage, WaitsFor, Asking
    <3>7. QED
      BY <3>5, <3>6
  <2>7. CASE pc[j] = "arrive"
    BY <2>0, <2>7 DEF Granted, Asking
  <2>8. QED
    BY <2>1, <2>2, <2>3, <2>5, <2>6, <2>7 DEF Asking
<1>4. QED
  BY <1>1, <1>2, <1>3, InductiveHolds, PTL DEF Spec
=============================================================================
