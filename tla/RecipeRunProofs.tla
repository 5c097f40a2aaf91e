-------------------------- MODULE RecipeRunProofs --------------------------
(***************************************************************************)
(* Theorems about RecipeRun, for any runs, jobs, requests, faults and      *)
(* clicks: types, SubmittedOnce, InstalledRecorded and ProgressKept.       *)
(*                                                                         *)
(* A step of a coordinator changes its own run's directory, its own copy   *)
(* of the run's state and its own place, and perhaps adds a Batch.  So the *)
(* invariant speaks of one run (RunFits) and of one job (JobFits), and of  *)
(* two jobs only where they have the same run (Apart).  That a step keeps  *)
(* it for everybody else is one lemma (OthersKeep); what is left for each  *)
(* action is its own run and its own job.                                  *)
(***************************************************************************)
EXTENDS RecipeRun, FiniteSetTheorems, TLAPS

Working == Place \ {"none", "queued", "done"}

\* Places of a coordinator that knows its manifest.
Later == Working \ {"snapshot"}

\* The places up to the end of its Batch.
Preparing == {"upload", "file", "ready", "create"}
Awaiting == {"accepted", "poll", "retrieve", "collect"}
Unsettled == Preparing \cup {"reconcile"} \cup Awaiting

\* The places where the ID of the Batch is on record.
OnRecord == {"poll", "retrieve", "collect", "child", "recorded", "wake", "broken",
          "cleanup", "abandon"}

\* What a state of a run says is so, whoever has a copy of it.
Sound(m) ==
  /\ m.batch <= Len(batches)
  /\ Collected(m) => m.batch # 0
  /\ m.finalized # {} => Collected(m)
  /\ \A q \in m.finalized : m.outcomes[q] = "ok" => record[q] # NoRun

\* A submission is on record, or the intent to submit.
Submitted(m) == m.batch # 0 \/ (m.input # 0 /\ m.phase \in {"attempted", "uncertain"})

\* Nothing durable in m is missing in n.
Keeps(r, m, n) ==
  /\ m.uploads \subseteq n.uploads
  /\ m.input # 0 => n.input = m.input
  /\ m.batch # 0 => n.batch = m.batch
  /\ m.finalized \subseteq n.finalized
  /\ \A q \in manifest[r] : m.outcomes[q] # "none" => n.outcomes[q] # "none"

\* The requests a run with state m has installed.
InstalledIn(r, m) == {q \in manifest[r] : m.outcomes[q] = "ok" /\ q \in m.finalized}

\* A run's directory.
DirFits(r, d) ==
  /\ Sound(d)
  /\ d.phase = "completed" => manifest[r] = InstalledIn(r, d)
  /\ manifest[r] = {} => /\ d.batch = 0 /\ ~Collected(d)
                         /\ d.phase # "completed" /\ BatchesOf(r) = {}

\* A run that two coordinators of one process shared may have been submitted
\* twice and may have lost progress; one whose directory a cut made forget its
\* submission may have been submitted twice; any other has at most one Batch, of
\* which its directory tells.
Single(r, d) ==
  r \notin erased =>
    /\ \A b, c \in BatchesOf(r) : b = c
    /\ BatchesOf(r) # {} => Submitted(d)

RunFits(r) == DirFits(r, disk[r]) /\ (r \notin shared => Single(r, disk[r]))

\* A coordinator's copy, by the place where it stands.
CopyFits(r, m, place) ==
  /\ Sound(m)
  /\ place \in Later => manifest[r] # {} /\ m.phase # "completed"
  /\ place \in Preparing \cup {"reconcile"} => m.batch = 0
  /\ place \in {"upload", "file"} => m.input = 0
  /\ place \in {"ready", "create", "reconcile"} => m.input # 0
  /\ place = "reconcile" => m.phase \in {"attempted", "uncertain"}
  /\ place \in Awaiting => m.batch # 0
  /\ place \in Unsettled => ~Collected(m)
  /\ place \in {"child", "recorded", "wake"} => Collected(m)

\* A coordinator that has its run, with state d on disk, to itself.
Owns(r, d, m, place) ==
  /\ place \in Later => Keeps(r, d, m)
  /\ place \in Preparing => BatchesOf(r) = {} \/ r \in erased
  /\ place \in {"create", "accepted"} => Submitted(d)
  /\ place \in OnRecord => d.batch # 0 /\ m.batch # 0

JobFits(j) ==
  /\ pc[j] # "none" \/ state[j] \in {"queued", "running"} => run[j] \in Run
  /\ pc[j] \in Working => state[j] = "running"
  /\ pc[j] = "queued" => state[j] = "queued"
  /\ pc[j] \in {"queued", "snapshot"} /\ manifest[run[j]] = {} => targets[j] # {}
  /\ pc[j] = "snapshot" => manifest[run[j]] = {}
  /\ CopyFits(run[j], mem[j], pc[j])
  /\ run[j] \notin shared => Owns(run[j], disk[run[j]], mem[j], pc[j])

\* Two jobs of one run: it has its manifest, and they live one after the other
\* unless the run counts as shared.
Apart ==
  \A i, j \in Job :
    i # j /\ run[i] = run[j] /\ run[i] \in Run =>
      /\ manifest[run[i]] # {}
      /\ i \in Live /\ j \in Live => run[i] \in shared

Inv ==
  /\ TypeOK
  /\ \A r \in Run : RunFits(r)
  /\ \A j \in Job : JobFits(j)
  /\ Apart
-----------------------------------------------------------------------------
(* The steps of a coordinator, as what they write *)

\* Job j writes d to the directory of its run, keeps m, and goes on to a place.
Writes(j, d, m, place, s) ==
  /\ disk' = [disk EXCEPT ![run[j]] = d]
  /\ mem' = [mem EXCEPT ![j] = m]
  /\ pc' = [pc EXCEPT ![j] = place]
  /\ state' = [state EXCEPT ![j] = s]
  /\ UNCHANGED <<run, targets, token, closing, restarts, shared>>
  /\ erased' \in {erased, erased \cup {run[j]}}

\* It may write the manifest, record outputs and add a Batch.
Adds(j) ==
  /\ \A r \in Run \ {run[j]} : manifest'[r] = manifest[r]
  /\ manifest[run[j]] # {} => manifest'[run[j]] = manifest[run[j]]
  /\ \A q \in Request : record[q] # NoRun => record'[q] # NoRun
  /\ Len(batches) <= Len(batches')
  /\ \A r \in Run \ {run[j]} : BatchesOf(r)' = BatchesOf(r)

\* What it writes fits.
WellWritten(j, d, m, place) ==
  /\ DirFits(run[j], d)
  /\ CopyFits(run[j], m, place)
  /\ place = "snapshot" => manifest[run[j]] = {} /\ targets[j] # {}
  /\ run[j] \notin shared => Single(run[j], d) /\ Owns(run[j], d, m, place)

\* The types of what else a step changes.
RestOK ==
  /\ pruned \subseteq Run
  /\ files \subseteq File /\ created \in 0..MaxFiles
  /\ sent \in [Job -> BOOLEAN]
  /\ paper \in [Job -> Paper \cup {NoPaper}]
  /\ todo \in [Job -> SUBSET File]

(* A step of one coordinator changes nothing that the invariant says of other *)
(* runs and other jobs.                                                        *)
LEMMA OthersKeep ==
  ASSUME Inv, TypeOK', NEW j \in Job, pc[j] \in Working \cup {"queued"},
         NEW d \in RunState, NEW m \in RunState,
         NEW place \in Working \cup {"done"}, NEW s \in JobEnd \cup {"running"},
         place \in Working => s = "running",
         Writes(j, d, m, place, s), Adds(j), WellWritten(j, d, m, place)'
  PROVE  Inv'
<1> DEFINE r == run[j]
<1>1. r \in Run /\ JobFits(j) /\ j \in Live
  BY DEF Inv, JobFits, Live, Working
<1>2. /\ disk'[r] = d /\ \A t \in Run \ {r} : disk'[t] = disk[t]
      /\ mem'[j] = m /\ pc'[j] = place /\ state'[j] = s
      /\ \A i \in Job \ {j} : mem'[i] = mem[i] /\ pc'[i] = pc[i] /\ state'[i] = state[i]
      /\ run' = run /\ targets' = targets /\ shared' = shared
      /\ erased \subseteq erased' /\ erased' \subseteq erased \cup {r}
  BY <1>1 DEF Writes, Inv, TypeOK, envVars
<1>3. ASSUME NEW x \in RunState, Sound(x)
      PROVE  Sound(x)'
  <2>1. x.batch \in Nat /\ x.finalized \subseteq Request
    BY BoundsNat DEF RunState
  <2>2. Len(batches) \in Nat /\ Len(batches') \in Nat
    BY DEF Inv, TypeOK
  <2> QED BY <1>3, <2>1, <2>2 DEF Adds, Sound, Collected
<1>4. ASSUME NEW t \in Run, t # r
      PROVE  RunFits(t)'
  <2>1. RunFits(t) /\ disk[t] \in RunState
    BY DEF Inv, TypeOK
  <2>2. manifest'[t] = manifest[t] /\ disk'[t] = disk[t] /\ BatchesOf(t)' = BatchesOf(t)
    BY <1>2, <1>4 DEF Adds
  <2>3. Sound(disk[t])'
    BY <1>3, <2>1, <2>2 DEF RunFits, DirFits, Sound, Collected
  <2>4. t \in erased' <=> t \in erased
    BY <1>2, <1>4
  <2> QED BY <1>2, <2>1, <2>2, <2>3, <2>4
             DEF RunFits, DirFits, Single, Submitted, Collected, InstalledIn
<1>5. RunFits(r)'
  BY <1>2 DEF WellWritten, RunFits
<1>6. ASSUME NEW i \in Job, i # j
      PROVE  JobFits(i)'
  <2>1. JobFits(i) /\ mem[i] \in RunState
    BY DEF Inv, TypeOK
  <2>2. /\ run'[i] = run[i] /\ mem'[i] = mem[i] /\ pc'[i] = pc[i] /\ state'[i] = state[i]
        /\ targets'[i] = targets[i] /\ shared' = shared
    BY <1>2, <1>6
  <2>3. Sound(mem[i])'
    BY <1>3, <2>1, <2>2 DEF JobFits, CopyFits, Sound, Collected
  <2>4. CASE pc[i] = "none"
    BY <2>1, <2>2, <2>3, <2>4
       DEF JobFits, CopyFits, Owns, OnRecord, Working, Later, Preparing, Awaiting, Unsettled
  <2>5. CASE pc[i] # "none" /\ run[i] = r
    <3>1. manifest'[r] = manifest[r] /\ manifest[r] # {} /\ (i \in Live => r \in shared)
      BY <1>1, <1>6, <2>5 DEF Inv, Apart, Adds
    <3>2. pc[i] \in Working => r \in shared
      BY <2>1, <3>1 DEF JobFits, Live
    <3>3. CASE r \in shared
      BY <2>1, <2>2, <2>3, <2>5, <3>1, <3>3 DEF JobFits, CopyFits, Collected
    <3>4. CASE pc[i] \notin Working
      BY <2>1, <2>2, <2>3, <2>5, <3>1, <3>4
         DEF JobFits, CopyFits, Collected, Owns, OnRecord, Working, Later, Preparing, Awaiting, Place
    <3> QED BY <3>2, <3>3, <3>4
  <2>6. CASE pc[i] # "none" /\ run[i] # r
    <3>1. run[i] \in Run
      BY <2>1, <2>6 DEF JobFits
    <3>2. /\ manifest'[run[i]] = manifest[run[i]] /\ disk'[run[i]] = disk[run[i]]
          /\ BatchesOf(run[i])' = BatchesOf(run[i])
      BY <1>2, <2>2, <2>6, <3>1 DEF Adds, BatchesOf
    <3>3. run[i] \in erased' <=> run[i] \in erased
      BY <1>2, <2>6
    <3>4. CopyFits(run[i], mem[i], pc[i])'
      BY <2>1, <2>2, <2>3, <3>2 DEF JobFits, CopyFits, Collected
    <3>5. run[i] \notin shared => Owns(run[i], disk[run[i]], mem[i], pc[i])'
      BY <2>1, <2>2, <3>2, <3>3 DEF JobFits, Owns, Keeps, Submitted
    <3> QED BY <2>1, <2>2, <3>2, <3>4, <3>5 DEF JobFits
  <2> QED BY <2>4, <2>5, <2>6
<1>7. JobFits(j)'
  BY <1>1, <1>2 DEF WellWritten, JobFits, Working
<1>8. Apart'
  <2>1. SUFFICES ASSUME NEW h \in Job, NEW i \in Job, h # i, run[h] = run[i], run[h] \in Run
                 PROVE  /\ manifest'[run[h]] # {}
                        /\ h \in Live' /\ i \in Live' => run[h] \in shared
    BY <1>2 DEF Apart
  <2>2. manifest[run[h]] # {} /\ (h \in Live /\ i \in Live => run[h] \in shared)
    BY <2>1 DEF Inv, Apart
  <2>3. manifest'[run[h]] = manifest[run[h]]
    BY <2>1, <2>2 DEF Adds
  <2>4. Live' \subseteq Live
    BY <1>1, <1>2 DEF Live
  <2> QED BY <2>2, <2>3, <2>4
<1> QED BY <1>4, <1>5, <1>6, <1>7, <1>8, <1>1, <1>2 DEF Inv

(* What a step writes has its types.                                           *)
LEMMA WritesTyped ==
  ASSUME TypeOK, NEW j \in Job, NEW d \in RunState, NEW m \in RunState,
         NEW place \in Place, NEW s \in JobEnd \cup {"running"}, run[j] \in Run,
         Writes(j, d, m, place, s), RestOK',
         manifest' \in [Run -> SUBSET Request],
         record' \in [Request -> Run \cup {NoRun}],
         batches' \in Seq(Batch), Len(batches') <= MaxBatches
  PROVE  TypeOK'
  BY DEF TypeOK, RestOK, Writes, envVars

(* The common step, which changes neither manifest, records nor Batches.       *)
LEMMA PlainKeeps ==
  ASSUME Inv, NEW j \in Job, pc[j] \in Working \cup {"queued"},
         NEW d \in RunState, NEW m \in RunState,
         NEW place \in Working \cup {"done"}, NEW s \in JobEnd \cup {"running"},
         place \in Working => s = "running",
         Writes(j, d, m, place, s), WellWritten(j, d, m, place),
         UNCHANGED <<manifest, record, batches>>, RestOK'
  PROVE  Inv'
<1>1. Adds(j)
  BY DEF Adds, BatchesOf, Inv, TypeOK
<1>2. WellWritten(j, d, m, place)'
  BY DEF WellWritten, DirFits, CopyFits, Sound, Collected, InstalledIn, BatchesOf, Single, Submitted,
         Owns, Keeps, Writes, envVars
<1>3. TypeOK'
  <2>1. place \in Place
    BY DEF Working, Place
  <2>2. TypeOK
    BY DEF Inv
  <2>3. /\ manifest' \in [Run -> SUBSET Request] /\ record' \in [Request -> Run \cup {NoRun}]
        /\ batches' \in Seq(Batch) /\ Len(batches') <= MaxBatches
    BY <2>2 DEF TypeOK
  <2>4. run[j] \in Run
    BY DEF Inv, JobFits, Working
  <2> QED BY <2>1, <2>2, <2>3, <2>4, WritesTyped
<1> QED BY <1>1, <1>2, <1>3, OthersKeep

(* The blank state of a run is one.                                            *)
LEMMA NewStateTyped == NewState \in RunState
  BY BoundsNat DEF NewState, RunState, RunPhase

(* A coordinator that ends leaves no copy behind; what it may have written to  *)
(* the directory has to fit.                                                   *)
LEMMA EndKeeps ==
  ASSUME Inv, NEW j \in Job, pc[j] \in Working, NEW d \in RunState, NEW s \in JobEnd,
         disk' = [disk EXCEPT ![run[j]] = d], End(j, s),
         DirFits(run[j], d), run[j] \notin shared => Single(run[j], d),
         UNCHANGED <<manifest, record, batches, run, targets, token, envVars>>,
         pruned' \subseteq Run, files' \subseteq File, created' \in 0..MaxFiles
  PROVE  Inv'
<1>1. Writes(j, d, NewState, "done", s)
  BY DEF Writes, End, envVars
<1>2. CopyFits(run[j], NewState, "done")
  BY DEF Inv, TypeOK, CopyFits, Sound, Collected, NewState, Working, Later, Preparing, Awaiting,
         Unsettled
<1>3. Owns(run[j], d, NewState, "done")
  BY DEF Owns, OnRecord, Working, Later, Preparing
<1>4. WellWritten(j, d, NewState, "done")
  BY <1>2, <1>3 DEF WellWritten
<1>5. RestOK'
  BY DEF RestOK, End, Inv, TypeOK
<1>6. "done" \notin Working
  BY DEF Working
<1> QED BY <1>1, <1>4, <1>5, <1>6, PlainKeeps, NewStateTyped

(* The directory of a coordinator's run fits, and so does what is in its copy. *)
LEMMA Own ==
  ASSUME Inv, NEW j \in Job, pc[j] # "none"
  PROVE  /\ run[j] \in Run /\ disk[run[j]] \in RunState /\ mem[j] \in RunState
         /\ manifest[run[j]] \subseteq Request /\ targets[j] \subseteq Request
         /\ DirFits(run[j], disk[run[j]]) /\ CopyFits(run[j], mem[j], pc[j])
         /\ run[j] \notin shared => /\ Single(run[j], disk[run[j]])
                                    /\ Owns(run[j], disk[run[j]], mem[j], pc[j])
  BY DEF Inv, TypeOK, RunFits, JobFits

(* A step that does not touch the directory writes what is there.              *)
LEMMA DiskSame ==
  ASSUME TypeOK, NEW r \in Run, UNCHANGED disk
  PROVE  disk' = [disk EXCEPT ![r] = disk[r]]
  BY DEF TypeOK

(* Where a submission goes on, and what it changes.                            *)
LEMMA Submission ==
  ASSUME NEW Q \in SUBSET Request, NEW m \in RunState, NEW w, NEW place,
         place = NextPlace(Q, m),
         w = IF place \in {"upload", "file"} THEN [m EXCEPT !.phase = "uploading"] ELSE m
  PROVE  /\ w \in RunState /\ place \in {"upload", "file", "ready", "reconcile", "poll"}
         /\ w.batch = m.batch /\ w.input = m.input /\ w.outcomes = m.outcomes
         /\ w.finalized = m.finalized /\ w.uploads = m.uploads
         /\ w.phase \in {m.phase, "uploading"}
         /\ place # "poll" => m.batch = 0
         /\ place = "poll" => m.batch # 0
         /\ place \in {"upload", "file"} => m.input = 0
         /\ place \in {"ready", "reconcile"} => m.input # 0 /\ w = m
         /\ place = "ready" => m.phase \notin {"attempted", "uncertain"}
         /\ place = "reconcile" => m.phase \in {"attempted", "uncertain"}
  BY DEF NextPlace, RunState, RunPhase

(* A coordinator that runs stays so.                                           *)
LEMMA StaysRunning ==
  ASSUME Inv, NEW j \in Job, pc[j] \in Working, UNCHANGED state
  PROVE  state' = [state EXCEPT ![j] = "running"]
  BY DEF Inv, TypeOK, JobFits

(* A coordinator that has its manifest goes on with what it has just written.  *)
LEMMA GotoKeeps ==
  ASSUME Inv, NEW j \in Job, pc[j] \in Working \cup {"queued"},
         NEW m \in RunState, NEW place \in Later, Goto(j, m, place),
         state' = [state EXCEPT ![j] = "running"],
         UNCHANGED <<manifest, record, batches, run, targets, token, envVars>>, RestOK',
         CopyFits(run[j], m, place),
         run[j] \notin shared =>
           /\ Single(run[j], m)
           /\ place \in Preparing => BatchesOf(run[j]) = {} \/ run[j] \in erased
           /\ place \in {"create", "accepted"} => Submitted(m)
           /\ place \in OnRecord => m.batch # 0
  PROVE  Inv'
<1>1. Writes(j, m, m, place, "running")
  BY DEF Writes, Goto, envVars
<1>2. DirFits(run[j], m)
  BY DEF CopyFits, DirFits
<1>3. Keeps(run[j], m, m)
  BY DEF Keeps
<1>4. WellWritten(j, m, m, place)
  BY <1>2, <1>3 DEF WellWritten, Owns, Later
<1> QED BY <1>1, <1>4, PlainKeeps DEF Later

-----------------------------------------------------------------------------
(* The steps one by one *)

(* _finalize_results begins on a collected run. *)
LEMMA InstallFits ==
  ASSUME Inv, NEW r \in Run, NEW m \in RunState, NEW w,
         Sound(m), Collected(m), manifest[r] # {}, w = [m EXCEPT !.phase = "installing"]
  PROVE  /\ w \in RunState /\ CopyFits(r, w, "child")
         /\ w.batch # 0 /\ ~("child" \in Preparing)
  BY DEF RunState, RunPhase, Sound, Collected, CopyFits, Later, Preparing, Awaiting, Unsettled

(* _cleanup_remote begins: the directory keeps the files, the copy does not. *)
LEMMA CleanUpKeeps ==
  ASSUME Inv, NEW j \in Job, pc[j] \in Working \cup {"queued"},
         NEW m \in RunState, NEW place \in {"cleanup", "abandon"}, CleanUp(j, m, place),
         state' = [state EXCEPT ![j] = "running"],
         UNCHANGED <<manifest, pruned, record, remVars, sent, run, targets, token, envVars>>,
         Sound(m), manifest[run[j]] # {},
         run[j] \notin shared => m.batch # 0 /\ Single(run[j], m)
  PROVE  Inv'
<1> DEFINE c == [m EXCEPT !.phase = "cleaning_up"]
           n == [c EXCEPT !.cleanup = {}]
<1>1. /\ c \in RunState /\ n \in RunState /\ c.phase = "cleaning_up" /\ n.phase = "cleaning_up"
      /\ \A x \in {c, n} : /\ x.batch = m.batch /\ x.outcomes = m.outcomes /\ x.input = m.input
                           /\ x.finalized = m.finalized /\ x.uploads = m.uploads
  BY DEF RunState, RunPhase
<1>2. Writes(j, c, n, place, "running")
  BY DEF Writes, CleanUp, envVars
<1>3. Sound(c) /\ Sound(n)
  BY <1>1 DEF Sound, Collected
<1>4. DirFits(run[j], c)
  BY <1>1, <1>3 DEF DirFits
<1>5. CopyFits(run[j], n, place)
  BY <1>1, <1>3 DEF CopyFits, Later, Preparing, Awaiting, Unsettled
<1>6. run[j] \notin shared => Single(run[j], c) /\ Owns(run[j], c, n, place)
  BY <1>1 DEF Single, Submitted, Owns, Keeps, Preparing
<1>7. WellWritten(j, c, n, place)
  BY <1>4, <1>5, <1>6 DEF WellWritten
<1>8. RestOK'
  BY DEF RestOK, CleanUp, Inv, TypeOK, remVars, RunState
<1>9. place \in Working /\ UNCHANGED <<manifest, record, batches>>
  BY DEF Working, Place, remVars
<1> HIDE DEF c, n
<1> QED BY <1>1, <1>2, <1>7, <1>8, <1>9, PlainKeeps

(* _run_coordinator begins, afresh or where the directory stands. *)
LEMMA StartKeeps ==
  ASSUME Inv, NEW j \in Job, Start(j)
  PROVE  Inv'
<1> DEFINE r == run[j]
           d == disk[r]
<1>1. pc[j] = "queued" /\ JobFits(j)
  BY DEF Start, Inv
<1>2. /\ r \in Run /\ d \in RunState /\ DirFits(r, d) /\ (r \notin shared => Single(r, d))
      /\ manifest[r] \subseteq Request
  BY <1>1, Own
<1>3. /\ state' = [state EXCEPT ![j] = "running"]
      /\ UNCHANGED <<manifest, pruned, record, remVars, sent, run, targets, token, envVars>>
  BY DEF Start, Elsewhere
<1>4. CASE manifest[r] = {} /\ Goto(j, [d EXCEPT !.phase = "snapshotting"], "snapshot")
           /\ UNCHANGED <<paper, todo>>
  <2> DEFINE w == [d EXCEPT !.phase = "snapshotting"]
  <2>1. /\ w \in RunState /\ w.batch = d.batch /\ w.outcomes = d.outcomes /\ w.phase = "snapshotting"
        /\ w.finalized = d.finalized
    BY <1>2 DEF RunState, RunPhase
  <2>2. Writes(j, w, w, "snapshot", "running")
    BY <1>3, <1>4 DEF Writes, Goto, envVars
  <2>3. Sound(w) /\ ~Collected(w)
    BY <1>2, <1>4, <2>1 DEF DirFits, Sound, Collected
  <2>4. DirFits(r, w) /\ CopyFits(r, w, "snapshot")
    BY <1>2, <1>4, <2>1, <2>3
       DEF DirFits, CopyFits, Later, Preparing, Awaiting, Unsettled
  <2>5. Single(r, w) /\ Owns(r, w, w, "snapshot")
    BY <1>2, <1>4 DEF DirFits, Single, Owns, OnRecord, Later, Preparing
  <2>6. targets[j] # {}
    BY <1>1, <1>4 DEF JobFits
  <2>7. WellWritten(j, w, w, "snapshot")
    BY <1>4, <2>4, <2>5, <2>6 DEF WellWritten
  <2>8. RestOK'
    BY <1>3, <1>4 DEF RestOK, Inv, TypeOK, remVars
  <2>9. "snapshot" \in Working /\ UNCHANGED <<manifest, record, batches>>
    BY <1>3 DEF Working, Place, remVars
  <2> HIDE DEF w
  <2> QED BY <1>1, <1>3, <2>1, <2>2, <2>7, <2>8, <2>9, PlainKeeps
<1>5. CASE manifest[r] # {} /\ ~Collected(d) /\ Submit(j, manifest[r], d)
           /\ UNCHANGED <<paper, todo>>
  <2> DEFINE place == NextPlace(manifest[r], d)
             w == IF place \in {"upload", "file"} THEN [d EXCEPT !.phase = "uploading"] ELSE d
  <2>1. /\ w \in RunState /\ place \in {"upload", "file", "ready", "reconcile", "poll"}
        /\ w.batch = d.batch /\ w.input = d.input /\ w.outcomes = d.outcomes
        /\ w.finalized = d.finalized /\ w.uploads = d.uploads
        /\ w.phase \in {d.phase, "uploading"}
        /\ place # "poll" => d.batch = 0
        /\ place = "poll" => d.batch # 0
        /\ place \in {"upload", "file"} => d.input = 0
        /\ place \in {"ready", "reconcile"} => d.input # 0 /\ w = d
        /\ place = "ready" => d.phase \notin {"attempted", "uncertain"}
        /\ place = "reconcile" => d.phase \in {"attempted", "uncertain"}
    BY <1>2, Submission
  <2>2. Goto(j, w, place)
    BY <1>5 DEF Submit
  <2>3. d.phase # "completed"
    BY <1>2, <1>5 DEF DirFits, InstalledIn, Collected
  <2>4. Sound(w) /\ ~Collected(w)
    BY <1>2, <1>5, <2>1 DEF DirFits, Sound, Collected
  <2>5. CopyFits(r, w, place)
    BY <1>5, <2>1, <2>3, <2>4
       DEF CopyFits, Later, Preparing, Awaiting, Unsettled, Working, Place
  <2>6. r \notin shared => /\ Single(r, w)
                           /\ place \in Preparing => BatchesOf(r) = {} \/ r \in erased
    BY <1>2, <2>1 DEF Single, Submitted, Preparing
  <2>7. RestOK'
    BY <1>3, <1>5 DEF RestOK, Inv, TypeOK, remVars
  <2>8. place \in Later /\ place \notin {"create", "accepted", "wake", "cleanup", "abandon"}
        /\ UNCHANGED batches
    BY <1>3, <2>1 DEF Later, Working, Place, remVars
  <2> HIDE DEF w, place
  <2> QED BY <1>1, <1>3, <2>1, <2>2, <2>5, <2>6, <2>7, <2>8, GotoKeeps DEF OnRecord
<1>6. CASE Collected(d) /\ Install(j, d)
  <2> DEFINE w == [d EXCEPT !.phase = "installing"]
  <2>1. manifest[r] # {} /\ Sound(d)
    BY <1>2, <1>6 DEF DirFits
  <2>2. w \in RunState /\ CopyFits(r, w, "child") /\ w.batch # 0 /\ "child" \notin Preparing
    BY <1>2, <1>6, <2>1, InstallFits
  <2>3. r \notin shared => Single(r, w)
    BY <1>2, <2>2 DEF Single, Submitted
  <2>4. Goto(j, w, "child") /\ UNCHANGED todo
    BY <1>6 DEF Install
  <2>5. RestOK'
    <3>1. PICK p \in ToFinalize(r, d) : paper' = [paper EXCEPT ![j] = p]
      BY <1>6 DEF Install
    <3>2. p \in Paper
      BY <1>2, <3>1, PapersOfRequests DEF ToFinalize
    <3> QED BY <1>3, <2>4, <3>1, <3>2 DEF RestOK, Inv, TypeOK, remVars
  <2>6. "child" \in Later /\ UNCHANGED batches
    BY <1>3 DEF Later, Working, Place, remVars
  <2> HIDE DEF w
  <2> QED BY <1>1, <1>3, <2>2, <2>3, <2>4, <2>5, <2>6, GotoKeeps
<1>7. CASE Collected(d) /\ CleanUp(j, d, "cleanup")
  <2>1. manifest[r] # {} /\ Sound(d) /\ d.batch # 0
    BY <1>2, <1>7 DEF DirFits, Sound
  <2>2. r \notin shared => Single(r, d)
    BY <1>2
  <2> QED BY <1>1, <1>2, <1>3, <1>7, <2>1, <2>2, CleanUpKeeps
<1> QED BY <1>4, <1>5, <1>6, <1>7 DEF Start

(* The manifest is written, and the run goes on to its submission. *)
LEMMA SnapshotKeeps ==
  ASSUME Inv, NEW j \in Job, Snapshot(j)
  PROVE  Inv'
<1> DEFINE r == run[j]
           d == disk[r]
<1>1. pc[j] = "snapshot" /\ JobFits(j) /\ pc[j] \in Working
  BY DEF Snapshot, Inv, Working, Place
<1>2. /\ r \in Run /\ d \in RunState /\ DirFits(r, d) /\ (r \notin shared => Single(r, d))
      /\ targets[j] \subseteq Request
  BY <1>1, Own
<1>3. manifest[r] = {} /\ targets[j] # {}
  BY <1>1 DEF JobFits
<1>4. PICK place, w :
        /\ place = NextPlace(targets[j], d)
        /\ w = IF place \in {"upload", "file"} THEN [d EXCEPT !.phase = "uploading"] ELSE d
  OBVIOUS
<1>5. /\ w \in RunState /\ place \in {"upload", "file", "ready", "reconcile"}
      /\ w.batch = 0 /\ w.outcomes = d.outcomes /\ w.finalized = d.finalized
      /\ w.input = d.input /\ w.phase # "completed"
      /\ place \in {"ready", "reconcile"} => d.input # 0
      /\ place \in {"upload", "file"} => d.input = 0
      /\ place = "reconcile" => w.phase \in {"attempted", "uncertain"}
  <2>1. d.batch = 0 /\ d.phase # "completed"
    BY <1>2, <1>3 DEF DirFits
  <2> QED BY <1>2, <1>4, <2>1, Submission
<1>6. Goto(j, w, place) /\ manifest' = [manifest EXCEPT ![r] = targets[j]]
      /\ UNCHANGED <<pruned, record, remVars, state, sent, paper, todo, run, targets, token, envVars>>
  BY <1>4 DEF Snapshot, Submit, Elsewhere
<1>7. manifest'[r] = targets[j] /\ \A t \in Run \ {r} : manifest'[t] = manifest[t]
  BY <1>2, <1>6 DEF Inv, TypeOK
<1>8. Writes(j, w, w, place, "running")
  BY <1>1, <1>6, StaysRunning DEF Writes, Goto, envVars
<1>9. Adds(j)
  BY <1>3, <1>6, <1>7 DEF Adds, BatchesOf, Inv, TypeOK, remVars
<1>10. WellWritten(j, w, w, place)'
  <2>1. UNCHANGED <<record, batches, run, shared, erased, targets>>
    BY <1>6 DEF remVars, envVars
  <2>2. BatchesOf(r)' = {}
    BY <1>2, <1>3, <2>1 DEF DirFits, BatchesOf
  <2>3. Sound(w)' /\ ~Collected(w)
    BY <1>2, <1>3, <1>5, <2>1 DEF DirFits, Sound, Collected
  <2>4. DirFits(r, w)'
    BY <1>3, <1>5, <1>7, <2>1, <2>3 DEF DirFits
  <2>5. CopyFits(r, w, place)'
    BY <1>3, <1>5, <1>7, <2>1, <2>3
       DEF CopyFits, Collected, Later, Preparing, Awaiting, Unsettled, Working, Place
  <2>6. Single(r, w)' /\ Owns(r, w, w, place)'
    BY <1>5, <2>1, <2>2 DEF Single, Owns, OnRecord, Keeps, BatchesOf, Preparing
  <2> QED BY <1>5, <2>1, <2>4, <2>5, <2>6 DEF WellWritten
<1>11. TypeOK'
  <2>1. RestOK'
    BY <1>6 DEF RestOK, Inv, TypeOK, remVars
  <2>2. TypeOK
    BY DEF Inv
  <2>3. /\ manifest' \in [Run -> SUBSET Request] /\ record' \in [Request -> Run \cup {NoRun}]
        /\ batches' \in Seq(Batch) /\ Len(batches') <= MaxBatches
    BY <1>2, <1>6, <2>2 DEF TypeOK, remVars
  <2>4. place \in Place
    BY <1>5 DEF Place
  <2> QED BY <1>2, <1>5, <1>8, <2>1, <2>2, <2>3, <2>4, WritesTyped
<1>12. place \in Working
  BY <1>5 DEF Working, Place
<1> QED BY <1>1, <1>5, <1>8, <1>9, <1>10, <1>11, <1>12, OthersKeep

(* A token ends the loops over papers; only a user's reaches the run's phase. *)
LEMMA StoppedKeeps ==
  ASSUME Inv, NEW j \in Job, Stopped(j)
  PROVE  Inv'
<1> DEFINE r == run[j]
           d == disk[r]
           c == [d EXCEPT !.phase = "cancelled"]
<1>1. pc[j] \in {"upload", "snapshot"} /\ pc[j] \in Working /\ JobFits(j)
  BY DEF Stopped, Working, Place, Inv
<1>2. /\ r \in Run /\ d \in RunState /\ DirFits(r, d) /\ CopyFits(r, mem[j], pc[j])
      /\ r \notin shared => Single(r, d) /\ Owns(r, d, mem[j], pc[j])
  BY <1>1, Own
<1>3. UNCHANGED <<manifest, pruned, record, remVars, run, targets, token, envVars>>
  BY DEF Stopped, Elsewhere
<1>4. /\ c \in RunState /\ c.phase = "cancelled" /\ c.batch = d.batch /\ c.outcomes = d.outcomes
      /\ c.finalized = d.finalized
  BY <1>2 DEF RunState, RunPhase, Finished
<1>5. DirFits(r, c)
  BY <1>2, <1>4 DEF DirFits, Sound, Collected
<1>6. r \notin shared => Single(r, c)
  BY <1>1, <1>2 DEF JobFits, DirFits, Owns, Single, Preparing
<1>7. End(j, "cancelled")
      /\ (disk' = [disk EXCEPT ![r] = c] \/ disk' = [disk EXCEPT ![r] = d])
  BY DEF Stopped, Stop, StopWith
<1>8. pruned' \subseteq Run /\ files' \subseteq File /\ created' \in 0..MaxFiles
      /\ UNCHANGED <<manifest, record, batches>>
  BY <1>3 DEF Inv, TypeOK, remVars
<1>9. CASE disk' = [disk EXCEPT ![r] = c]
  <2> HIDE DEF c
  <2> QED BY <1>1, <1>3, <1>4, <1>5, <1>6, <1>7, <1>8, <1>9, EndKeeps DEF JobEnd
<1>10. CASE disk' = [disk EXCEPT ![r] = d]
  <2> HIDE DEF d
  <2> QED BY <1>1, <1>2, <1>3, <1>7, <1>8, <1>10, EndKeeps DEF JobEnd
<1> QED BY <1>7, <1>9, <1>10

(* One more input file is uploaded and its ID written. *)
LEMMA UploadKeeps ==
  ASSUME Inv, NEW j \in Job, Upload(j)
  PROVE  Inv'
<1> DEFINE r == run[j]
<1>0. PICK m : m = mem[j]
  OBVIOUS
<1>1. pc[j] = "upload" /\ pc[j] \in Working
  BY DEF Upload, Working, Place
<1>2. /\ r \in Run /\ m \in RunState /\ manifest[r] \subseteq Request /\ CopyFits(r, m, "upload")
      /\ r \notin shared => Single(r, disk[r]) /\ Owns(r, disk[r], m, "upload")
  BY <1>0, <1>1, Own
<1>3. /\ UNCHANGED <<manifest, pruned, record, batches, state, sent, paper, todo, run, targets, token, envVars>>
      /\ created + 1 \in File /\ created' = created + 1 /\ files' = files \cup {created + 1}
      /\ created' \in 0..MaxFiles
  BY BoundsNat DEF Upload, Elsewhere, Store, File, Inv, TypeOK
<1>4. PICK p, n :
        /\ p \in ToUpload(manifest[r], m)
        /\ n = [m EXCEPT !.uploads = m.uploads \cup {p}, !.cleanup = m.cleanup \cup {created + 1}]
        /\ Submit(j, manifest[r], n)
  BY <1>0 DEF Upload
<1> DEFINE place == NextPlace(manifest[r], n)
           w == IF place \in {"upload", "file"} THEN [n EXCEPT !.phase = "uploading"] ELSE n
<1>5. /\ n \in RunState /\ n.batch = m.batch /\ n.outcomes = m.outcomes
      /\ n.finalized = m.finalized /\ n.phase = m.phase
      /\ m.uploads \subseteq n.uploads /\ n.input = m.input
  <2>1. m \in RunState
    BY <1>2
  <2>2. created + 1 \in File /\ p \in Paper
    BY <1>2, <1>3, <1>4, PapersOfRequests DEF ToUpload
  <2>3. m.uploads \cup {p} \in SUBSET Paper /\ m.cleanup \cup {created + 1} \in SUBSET File
    BY <2>1, <2>2 DEF RunState
  <2>4. n = [m EXCEPT !.uploads = m.uploads \cup {p}, !.cleanup = m.cleanup \cup {created + 1}]
    BY <1>4
  <2> QED BY <2>1, <2>3, <2>4 DEF RunState
<1>6. /\ w \in RunState /\ place \in {"upload", "file", "ready", "reconcile"}
      /\ w.batch = 0 /\ w.outcomes = m.outcomes /\ w.finalized = m.finalized
      /\ w.phase # "completed" /\ w.input = n.input
      /\ place \in {"ready", "reconcile"} => n.input # 0
      /\ place \in {"upload", "file"} => n.input = 0
      /\ place = "reconcile" => w.phase \in {"attempted", "uncertain"}
  <2>1. m.batch = 0 /\ m.phase # "completed"
    BY <1>2 DEF CopyFits, Later, Working, Place, Preparing
  <2> QED BY <1>2, <1>5, <2>1, Submission
<1>7. Goto(j, w, place)
  BY <1>4 DEF Submit
<1>8. CopyFits(r, w, place)
  <2>1. manifest[r] # {} /\ Sound(m) /\ ~Collected(m)
    BY <1>2 DEF CopyFits, Later, Working, Place, Unsettled, Preparing
  <2> HIDE DEF w, place
  <2> QED BY <1>6, <2>1
        DEF CopyFits, Sound, Collected, Later, Preparing, Awaiting, Unsettled, Working, Place
<1>9. r \notin shared => Single(r, w) /\ (BatchesOf(r) = {} \/ r \in erased)
  BY <1>2 DEF Owns, OnRecord, Single, Preparing
<1>10. RestOK'
  BY <1>3 DEF RestOK, Inv, TypeOK
<1>11. place \in Later /\ place \notin {"create", "accepted", "wake", "cleanup", "abandon"}
  BY <1>6 DEF Later, Working, Place
<1> HIDE DEF w, place
<1> QED BY <1>1, <1>3, <1>6, <1>7, <1>8, <1>9, <1>10, <1>11, StaysRunning, GotoKeeps DEF OnRecord

(* The request file is uploaded. *)
LEMMA UploadFileKeeps ==
  ASSUME Inv, NEW j \in Job, UploadFile(j)
  PROVE  Inv'
<1> DEFINE r == run[j]
<1>0. PICK m : m = mem[j]
  OBVIOUS
<1>1. pc[j] = "file" /\ pc[j] \in Working
  BY DEF UploadFile, Working, Place
<1>2. /\ r \in Run /\ m \in RunState /\ CopyFits(r, m, "file")
      /\ r \notin shared => Single(r, disk[r]) /\ Owns(r, disk[r], m, "file")
  BY <1>0, <1>1, Own
<1>3. /\ UNCHANGED <<manifest, pruned, record, batches, state, sent, paper, todo, run, targets, token, envVars>>
      /\ created + 1 \in File /\ files' = files \cup {created + 1}
      /\ created' \in 0..MaxFiles
  BY BoundsNat DEF UploadFile, Elsewhere, Store, File, Inv, TypeOK
<1>9. PICK w :
        /\ w = [m EXCEPT !.input = created + 1, !.cleanup = m.cleanup \cup {created + 1},
                          !.phase = "ready"]
        /\ Goto(j, w, "ready")
  BY <1>0 DEF UploadFile
<1>4. /\ w \in RunState /\ w.batch = m.batch /\ w.outcomes = m.outcomes /\ w.phase = "ready"
      /\ w.finalized = m.finalized /\ w.input = created + 1
  <2>1. created + 1 \in File /\ m \in RunState
    BY <1>2, <1>3
  <2>2. m.cleanup \cup {created + 1} \in SUBSET File
    BY <2>1 DEF RunState
  <2>3. w = [m EXCEPT !.input = created + 1, !.cleanup = m.cleanup \cup {created + 1},
                      !.phase = "ready"]
    BY <1>9
  <2> QED BY <2>1, <2>2, <2>3 DEF RunState, RunPhase
<1>5. CopyFits(r, w, "ready")
  <2>1. w.input # 0
    BY <1>3, <1>4 DEF File
  <2> QED BY <1>2, <1>4, <2>1
        DEF CopyFits, Sound, Collected, Later, Preparing, Awaiting, Unsettled, Working, Place
<1>6. r \notin shared => Single(r, w) /\ (BatchesOf(r) = {} \/ r \in erased)
  BY <1>2 DEF Owns, OnRecord, Single, Preparing
<1>7. RestOK' /\ "ready" \in Later
  BY <1>3 DEF RestOK, Inv, TypeOK, Later, Working, Place
<1> QED BY <1>1, <1>3, <1>4, <1>5, <1>6, <1>7, <1>9, StaysRunning, GotoKeeps DEF OnRecord

(* The intent to submit is written. *)
LEMMA AttemptKeeps ==
  ASSUME Inv, NEW j \in Job, Attempt(j)
  PROVE  Inv'
<1> DEFINE r == run[j]
           m == mem[j]
           w == [m EXCEPT !.phase = "attempted"]
<1>1. pc[j] = "ready" /\ pc[j] \in Working
  BY DEF Attempt, Working, Place
<1>2. /\ r \in Run /\ m \in RunState /\ CopyFits(r, m, "ready")
      /\ r \notin shared => Single(r, disk[r]) /\ Owns(r, disk[r], m, "ready")
  BY <1>1, Own
<1>3. /\ UNCHANGED <<manifest, pruned, record, remVars, state, sent, paper, todo, run, targets, token, envVars>>
      /\ Goto(j, w, "create")
  BY DEF Attempt, Elsewhere
<1>4. /\ w \in RunState /\ w.batch = m.batch /\ w.outcomes = m.outcomes /\ w.phase = "attempted"
      /\ w.finalized = m.finalized /\ w.input = m.input
  BY <1>2 DEF RunState, RunPhase
<1>5. CopyFits(r, w, "create") /\ Submitted(w)
  <2> HIDE DEF w
  <2> QED BY <1>2, <1>4
        DEF CopyFits, Sound, Collected, Submitted, Later, Preparing, Awaiting, Unsettled, Working, Place
<1>6. r \notin shared => Single(r, w) /\ (BatchesOf(r) = {} \/ r \in erased)
  BY <1>2 DEF Owns, Single, Preparing
<1>7. RestOK' /\ "create" \in Later /\ UNCHANGED batches
  BY <1>3 DEF RestOK, Inv, TypeOK, Later, Working, Place, remVars
<1> HIDE DEF w
<1> QED BY <1>1, <1>3, <1>4, <1>5, <1>6, <1>7, StaysRunning, GotoKeeps DEF OnRecord

(* A Batch that the provider accepts is the last one, and its run's. *)
LEMMA Accepted ==
  ASSUME Inv, NEW j \in Job, run[j] \in Run, mem[j].input \in File, manifest[run[j]] \subseteq Request,
         Accept(j), UNCHANGED run
  PROVE  /\ batches' \in Seq(Batch) /\ Len(batches') = Len(batches) + 1
         /\ Len(batches) \in Nat /\ Len(batches') <= MaxBatches
         /\ \A t \in Run \ {run[j]} : BatchesOf(t)' = BatchesOf(t)
         /\ BatchesOf(run[j])' = BatchesOf(run[j]) \cup {Len(batches) + 1}
<1> DEFINE new == [run |-> run[j], input |-> mem[j].input, requests |-> manifest[run[j]],
                   ended |-> FALSE, ok |-> {}, output |-> 0]
<1>1. new \in Batch /\ new.run = run[j]
  BY DEF Batch
<1>2. batches \in Seq(Batch) /\ batches' = Append(batches, new)
  BY DEF Inv, TypeOK, Accept
<1> HIDE DEF new
<1>3. /\ batches' \in Seq(Batch) /\ Len(batches') = Len(batches) + 1
      /\ Len(batches) \in Nat
  BY <1>1, <1>2
<1>4. Len(batches') <= MaxBatches
  BY <1>3, BoundsNat DEF Accept
<1>5. /\ DOMAIN batches' = DOMAIN batches \cup {Len(batches) + 1}
      /\ batches'[Len(batches) + 1] = new
      /\ \A b \in DOMAIN batches : batches'[b] = batches[b]
  BY <1>1, <1>2, <1>3
<1>6. ASSUME NEW t \in Run
      PROVE  BatchesOf(t)' = BatchesOf(t) \cup (IF t = run[j] THEN {Len(batches) + 1} ELSE {})
  BY <1>1, <1>5 DEF BatchesOf
<1>7. BatchesOf(run[j])' = BatchesOf(run[j]) \cup {Len(batches) + 1}
  BY <1>6 DEF BatchesOf
<1>8. \A t \in Run \ {run[j]} : BatchesOf(t)' = BatchesOf(t)
  BY <1>6 DEF BatchesOf
<1> QED BY <1>3, <1>4, <1>7, <1>8 DEF BatchesOf

(* The Batch exists; its ID is in the copy only. *)
LEMMA CreateKeeps ==
  ASSUME Inv, NEW j \in Job, Create(j)
  PROVE  Inv'
<1> DEFINE r == run[j]
<1>0. PICK m, d : m = mem[j] /\ d = disk[r]
  OBVIOUS
<1>1. pc[j] = "create" /\ pc[j] \in Working
  BY DEF Create, Working, Place
<1>2. /\ r \in Run /\ m \in RunState /\ d \in RunState /\ manifest[r] \subseteq Request
      /\ CopyFits(r, m, "create") /\ DirFits(r, d)
      /\ r \notin shared => Single(r, d) /\ Owns(r, d, m, "create")
  BY <1>0, <1>1, Own
<1>3. /\ UNCHANGED <<manifest, disk, pruned, record, files, created, state, sent, paper, todo, run,
                     targets, token, envVars>>
      /\ Accept(j)
  BY DEF Create, Elsewhere, dirVars
<1>4. m.batch = 0 /\ m.input \in File /\ manifest[r] # {} /\ m.phase # "completed" /\ ~Collected(m)
      /\ Sound(m)
  BY <1>2 DEF CopyFits, Later, Working, Place, Preparing, Unsettled, RunState
<1>5. /\ batches' \in Seq(Batch) /\ Len(batches') = Len(batches) + 1
      /\ Len(batches) \in Nat /\ Len(batches') <= MaxBatches
      /\ \A t \in Run \ {r} : BatchesOf(t)' = BatchesOf(t)
      /\ BatchesOf(r)' = BatchesOf(r) \cup {Len(batches) + 1}
  BY <1>0, <1>2, <1>3, <1>4, Accepted DEF Elsewhere
<1>6. PICK n : n = [m EXCEPT !.batch = Len(batches) + 1]
  OBVIOUS
<1>7. /\ n \in RunState /\ n.batch = Len(batches) + 1 /\ n.outcomes = m.outcomes /\ n.input = m.input
      /\ n.finalized = m.finalized /\ n.uploads = m.uploads /\ n.phase = m.phase
  <2>1. Len(batches) + 1 \in 0..MaxBatches
    BY <1>5, BoundsNat
  <2> QED BY <1>2, <1>6, <2>1 DEF RunState
<1>8. Writes(j, d, n, "accepted", "running")
  <2>1. mem' = [mem EXCEPT ![j] = n]
    BY <1>0, <1>6 DEF Create
  <2>2. disk' = [disk EXCEPT ![r] = d]
    BY <1>0, <1>2, <1>3, DiskSame DEF Inv
  <2> QED BY <1>1, <1>3, <2>1, <2>2, StaysRunning DEF Writes, Create, envVars
<1>9. Adds(j)
  BY <1>3, <1>5 DEF Adds
<1>10. WellWritten(j, d, n, "accepted")'
  <2>1. UNCHANGED <<run, manifest, record, shared, erased, targets, disk>>
    BY <1>3 DEF envVars
  <2>2. Sound(d)'
    <3>1. d.batch \in Nat
      BY <1>2, BoundsNat DEF RunState
    <3> QED BY <1>2, <1>5, <2>1, <3>1 DEF DirFits, Sound, Collected
  <2>3. DirFits(r, d)'
    BY <1>2, <1>4, <2>1, <2>2 DEF DirFits, InstalledIn
  <2>4. CopyFits(r, n, "accepted")'
    <3>1. Sound(n)' /\ ~Collected(n)
      BY <1>4, <1>5, <1>7, <2>1 DEF Sound, Collected
    <3> QED BY <1>4, <1>5, <1>7, <2>1, <3>1
            DEF CopyFits, Collected, Later, Preparing, Awaiting, Unsettled, Working, Place
  <2>5. ASSUME r \notin shared
        PROVE  Single(r, d)' /\ Owns(r, d, n, "accepted")'
    <3>1. (BatchesOf(r) = {} \/ r \in erased) /\ Submitted(d) /\ Keeps(r, d, m)
      BY <1>2, <2>5 DEF Owns, Preparing, Later, Working, Place
    <3>2. Single(r, d)'
      BY <1>5, <2>1, <3>1 DEF Single, Submitted
    <3>3. Keeps(r, d, n)'
      BY <1>4, <1>7, <2>1, <3>1 DEF Keeps
    <3> QED BY <2>1, <3>1, <3>2, <3>3 DEF Owns, OnRecord, Submitted, Preparing
  <2> QED BY <2>1, <2>3, <2>4, <2>5 DEF WellWritten
<1>11. TypeOK'
  <2>1. RestOK'
    BY <1>3 DEF RestOK, Inv, TypeOK
  <2>2. TypeOK
    BY DEF Inv
  <2>3. manifest' \in [Run -> SUBSET Request] /\ record' \in [Request -> Run \cup {NoRun}]
    BY <1>3, <2>2 DEF TypeOK
  <2> QED BY <1>2, <1>5, <1>7, <1>8, <2>1, <2>2, <2>3, WritesTyped DEF Place
<1>12. "accepted" \in Working
  BY DEF Working, Place
<1> QED BY <1>1, <1>2, <1>7, <1>8, <1>9, <1>10, <1>11, <1>12, OthersKeep

(* The answer to the submission is written. *)
LEMMA CreatedKeeps ==
  ASSUME Inv, NEW j \in Job, Created(j)
  PROVE  Inv'
<1> DEFINE r == run[j]
           m == mem[j]
<1>1. pc[j] = "accepted" /\ pc[j] \in Working
  BY DEF Created, Working, Place
<1>2. /\ r \in Run /\ m \in RunState /\ CopyFits(r, m, "accepted")
      /\ r \notin shared => Single(r, disk[r])
  BY <1>1, Own
<1>3. /\ UNCHANGED <<manifest, pruned, record, remVars, state, sent, paper, todo, run, targets, token, envVars>>
      /\ Goto(j, m, "poll")
  BY DEF Created, Elsewhere
<1>4. CopyFits(r, m, "poll") /\ m.batch # 0
  BY <1>2 DEF CopyFits, Later, Preparing, Awaiting, Unsettled, Working, Place
<1>5. r \notin shared => Single(r, m)
  BY <1>2, <1>4 DEF Single, Submitted
<1>6. RestOK' /\ "poll" \in Later /\ "poll" \notin Preparing /\ UNCHANGED batches
  BY <1>3 DEF RestOK, Inv, TypeOK, Later, Working, Place, Preparing, remVars
<1> HIDE DEF m
<1> QED BY <1>1, <1>2, <1>3, <1>4, <1>5, <1>6, StaysRunning, GotoKeeps

(* An uncertain submission says that there may be one. *)
LEMMA UncertainFits ==
  ASSUME Inv, NEW r \in Run, NEW m \in RunState, CopyFits(r, m, "create") \/ CopyFits(r, m, "reconcile"),
         NEW w, w = [m EXCEPT !.phase = "uncertain"]
  PROVE  w \in RunState /\ DirFits(r, w) /\ Submitted(w) /\ w.finalized = {} /\ ~Collected(w)
         /\ w.batch = 0 /\ w.phase = "uncertain"
<1>1. /\ w \in RunState /\ w.batch = m.batch /\ w.outcomes = m.outcomes /\ w.phase = "uncertain"
      /\ w.finalized = m.finalized /\ w.input = m.input
  BY DEF RunState, RunPhase
<1>2. /\ m.batch = 0 /\ m.input # 0 /\ ~Collected(m) /\ Sound(m) /\ manifest[r] # {}
  BY DEF CopyFits, Later, Preparing, Unsettled, Working, Place
<1>3. w.finalized = {} /\ ~Collected(w) /\ Sound(w)
  BY <1>1, <1>2 DEF Sound, Collected
<1> QED BY <1>1, <1>2, <1>3 DEF DirFits, Submitted

(* The submission raises, and the provider may have accepted it all the same. *)
LEMMA CreateFailsKeeps ==
  ASSUME Inv, NEW j \in Job, CreateFails(j)
  PROVE  Inv'
<1> DEFINE r == run[j]
           s == Verdict(j, "failed")
<1>0. PICK m : m = mem[j]
  OBVIOUS
<1>w. PICK w : w = [m EXCEPT !.phase = "uncertain"]
  OBVIOUS
<1>1. pc[j] = "create" /\ pc[j] \in Working
  BY DEF CreateFails, Working, Place
<1>2. /\ r \in Run /\ m \in RunState /\ manifest[r] \subseteq Request /\ CopyFits(r, m, "create")
      /\ r \notin shared => Single(r, disk[r]) /\ Owns(r, disk[r], m, "create")
  BY <1>0, <1>1, Own
<1>3. /\ UNCHANGED <<manifest, pruned, record, files, created, run, targets, token, envVars>>
      /\ End(j, s) /\ disk' = [disk EXCEPT ![r] = w]
      /\ Accept(j) \/ UNCHANGED batches
  BY <1>0, <1>w DEF CreateFails, Elsewhere
<1>4. w \in RunState /\ DirFits(r, w) /\ Submitted(w) /\ w.finalized = {} /\ ~Collected(w)
      /\ w.batch = 0 /\ w.phase = "uncertain"
  BY <1>2, <1>w, UncertainFits
<1>5. s \in JobEnd
  BY DEF Verdict, JobEnd
<1>6. manifest[r] # {} /\ m.input \in File
  BY <1>2 DEF CopyFits, Later, Preparing, Working, Place, RunState
<1>7. CASE UNCHANGED batches
  <2>1. r \notin shared => Single(r, w)
    BY <1>2, <1>4 DEF Single
  <2>2. pruned' \subseteq Run /\ files' \subseteq File /\ created' \in 0..MaxFiles
    BY <1>3 DEF Inv, TypeOK
  <2> HIDE DEF s
  <2> QED BY <1>1, <1>3, <1>4, <1>5, <1>7, <2>1, <2>2, EndKeeps
<1>8. CASE Accept(j)
  <2>1. /\ batches' \in Seq(Batch) /\ Len(batches') = Len(batches) + 1
        /\ Len(batches) \in Nat /\ Len(batches') <= MaxBatches
        /\ \A t \in Run \ {r} : BatchesOf(t)' = BatchesOf(t)
        /\ BatchesOf(r)' = BatchesOf(r) \cup {Len(batches) + 1}
    BY <1>0, <1>2, <1>3, <1>6, <1>8, Accepted
  <2>2. Writes(j, w, NewState, "done", s)
    BY <1>3 DEF Writes, End, envVars
  <2>3. Adds(j)
    BY <1>3, <2>1 DEF Adds
  <2>4. UNCHANGED <<run, manifest, record, shared, erased, targets>>
    BY <1>3 DEF envVars
  <2>5. DirFits(r, w)'
    BY <1>4, <1>6, <2>1, <2>4, BoundsNat DEF DirFits, Sound, Collected
  <2>6. CopyFits(r, NewState, "done")'
    BY <2>1, <2>4 DEF CopyFits, Sound, Collected, NewState, Working, Later, Preparing, Awaiting,
                      Unsettled
  <2>7. r \notin shared => Single(r, w)' /\ Owns(r, w, NewState, "done")'
    <3>1. r \notin shared => BatchesOf(r) = {} \/ r \in erased
      BY <1>2 DEF Owns, Preparing
    <3>2. r \notin shared => Single(r, w)'
      BY <1>4, <2>1, <2>4, <3>1 DEF Single, Submitted
    <3> QED BY <3>2 DEF Owns, OnRecord, Working, Later, Preparing
  <2>8. WellWritten(j, w, NewState, "done")'
    BY <2>4, <2>5, <2>6, <2>7 DEF WellWritten
  <2>9. TypeOK'
    <3>1. RestOK'
      BY <1>3 DEF RestOK, End, Inv, TypeOK
    <3>2. TypeOK
      BY DEF Inv
    <3>3. manifest' \in [Run -> SUBSET Request] /\ record' \in [Request -> Run \cup {NoRun}]
      BY <1>3, <3>2 DEF TypeOK
    <3> HIDE DEF s
    <3> QED BY <1>2, <1>4, <1>5, <2>1, <2>2, <3>1, <3>2, <3>3, NewStateTyped, WritesTyped DEF Place
  <2>10. "done" \notin Working
    BY DEF Working
  <2> HIDE DEF s
  <2> QED BY <1>1, <1>4, <1>5, <2>2, <2>3, <2>8, <2>9, <2>10, NewStateTyped, OthersKeep
<1> QED BY <1>3, <1>7, <1>8

(* The one Batch of the input file is the run's; anything else is uncertain. *)
LEMMA ReconcileKeeps ==
  ASSUME Inv, NEW j \in Job, Reconcile(j)
  PROVE  Inv'
<1> DEFINE r == run[j]
           matches == {b \in DOMAIN batches : batches[b].input = mem[j].input}
           s == Verdict(j, "failed")
<1>0. PICK m : m = mem[j]
  OBVIOUS
<1>w. PICK w : w = [m EXCEPT !.phase = "uncertain"]
  OBVIOUS
<1>1. pc[j] = "reconcile" /\ pc[j] \in Working
  BY DEF Reconcile, Working, Place
<1>2. /\ r \in Run /\ m \in RunState /\ CopyFits(r, m, "reconcile")
      /\ r \notin shared => Single(r, disk[r])
  BY <1>0, <1>1, Own
<1>3. UNCHANGED <<manifest, pruned, record, batches, files, created, run, targets, token, envVars>>
  BY DEF Reconcile, Elsewhere, remVars
<1>4. CASE /\ Cardinality(matches) = 1
           /\ Goto(j, [m EXCEPT !.batch = CHOOSE b \in matches : TRUE], "poll")
           /\ UNCHANGED <<state, sent, paper, todo>>
  <2>1. PICK b : b = CHOOSE c \in matches : TRUE
    OBVIOUS
  <2>2. matches # {}
    <3> HIDE DEF matches
    <3>1. Cardinality(matches) # Cardinality({})
      BY <1>4, FS_EmptySet
    <3> QED BY <3>1
  <2>3. b \in DOMAIN batches
    <3>1. b \in matches
      <4> HIDE DEF matches
      <4> QED BY <2>1, <2>2
    <3> QED BY <3>1
  <2>4. b \in 1..MaxBatches /\ b <= Len(batches)
    BY <2>3, BoundsNat DEF Inv, TypeOK
  <2>5. PICK n : n = [m EXCEPT !.batch = b]
    OBVIOUS
  <2>6. /\ n \in RunState /\ n.batch = b /\ n.outcomes = m.outcomes /\ n.phase = m.phase
        /\ n.finalized = m.finalized
    BY <1>2, <2>4, <2>5 DEF RunState
  <2>7. Goto(j, n, "poll")
    BY <1>4, <2>1, <2>5
  <2>8. manifest[r] # {} /\ m.phase # "completed" /\ ~Collected(m) /\ Sound(m)
    BY <1>2 DEF CopyFits, Later, Unsettled, Working, Place
  <2>9. CopyFits(r, n, "poll")
    BY <2>4, <2>6, <2>8
       DEF CopyFits, Sound, Collected, Later, Preparing, Awaiting, Unsettled, Working, Place
  <2>10. r \notin shared => Single(r, n)
    BY <1>2, <2>4, <2>6 DEF Single, Submitted
  <2>11. RestOK' /\ "poll" \in Later /\ "poll" \notin Preparing
    BY <1>3, <1>4 DEF RestOK, Inv, TypeOK, Later, Working, Place, Preparing
  <2> QED BY <1>1, <1>3, <1>4, <2>4, <2>6, <2>7, <2>9, <2>10, <2>11, StaysRunning, GotoKeeps
<1>5. CASE disk' = [disk EXCEPT ![r] = w] /\ End(j, s)
  <2>1. w \in RunState /\ DirFits(r, w) /\ Submitted(w)
    BY <1>2, <1>w, UncertainFits
  <2>2. r \notin shared => Single(r, w)
    BY <1>2, <2>1 DEF Single
  <2>3. pruned' \subseteq Run /\ files' \subseteq File /\ created' \in 0..MaxFiles
    BY <1>3 DEF Inv, TypeOK
  <2>4. s \in JobEnd
    BY DEF Verdict, JobEnd
  <2> HIDE DEF s
  <2> QED BY <1>1, <1>3, <1>5, <2>1, <2>2, <2>3, <2>4, EndKeeps
<1> QED BY <1>0, <1>w, <1>4, <1>5 DEF Reconcile

(* The head of the polling loop writes nothing. *)
LEMMA PollKeeps ==
  ASSUME Inv, NEW j \in Job, Poll(j)
  PROVE  Inv'
<1> DEFINE r == run[j]
<1>0. PICK m, d : m = mem[j] /\ d = disk[r]
  OBVIOUS
<1>1. pc[j] = "poll" /\ pc[j] \in Working
  BY DEF Poll, Working, Place
<1>2. /\ r \in Run /\ m \in RunState /\ d \in RunState /\ CopyFits(r, m, "poll") /\ DirFits(r, d)
      /\ r \notin shared => Single(r, d) /\ Owns(r, d, m, "poll")
  BY <1>0, <1>1, Own
<1>3. /\ UNCHANGED <<manifest, disk, pruned, record, batches, files, created, run, targets, token, envVars>>
      /\ pruned' \subseteq Run /\ files' \subseteq File /\ created' \in 0..MaxFiles
  BY DEF Poll, Elsewhere, remVars, dirVars, Inv, TypeOK
<1>4. disk' = [disk EXCEPT ![r] = d]
  BY <1>0, <1>2, <1>3, DiskSame DEF Inv
<1>5. CASE End(j, "cancelled")
  BY <1>1, <1>2, <1>3, <1>4, <1>5, EndKeeps DEF JobEnd
<1>6. CASE /\ pc' = [pc EXCEPT ![j] = "retrieve"]
           /\ sent' = [sent EXCEPT ![j] = token[j] = "user"]
           /\ UNCHANGED <<state, mem, paper, todo>>
  <2>1. mem' = [mem EXCEPT ![j] = m]
    BY <1>0, <1>6 DEF Inv, TypeOK
  <2>2. Writes(j, d, m, "retrieve", "running")
    BY <1>1, <1>3, <1>4, <1>6, <2>1, StaysRunning DEF Writes, envVars
  <2>3. CopyFits(r, m, "retrieve")
    BY <1>2 DEF CopyFits, Later, Preparing, Awaiting, Unsettled, Working, Place
  <2>4. r \notin shared => Single(r, d) /\ Owns(r, d, m, "retrieve")
    BY <1>2 DEF Owns, OnRecord, Later, Preparing, Working, Place
  <2>5. WellWritten(j, d, m, "retrieve")
    BY <1>2, <2>3, <2>4 DEF WellWritten
  <2>6. RestOK'
    <3>1. (token[j] = "user") \in BOOLEAN
      OBVIOUS
    <3>2. sent' \in [Job -> BOOLEAN]
      BY <1>6, <3>1, Zenon DEF Inv, TypeOK
    <3> QED BY <1>3, <1>6, <3>2 DEF RestOK, Inv, TypeOK
  <2>7. "retrieve" \in Working
    BY DEF Working, Place
  <2> QED BY <1>1, <1>2, <1>3, <2>2, <2>5, <2>6, <2>7, PlainKeeps
<1> QED BY <1>5, <1>6 DEF Poll

(* What the provider says of the Batch is written. *)
LEMMA RetrieveKeeps ==
  ASSUME Inv, NEW j \in Job, Retrieve(j)
  PROVE  Inv'
<1> DEFINE r == run[j]
<1>0. PICK m : m = mem[j]
  OBVIOUS
<1>1. pc[j] = "retrieve" /\ pc[j] \in Working
  BY DEF Retrieve, Working, Place
<1>2. /\ r \in Run /\ m \in RunState /\ CopyFits(r, m, "retrieve")
      /\ r \notin shared => Single(r, disk[r])
  BY <1>0, <1>1, Own
<1>3. UNCHANGED <<manifest, pruned, record, batches, files, created, state, sent, paper, todo, run, targets,
                  token, envVars>>
  BY DEF Retrieve, Elsewhere, remVars
<1> DEFINE Into(x) == [m EXCEPT !.phase = x]
<1>w. PICK x \in {m.phase, "collecting", "in_progress"}, place \in {"poll", "collect"} :
        Goto(j, Into(x), place)
  <2>1. m = [m EXCEPT !.phase = m.phase]
    BY <1>2 DEF RunState
  <2>2. \/ Goto(j, Into(m.phase), "poll")
        \/ Goto(j, Into("collecting"), "collect")
        \/ Goto(j, Into("in_progress"), "poll")
    BY <1>0, <2>1 DEF Retrieve
  <2> HIDE DEF Into
  <2> QED BY <2>2
<1>4. PICK n : n = [m EXCEPT !.phase = x] /\ Goto(j, n, place)
  BY <1>w
<1>5. /\ n \in RunState /\ n.batch = m.batch /\ n.outcomes = m.outcomes /\ n.phase = x
      /\ n.finalized = m.finalized
  BY <1>2, <1>4 DEF RunState, RunPhase
<1>6. /\ manifest[r] # {} /\ m.phase # "completed" /\ ~Collected(m) /\ Sound(m) /\ m.batch # 0
  BY <1>2 DEF CopyFits, Later, Awaiting, Unsettled, Working, Place
<1>7. CopyFits(r, n, place)
  BY <1>4, <1>5, <1>6
     DEF CopyFits, Sound, Collected, Later, Preparing, Awaiting, Unsettled, Working, Place
<1>8. r \notin shared => Single(r, n)
  BY <1>2, <1>5, <1>6 DEF Single, Submitted
<1>9. RestOK' /\ place \in Later /\ place \notin Preparing \cup {"create", "accepted", "wake", "cleanup", "abandon"}
  BY <1>3 DEF RestOK, Inv, TypeOK, Later, Working, Place, Preparing
<1>10. n.batch # 0
  BY <1>5, <1>6
<1> QED BY <1>1, <1>3, <1>4, <1>5, <1>7, <1>8, <1>9, <1>10, StaysRunning, GotoKeeps DEF OnRecord

(* The results of the Batch become outcomes. *)
LEMMA CollectKeeps ==
  ASSUME Inv, NEW j \in Job, Collect(j)
  PROVE  Inv'
<1> DEFINE r == run[j]
<1>0. PICK m : m = mem[j]
  OBVIOUS
<1>1. pc[j] = "collect" /\ pc[j] \in Working
  BY DEF Collect, Working, Place
<1>2. /\ r \in Run /\ m \in RunState /\ CopyFits(r, m, "collect") /\ manifest[r] \subseteq Request
      /\ r \notin shared => Single(r, disk[r])
  BY <1>0, <1>1, Own
<1>3. UNCHANGED <<manifest, pruned, record, batches, files, created, run, targets, token, envVars>>
      /\ UNCHANGED remVars
  BY DEF Collect, Elsewhere, remVars
<1>4. manifest[r] # {} /\ m.phase # "completed" /\ ~Collected(m) /\ Sound(m) /\ m.batch # 0
  BY <1>2 DEF CopyFits, Later, Awaiting, Unsettled, Working, Place
<1>5. PICK b : b = batches[m.batch]
  OBVIOUS
<1>6. b.output \in File \cup {0}
  <2>1. m.batch \in 1..Len(batches)
    BY <1>2, <1>4, BoundsNat DEF Sound, RunState, Inv, TypeOK
  <2>2. b \in Batch
    BY <1>5, <2>1 DEF Inv, TypeOK
  <2> QED BY <2>2 DEF Batch
<1>7. PICK o : o = [q \in Request |-> IF q \notin manifest[r] THEN "none"
                                      ELSE IF q \in b.ok THEN "ok" ELSE "failed"]
  OBVIOUS
<1>8. PICK n : n = [m EXCEPT !.outcomes = o, !.cleanup = m.cleanup \cup ({b.output} \ {0})]
  OBVIOUS
<1>9. /\ n \in RunState /\ n.batch = m.batch /\ n.outcomes = o /\ n.phase = m.phase
      /\ n.finalized = m.finalized
  <2>1. o \in [Request -> {"none", "ok", "failed"}]
    BY <1>7
  <2>2. m.cleanup \cup ({b.output} \ {0}) \in SUBSET File
    BY <1>2, <1>6 DEF RunState
  <2> QED BY <1>2, <1>8, <2>1, <2>2 DEF RunState
<1>10. Collected(n) /\ Sound(n)
  <2>1. Collected(n)
    BY <1>2, <1>4, <1>7, <1>9 DEF Collected
  <2>2. n.finalized = {}
    BY <1>4, <1>9 DEF Sound
  <2> QED BY <1>4, <1>9, <2>1, <2>2 DEF Sound
<1>11. \/ End(j, "cancelled") /\ disk' = [disk EXCEPT ![r] = n]
       \/ CleanUp(j, n, "abandon") /\ UNCHANGED <<state, sent>>
       \/ Install(j, n) /\ UNCHANGED <<state, sent>>
  <2>1. n = [mem[j] EXCEPT
               !.outcomes = [q \in Request |-> IF q \notin manifest[run[j]] THEN "none"
                                               ELSE IF q \in batches[mem[j].batch].ok THEN "ok"
                                               ELSE "failed"],
               !.cleanup = @ \cup ({batches[mem[j].batch].output} \ {0})]
    BY <1>0, <1>5, <1>7, <1>8
  <2> QED BY <2>1 DEF Collect
<1>12. CASE End(j, "cancelled") /\ disk' = [disk EXCEPT ![r] = n]
  <2>1. DirFits(r, n)
    BY <1>4, <1>9, <1>10 DEF DirFits
  <2>2. r \notin shared => Single(r, n)
    BY <1>2, <1>4, <1>9 DEF Single, Submitted
  <2>3. pruned' \subseteq Run /\ files' \subseteq File /\ created' \in 0..MaxFiles
    BY <1>3 DEF Inv, TypeOK
  <2> QED BY <1>1, <1>3, <1>9, <1>12, <2>1, <2>2, <2>3, EndKeeps DEF JobEnd
<1>13. CASE CleanUp(j, n, "abandon") /\ UNCHANGED <<state, sent>>
  <2>1. r \notin shared => n.batch # 0 /\ Single(r, n)
    BY <1>2, <1>4, <1>9 DEF Single, Submitted
  <2>2. state' = [state EXCEPT ![j] = "running"]
    BY <1>1, <1>13, StaysRunning
  <2> QED BY <1>1, <1>3, <1>4, <1>9, <1>10, <1>13, <2>1, <2>2, CleanUpKeeps
<1>14. CASE Install(j, n) /\ UNCHANGED <<state, sent>>
  <2>1. PICK p, w :
          /\ p \in ToFinalize(r, n)
          /\ w = [n EXCEPT !.phase = "installing"] /\ Goto(j, w, "child")
          /\ paper' = [paper EXCEPT ![j] = p] /\ UNCHANGED todo
    BY <1>14 DEF Install
  <2>2. w \in RunState /\ CopyFits(r, w, "child") /\ w.batch # 0 /\ "child" \notin Preparing
    BY <1>2, <1>4, <1>9, <1>10, <2>1, InstallFits
  <2>3. r \notin shared => Single(r, w)
    BY <1>2, <2>2 DEF Single, Submitted
  <2>4. p \in Paper
    BY <1>2, <2>1, PapersOfRequests DEF ToFinalize
  <2>5. RestOK' /\ "child" \in Later
    BY <1>3, <1>14, <2>1, <2>4 DEF RestOK, Inv, TypeOK, Later, Working, Place
  <2> QED BY <1>1, <1>3, <1>14, <2>1, <2>2, <2>3, <2>5, StaysRunning, GotoKeeps
<1> QED BY <1>11, <1>12, <1>13, <1>14

(* Outputs are recorded, and the run's state does not tell yet. *)
LEMMA FinalizeKeeps ==
  ASSUME Inv, NEW j \in Job, Finalize(j)
  PROVE  Inv'
<1> DEFINE r == run[j]
           S == {q \in manifest[run[j]] \ mem[j].finalized : PaperOf[q] = paper[j]}
<1>0. PICK m, d : m = mem[j] /\ d = disk[r]
  OBVIOUS
<1>1. pc[j] = "child" /\ pc[j] \in Working
  BY DEF Finalize, Working, Place
<1>2. /\ r \in Run /\ m \in RunState /\ d \in RunState /\ CopyFits(r, m, "child") /\ DirFits(r, d)
      /\ r \notin shared => Single(r, d) /\ Owns(r, d, m, "child")
      /\ manifest[r] \subseteq Request
  BY <1>0, <1>1, Own
<1>3. UNCHANGED <<manifest, disk, pruned, batches, files, created, state, sent, paper, todo, run, targets,
                  token, envVars>>
  BY DEF Finalize, Elsewhere, dirVars, remVars
<1>4. PICK deal \in [S -> {"failed", "stale", "skipped", "installed", "local"}] :
        /\ \A q \in S : deal[q] \in Dealings(j, q)
        /\ mem' = [mem EXCEPT
             ![j].finalized = @ \cup {q \in S : Settles(deal[q])},
             ![j].outcomes = [q \in Request |->
                IF q \in S /\ deal[q] = "stale" THEN "failed" ELSE @[q]]]
        /\ record' = [q \in Request |-> IF q \in S /\ deal[q] = "installed" THEN run[j] ELSE record[q]]
  BY Zenon DEF Finalize
<1>5. PICK f, o : /\ f = m.finalized \cup {q \in S : Settles(deal[q])}
                  /\ o = [q \in Request |-> IF q \in S /\ deal[q] = "stale" THEN "failed"
                                            ELSE m.outcomes[q]]
  OBVIOUS
<1>6. PICK n : n = [m EXCEPT !.finalized = f, !.outcomes = o]
  OBVIOUS
<1>7. Sound(m) /\ Collected(m) /\ manifest[r] # {} /\ m.phase # "completed"
  BY <1>2 DEF CopyFits, Later, Working, Place
<1>8. /\ n \in RunState /\ n.batch = m.batch /\ n.phase = m.phase /\ n.input = m.input
      /\ n.uploads = m.uploads /\ m.finalized \subseteq n.finalized
      /\ \A q \in Request : m.outcomes[q] # "none" => n.outcomes[q] # "none"
      /\ Sound(n)' /\ Collected(n)
      /\ record' \in [Request -> Run \cup {NoRun}]
      /\ \A q \in Request : record[q] # NoRun => record'[q] # NoRun
  <2>1. S \in SUBSET (Request \ m.finalized)
    BY <1>0, <1>2
  <2>2. m = mem[j]
    BY <1>0
  <2> HIDE DEF S
  <2>3. f \subseteq Request /\ o \in [Request -> {"none", "ok", "failed"}]
    BY <1>2, <1>5, <2>1 DEF RunState
  <2>4. /\ n \in RunState /\ n.batch = m.batch /\ n.phase = m.phase /\ n.input = m.input
        /\ n.uploads = m.uploads /\ n.finalized = f /\ n.outcomes = o
    BY <1>2, <1>6, <2>3 DEF RunState
  <2>5. \A q \in Request : m.outcomes[q] # "none" => o[q] # "none"
    BY <1>5
  <2>6. Collected(n)
    BY <1>7, <2>4, <2>5 DEF Collected
  <2>7. record' \in [Request -> Run \cup {NoRun}]
    BY <1>2, <1>4 DEF Inv, TypeOK
  <2>8. \A q \in Request : record[q] # NoRun => record'[q] # NoRun
    BY <1>2, <1>4, NoneIsNone
  <2>9. ASSUME NEW q \in f, o[q] = "ok"
        PROVE  record'[q] # NoRun
    <3>1. CASE q \in m.finalized
      <4>1. q \notin S /\ q \in Request
        BY <1>2, <2>1, <3>1 DEF RunState
      <4>2. o[q] = m.outcomes[q]
        BY <1>5, <4>1
      <4> QED BY <1>7, <2>8, <2>9, <3>1, <4>1, <4>2 DEF Sound
    <3>2. CASE q \in S
      <4>1. o[q] = (IF deal[q] = "stale" THEN "failed" ELSE m.outcomes[q])
        BY <1>5, <2>1, <3>2
      <4>2. deal[q] \in Dealings(j, q) /\ m.outcomes[q] = "ok" /\ deal[q] # "stale" /\ deal[q] # "local"
        <5>1. q \notin m.finalized /\ Settles(deal[q])
          BY <1>5, <2>1, <2>9, <3>2
        <5> QED BY <1>4, <2>9, <3>2, <4>1, <5>1 DEF Settles
      <4>3. deal[q] = "installed" \/ (deal[q] = "skipped" /\ record[q] # NoRun)
        <5>1. mem[j].outcomes[q] # "failed"
          BY <2>2, <4>2
        <5>2. CASE deal[q] = "skipped"
          BY <4>2, <5>1, <5>2 DEF Dealings
        <5>3. CASE deal[q] # "skipped"
          <6>1. Dealings(j, q) \subseteq {"stale", "skipped", "installed", "local"}
            BY <5>1 DEF Dealings
          <6>2. deal[q] \in {"stale", "skipped", "installed", "local"}
            BY <4>2, <6>1
          <6>3. deal[q] = "installed"
            BY <4>2, <5>3, <6>2
          <6> QED BY <6>3
        <5> QED BY <5>2, <5>3
      <4> QED BY <1>2, <1>4, <2>1, <3>2, <4>3, <2>8, NoneIsNone
    <3> QED BY <1>5, <2>9, <3>1, <3>2
  <2>10. Sound(n)'
    BY <1>3, <1>7, <2>4, <2>6, <2>9 DEF Sound, Collected
  <2> QED BY <1>5, <2>4, <2>5, <2>6, <2>7, <2>8, <2>10
<1> HIDE DEF S
<1>9. mem' = [mem EXCEPT ![j] = n]
  BY <1>0, <1>4, <1>5, <1>6
<1>10. Writes(j, d, n, "recorded", "running")
  <2>1. disk' = [disk EXCEPT ![r] = d]
    BY <1>0, <1>2, <1>3, DiskSame DEF Inv
  <2> QED BY <1>1, <1>3, <1>9, <2>1, StaysRunning DEF Writes, envVars, Finalize
<1>11. Adds(j)
  BY <1>3, <1>8 DEF Adds, BatchesOf, Inv, TypeOK
<1>12. WellWritten(j, d, n, "recorded")'
  <2>1. UNCHANGED <<run, manifest, shared, erased, targets, batches>>
    BY <1>3 DEF envVars
  <2>2. DirFits(r, d)'
    <3>1. d.finalized \subseteq Request
      BY <1>2 DEF RunState
    <3> QED BY <1>2, <1>7, <1>8, <2>1, <3>1 DEF DirFits, Sound, Collected, InstalledIn
  <2>3. CopyFits(r, n, "recorded")'
    BY <1>7, <1>8, <2>1
       DEF CopyFits, Collected, Later, Preparing, Awaiting, Unsettled, Working, Place
  <2>4. r \notin shared => Single(r, d)' /\ Owns(r, d, n, "recorded")'
    <3>1. r \notin shared => Single(r, d) /\ Keeps(r, d, m) /\ d.batch # 0 /\ n.batch # 0
      BY <1>2, <1>8 DEF Owns, OnRecord, Later, Working, Place
    <3>2. r \notin shared => Keeps(r, d, n)'
      BY <1>2, <1>8, <2>1, <3>1 DEF Keeps
    <3>3. r \notin shared => Single(r, d)'
      BY <2>1, <3>1 DEF Single, BatchesOf, Submitted
    <3> QED BY <3>1, <3>2, <3>3 DEF Owns, OnRecord, Preparing
  <2> QED BY <2>1, <2>2, <2>3, <2>4 DEF WellWritten
<1>13. TypeOK'
  <2>1. RestOK'
    BY <1>3 DEF RestOK, Inv, TypeOK
  <2>2. TypeOK
    BY DEF Inv
  <2>3. /\ manifest' \in [Run -> SUBSET Request]
        /\ batches' \in Seq(Batch) /\ Len(batches') <= MaxBatches
    BY <1>3, <2>2 DEF TypeOK
  <2> QED BY <1>2, <1>8, <1>10, <2>1, <2>2, <2>3, WritesTyped DEF Place
<1>14. "recorded" \in Working
  BY DEF Working, Place
<1> QED BY <1>1, <1>2, <1>8, <1>10, <1>11, <1>12, <1>13, <1>14, OthersKeep

(* What the paper job did becomes durable. *)
LEMMA FinalizedKeeps ==
  ASSUME Inv, NEW j \in Job, Finalized(j)
  PROVE  Inv'
<1> DEFINE r == run[j]
           m == mem[j]
<1>1. pc[j] = "recorded" /\ pc[j] \in Working
  BY DEF Finalized, Working, Place
<1>2. /\ r \in Run /\ m \in RunState /\ CopyFits(r, m, "recorded")
      /\ r \notin shared => Single(r, disk[r])
  BY <1>1, Own
<1>3. UNCHANGED <<manifest, pruned, record, batches, files, created, state, sent, paper, todo, run, targets,
                  token, envVars>>
  BY DEF Finalized, Elsewhere, remVars
<1>4. PICK place \in {"broken", "wake"} : Goto(j, m, place)
  BY DEF Finalized
<1>5. m.batch # 0
  BY <1>2 DEF CopyFits, Sound
<1>6. CopyFits(r, m, place)
  BY <1>2, <1>4 DEF CopyFits, Later, Preparing, Awaiting, Unsettled, Working, Place
<1>7. r \notin shared => Single(r, m)
  BY <1>2, <1>5 DEF Single, Submitted
<1>8. RestOK' /\ place \in Later /\ place \notin Preparing \cup {"create", "accepted"}
  BY <1>3, <1>4 DEF RestOK, Inv, TypeOK, Later, Working, Place, Preparing
<1> HIDE DEF m
<1> QED BY <1>1, <1>2, <1>3, <1>4, <1>5, <1>6, <1>7, <1>8, StaysRunning, GotoKeeps

(* The next paper, or the end of the loop. *)
LEMMA WakeKeeps ==
  ASSUME Inv, NEW j \in Job, Wake(j)
  PROVE  Inv'
<1> DEFINE r == run[j]
           left == ToFinalize(run[j], mem[j]) \ {paper[j]}
<1>0. PICK m, d : m = mem[j] /\ d = disk[r]
  OBVIOUS
<1>1. pc[j] = "wake" /\ pc[j] \in Working
  BY DEF Wake, Working, Place
<1>2. /\ r \in Run /\ m \in RunState /\ d \in RunState /\ CopyFits(r, m, "wake") /\ DirFits(r, d)
      /\ r \notin shared => Single(r, d) /\ Owns(r, d, m, "wake")
      /\ manifest[r] \subseteq Request
  BY <1>0, <1>1, Own
<1>3. UNCHANGED <<manifest, pruned, record, batches, files, created, state, sent, run, targets, token,
                  envVars>>
      /\ UNCHANGED remVars
  BY DEF Wake, Elsewhere, remVars
<1>4. manifest[r] # {} /\ m.phase # "completed"
  BY <1>2 DEF CopyFits, Later, Working, Place
<1>5. state' = [state EXCEPT ![j] = "running"]
  BY <1>1, <1>3, StaysRunning
<1>6. \/ /\ \E p \in left : paper' = [paper EXCEPT ![j] = p]
         /\ pc' = [pc EXCEPT ![j] = "child"]
         /\ UNCHANGED <<disk, mem, todo>>
      \/ CleanUp(j, d, IF token[j] = "user" THEN "abandon" ELSE "cleanup")
  BY <1>0 DEF Wake
<1>7. CASE /\ \E p \in left : paper' = [paper EXCEPT ![j] = p]
           /\ pc' = [pc EXCEPT ![j] = "child"]
           /\ UNCHANGED <<disk, mem, todo>>
  <2>1. Writes(j, d, m, "child", "running")
    <3>1. disk' = [disk EXCEPT ![r] = d]
      BY <1>0, <1>2, <1>7, DiskSame DEF Inv
    <3>2. mem' = [mem EXCEPT ![j] = m]
      BY <1>0, <1>7 DEF Inv, TypeOK
    <3> QED BY <1>3, <1>5, <1>7, <3>1, <3>2 DEF Writes, envVars
  <2>2. CopyFits(r, m, "child")
    BY <1>2 DEF CopyFits, Later, Preparing, Awaiting, Unsettled, Working, Place
  <2>3. r \notin shared => Single(r, d) /\ Owns(r, d, m, "child")
    BY <1>2 DEF Owns, OnRecord, Later, Preparing, Working, Place
  <2>4. WellWritten(j, d, m, "child")
    BY <1>2, <2>2, <2>3 DEF WellWritten
  <2>5. RestOK'
    <3>1. PICK p \in left : paper' = [paper EXCEPT ![j] = p]
      BY <1>7
    <3>2. p \in Paper
      BY <1>2, <3>1, PapersOfRequests DEF ToFinalize
    <3> QED BY <1>3, <1>7, <3>1, <3>2 DEF RestOK, Inv, TypeOK
  <2>6. "child" \in Working
    BY DEF Working, Place
  <2> QED BY <1>1, <1>2, <1>3, <2>1, <2>4, <2>5, <2>6, PlainKeeps
<1>8. CASE CleanUp(j, d, IF token[j] = "user" THEN "abandon" ELSE "cleanup")
  <2>1. PICK place \in {"abandon", "cleanup"} : CleanUp(j, d, place)
    BY <1>8
  <2>2. r \notin shared => d.batch # 0 /\ Single(r, d)
    BY <1>2 DEF Owns, OnRecord
  <2>3. Sound(d)
    BY <1>2 DEF DirFits
  <2> QED BY <1>1, <1>2, <1>3, <1>4, <1>5, <2>1, <2>2, <2>3, CleanUpKeeps
<1> QED BY <1>6, <1>7, <1>8

(* A file is deleted, or its ID written back. *)
LEMMA DeleteKeeps ==
  ASSUME Inv, NEW j \in Job, Delete(j)
  PROVE  Inv'
<1> DEFINE r == run[j]
<1>0. PICK m : m = mem[j]
  OBVIOUS
<1>1. pc[j] \in {"cleanup", "abandon"} /\ pc[j] \in Working
  BY DEF Delete, Working, Place
<1>2. /\ r \in Run /\ m \in RunState /\ CopyFits(r, m, pc[j])
      /\ r \notin shared => Single(r, disk[r]) /\ Owns(r, disk[r], m, pc[j])
  BY <1>0, <1>1, Own
<1>3. UNCHANGED <<manifest, pruned, record, batches, created, state, sent, paper, run, targets, token,
                  envVars>>
  BY DEF Delete, Elsewhere
<1>4. PICK f \in todo[j] :
        /\ todo' = [todo EXCEPT ![j] = @ \ {f}]
        /\ \/ files' = files \ {f} /\ Goto(j, m, pc[j])
           \/ UNCHANGED files /\ Goto(j, [m EXCEPT !.cleanup = m.cleanup \cup {f}], pc[j])
  BY <1>0 DEF Delete, Postponed
<1>5. f \in File
  BY <1>4 DEF Inv, TypeOK
<1>6. PICK c, n : c \in SUBSET File /\ n = [m EXCEPT !.cleanup = c] /\ Goto(j, n, pc[j])
  <2>1. m = [m EXCEPT !.cleanup = m.cleanup] /\ m.cleanup \in SUBSET File
    BY <1>2 DEF RunState
  <2>2. m.cleanup \cup {f} \in SUBSET File
    BY <1>5, <2>1
  <2> DEFINE Left(c) == [m EXCEPT !.cleanup = c]
  <2>3. Goto(j, Left(m.cleanup), pc[j]) \/ Goto(j, Left(m.cleanup \cup {f}), pc[j])
    BY <1>4, <2>1
  <2>4. \E c \in SUBSET File : Goto(j, Left(c), pc[j])
    <3> HIDE DEF Left
    <3> QED BY <2>1, <2>2, <2>3
  <2> QED BY <2>4
<1>7. /\ n \in RunState /\ n.batch = m.batch /\ n.outcomes = m.outcomes /\ n.phase = m.phase
      /\ n.finalized = m.finalized
  BY <1>2, <1>6 DEF RunState
<1>8. CopyFits(r, n, pc[j])
  BY <1>1, <1>2, <1>7
     DEF CopyFits, Sound, Collected, Later, Preparing, Awaiting, Unsettled, Working, Place
<1>9. r \notin shared => Single(r, n) /\ n.batch # 0
  BY <1>1, <1>2, <1>7 DEF Single, Submitted, Owns, OnRecord
<1>10. RestOK' /\ pc[j] \in Later /\ pc[j] \notin Preparing \cup {"create", "accepted"}
  <2>1. files' \subseteq File
    BY <1>4 DEF Inv, TypeOK
  <2>2. todo' \in [Job -> SUBSET File]
    BY <1>4 DEF Inv, TypeOK
  <2> QED BY <1>1, <1>3, <2>1, <2>2 DEF RestOK, Inv, TypeOK, Later, Working, Place, Preparing
<1> QED BY <1>1, <1>3, <1>6, <1>7, <1>8, <1>9, <1>10, StaysRunning, GotoKeeps

(* A run that completes has installed everything. *)
LEMMA ConcludeKeeps ==
  ASSUME Inv, NEW j \in Job, Conclude(j)
  PROVE  Inv'
<1> DEFINE r == run[j]
<1>0. PICK d, x : d = disk[r] /\ x = Phase(r, pc[j])
  OBVIOUS
<1>m. PICK m : m = [d EXCEPT !.phase = x]
  OBVIOUS
<1>1. pc[j] \in {"cleanup", "abandon"} /\ pc[j] \in Working
  BY DEF Conclude, Working, Place
<1>2. /\ r \in Run /\ d \in RunState /\ DirFits(r, d) /\ CopyFits(r, mem[j], pc[j])
      /\ r \notin shared => Single(r, d) /\ Owns(r, d, mem[j], pc[j])
  BY <1>0, <1>1, Own
<1>3. x \in Finished /\ (x = "completed" => manifest[r] \subseteq InstalledIn(r, d))
  BY <1>0, <1>1 DEF Phase, Finished, Installed, InstalledIn
<1>4. /\ m \in RunState /\ m.phase = x /\ m.batch = d.batch /\ m.outcomes = d.outcomes
      /\ m.finalized = d.finalized
  BY <1>2, <1>3, <1>m DEF RunState, RunPhase
<1>5. manifest[r] # {}
  BY <1>1, <1>2 DEF CopyFits, Later, Working, Place
<1>6. DirFits(r, m)
  BY <1>2, <1>3, <1>4, <1>5 DEF DirFits, Sound, Collected, InstalledIn
<1>7. r \notin shared => Single(r, m)
  BY <1>1, <1>2, <1>4 DEF Single, Submitted, Owns, OnRecord
<1>8. PICK s \in JobEnd : End(j, s)
  <2>1. Verdict(j, "succeeded") \in JobEnd /\ Verdict(j, "failed") \in JobEnd /\ "partial" \in JobEnd
    BY DEF Verdict, JobEnd
  <2>2. \E y \in {"partial", Verdict(j, "succeeded"), Verdict(j, "failed")} : End(j, y)
    BY DEF Conclude
  <2> QED BY <2>1, <2>2
<1>9. disk' = [disk EXCEPT ![r] = m] /\ pruned' \subseteq Run
      /\ UNCHANGED <<manifest, record, batches, files, created, run, targets, token, envVars>>
  BY <1>0, <1>m, <1>2 DEF Conclude, Elsewhere, remVars, Inv, TypeOK
<1>10. files' \subseteq File /\ created' \in 0..MaxFiles
  BY <1>9 DEF Inv, TypeOK
<1> QED BY <1>1, <1>4, <1>6, <1>7, <1>8, <1>9, <1>10, EndKeeps

(* A call that raises ends the coordinator and leaves the directory. *)
LEMMA FailKeeps ==
  ASSUME Inv, NEW j \in Job, Fail(j)
  PROVE  Inv'
<1> DEFINE r == run[j]
           d == disk[r]
           s == Verdict(j, "failed")
<1>1. pc[j] \in Working
  BY DEF Fail, Raises, Working, Place
<1>2. pc[j] # "none"
  BY <1>1 DEF Working
<1>3. r \in Run /\ d \in RunState /\ DirFits(r, d) /\ (r \notin shared => Single(r, d))
  BY <1>2, Own
<1>4. /\ End(j, s) /\ UNCHANGED disk
      /\ UNCHANGED <<manifest, pruned, record, batches, files, created, run, targets, token, envVars>>
  BY DEF Fail, Throw, Elsewhere, remVars
<1>5. disk' = [disk EXCEPT ![r] = d]
  BY <1>3, <1>4, DiskSame DEF Inv
<1>6. s \in JobEnd
  BY DEF Verdict, JobEnd
<1>7. pruned' \subseteq Run /\ files' \subseteq File /\ created' \in 0..MaxFiles
  BY <1>4 DEF Inv, TypeOK
<1> HIDE DEF d, s
<1> QED BY <1>1, <1>3, <1>4, <1>5, <1>6, <1>7, EndKeeps

-----------------------------------------------------------------------------
(* The forced phase of shutdown *)

(* A coordinator that is cut leaves no copy behind either, and perhaps a Batch *)
(* that the provider accepts.                                                  *)
LEMMA CutOffKeeps ==
  ASSUME Inv, NEW j \in Job, pc[j] \in Working, NEW c \in RunState,
         disk' = [disk EXCEPT ![run[j]] = c], End(j, "cancelled"),
         UNCHANGED <<manifest, record, created, run, targets, token, closing, restarts, shared>>,
         erased' \in {erased, erased \cup {run[j]}},
         pruned' \subseteq Run, files' \subseteq File,
         batches' \in Seq(Batch), Len(batches) <= Len(batches'), Len(batches') <= MaxBatches,
         \A t \in Run \ {run[j]} : BatchesOf(t)' = BatchesOf(t),
         DirFits(run[j], c)', run[j] \notin shared => Single(run[j], c)'
  PROVE  Inv'
<1>1. run[j] \in Run
  BY DEF Inv, JobFits, Working
<1>2. Writes(j, c, NewState, "done", "cancelled")
  BY DEF Writes, End
<1>3. Adds(j)
  BY DEF Adds
<1>4. WellWritten(j, c, NewState, "done")'
  <2>1. CopyFits(run[j], NewState, "done")'
    BY DEF CopyFits, Sound, Collected, NewState, Working, Later, Preparing, Awaiting, Unsettled,
           Inv, TypeOK
  <2>2. Owns(run[j], c, NewState, "done")'
    BY DEF Owns, OnRecord, Working, Later, Preparing
  <2> QED BY <2>1, <2>2 DEF WellWritten
<1>5. TypeOK'
  <2>1. RestOK'
    BY DEF RestOK, End, Inv, TypeOK
  <2>2. TypeOK
    BY DEF Inv
  <2>3. manifest' \in [Run -> SUBSET Request] /\ record' \in [Request -> Run \cup {NoRun}]
    BY <2>2 DEF TypeOK
  <2> QED BY <1>1, <1>2, <2>1, <2>2, <2>3, NewStateTyped, WritesTyped DEF Place, JobEnd
<1>6. "done" \notin Working /\ "cancelled" \in JobEnd
  BY DEF Working, JobEnd
<1> QED BY <1>2, <1>3, <1>4, <1>5, <1>6, NewStateTyped, OthersKeep

(* Where a coordinator may be cut, and what it writes: its directory, with another phase    *)
(* perhaps; and it adds no Batch except in create_batch.                                     *)
LEMMA CutOff ==
  ASSUME Inv, NEW j \in Job, Cut(j), NEW d, d = disk[run[j]]
  PROVE  /\ pc[j] \in Working \ {"ready", "accepted", "recorded"}
         /\ UNCHANGED <<manifest, record, created, run, targets, token, closing, restarts, shared>>
         /\ End(j, "cancelled") /\ pruned' \subseteq Run /\ files' \subseteq File
         /\ erased' \in {erased, erased \cup {run[j]}}
         /\ \E x \in {d.phase, "cancelled", Phase(run[j], pc[j])} :
              /\ disk' = [disk EXCEPT ![run[j]] = [d EXCEPT !.phase = x]]
              /\ x \in {d.phase, "cancelled"} \/ pc[j] \in {"cleanup", "abandon"}
              /\ ~Marks(j) /\ pc[j] \notin {"cleanup", "abandon"} => x = d.phase
         /\ UNCHANGED batches \/ (pc[j] = "create" /\ Accept(j) /\ (Marks(j) => run[j] \in erased'))
         /\ pc[j] = "reconcile" /\ Marks(j) /\ BatchesOf(run[j]) # {} => run[j] \in erased'
<1>1. pc[j] \in Working \ {"ready", "accepted", "recorded"} /\ run[j] \in Run
  <2>1. pc[j] \in Working \ {"ready", "accepted", "recorded"}
    BY DEF Cut, CutWait, CutCreate, CutDelete, CutEnd, Working, Place
  <2> QED BY <2>1, Own DEF Working
<1>2. UNCHANGED <<manifest, record, created, run, targets, token, closing, restarts, shared>>
  BY DEF Cut
<1>3. d \in RunState /\ \A x : [[d EXCEPT !.phase = x] EXCEPT !.phase = "cancelled"]
                               = [d EXCEPT !.phase = "cancelled"]
  BY <1>1 DEF Inv, TypeOK, RunState
<1>4. d = [d EXCEPT !.phase = d.phase]
  BY <1>3 DEF RunState
<1>5. CASE CutWait(j)
  <2>1. Stop(j) /\ UNCHANGED <<pruned, batches, files>>
        /\ erased' = IF pc[j] = "reconcile" /\ Marks(j) /\ BatchesOf(run[j]) # {}
                       THEN erased \cup {run[j]} ELSE erased
    BY <1>5 DEF CutWait
  <2>2. End(j, "cancelled")
        /\ disk' = [disk EXCEPT ![run[j]] = IF Marks(j) THEN [d EXCEPT !.phase = "cancelled"] ELSE d]
    BY <2>1 DEF Stop, StopWith
  <2>3. pruned' \subseteq Run /\ files' \subseteq File
    BY <2>1 DEF Inv, TypeOK
  <2>4. CASE Marks(j)
    BY <1>1, <1>2, <2>1, <2>2, <2>3, <2>4
  <2>5. CASE ~Marks(j)
    BY <1>1, <1>2, <1>4, <2>1, <2>2, <2>3, <2>5
  <2> QED BY <2>4, <2>5
<1>6. CASE CutCreate(j)
  <2>1. /\ pc[j] = "create" /\ Stop(j) /\ UNCHANGED <<pruned, files>>
        /\ \/ Accept(j) /\ erased' = (IF Marks(j) THEN erased \cup {run[j]} ELSE erased)
           \/ UNCHANGED <<batches, erased>>
    BY <1>6 DEF CutCreate
  <2>2. End(j, "cancelled")
        /\ disk' = [disk EXCEPT ![run[j]] = IF Marks(j) THEN [d EXCEPT !.phase = "cancelled"] ELSE d]
    BY <2>1 DEF Stop, StopWith
  <2>3. pruned' \subseteq Run /\ files' \subseteq File
    BY <2>1 DEF Inv, TypeOK
  <2>4. CASE Marks(j)
    BY <1>1, <1>2, <2>1, <2>2, <2>3, <2>4
  <2>5. CASE ~Marks(j)
    BY <1>1, <1>2, <1>4, <2>1, <2>2, <2>3, <2>5
  <2> QED BY <2>4, <2>5
<1>7. CASE CutDelete(j)
  <2>1. /\ pc[j] \in {"cleanup", "abandon"} /\ Stop(j) /\ UNCHANGED <<pruned, batches, erased>>
        /\ files' \subseteq files
    BY <1>7 DEF CutDelete
  <2>2. End(j, "cancelled")
        /\ disk' = [disk EXCEPT ![run[j]] = IF Marks(j) THEN [d EXCEPT !.phase = "cancelled"] ELSE d]
    BY <2>1 DEF Stop, StopWith
  <2>3. pruned' \subseteq Run /\ files' \subseteq File
    BY <2>1 DEF Inv, TypeOK
  <2> QED BY <1>1, <1>2, <1>4, <2>1, <2>2, <2>3
<1>8. CASE CutEnd(j)
  <2>0. PICK x, m : x = Phase(run[j], pc[j]) /\ m = [d EXCEPT !.phase = x]
    OBVIOUS
  <2>1. /\ pc[j] \in {"cleanup", "abandon"} /\ StopWith(j, m) /\ UNCHANGED <<batches, files, erased>>
        /\ pruned' \subseteq pruned \cup {run[j]}
    BY <1>8, <2>0 DEF CutEnd
  <2>2. End(j, "cancelled")
        /\ disk' = [disk EXCEPT ![run[j]] = IF Marks(j) THEN [m EXCEPT !.phase = "cancelled"] ELSE m]
    BY <2>1 DEF StopWith
  <2>3. pruned' \subseteq Run /\ files' \subseteq File
    BY <1>1, <2>1 DEF Inv, TypeOK
  <2>4. [m EXCEPT !.phase = "cancelled"] = [d EXCEPT !.phase = "cancelled"]
    BY <1>3, <2>0
  <2> QED BY <1>1, <1>2, <2>0, <2>1, <2>2, <2>3, <2>4
<1> QED BY <1>5, <1>6, <1>7, <1>8 DEF Cut

(* What a cut leaves of a run fits: the Batch that its directory forgets is remembered as such. *)
LEMMA CutKeeps ==
  ASSUME Inv, NEW j \in Job, Cut(j)
  PROVE  Inv'
<1>0. PICK r, m, d : r = run[j] /\ m = mem[j] /\ d = disk[r]
  OBVIOUS
<1>1. /\ pc[j] \in Working \ {"ready", "accepted", "recorded"}
      /\ UNCHANGED <<manifest, record, created, run, targets, token, closing, restarts, shared>>
      /\ End(j, "cancelled") /\ pruned' \subseteq Run /\ files' \subseteq File
      /\ erased' \in {erased, erased \cup {r}}
      /\ UNCHANGED batches \/ (pc[j] = "create" /\ Accept(j) /\ (Marks(j) => r \in erased'))
      /\ pc[j] = "reconcile" /\ Marks(j) /\ BatchesOf(r) # {} => r \in erased'
  BY <1>0, CutOff
<1>2. PICK x : /\ x \in {d.phase, "cancelled", Phase(r, pc[j])}
               /\ disk' = [disk EXCEPT ![r] = [d EXCEPT !.phase = x]]
               /\ x \in {d.phase, "cancelled"} \/ pc[j] \in {"cleanup", "abandon"}
               /\ ~Marks(j) /\ pc[j] \notin {"cleanup", "abandon"} => x = d.phase
  BY <1>0, CutOff
<1>3. /\ r \in Run /\ m \in RunState /\ d \in RunState /\ manifest[r] \subseteq Request
      /\ DirFits(r, d) /\ CopyFits(r, m, pc[j])
      /\ r \notin shared => Single(r, d) /\ Owns(r, d, m, pc[j])
  <2>1. pc[j] # "none"
    BY <1>1 DEF Working
  <2> QED BY <1>0, <2>1, Own
<1>4. PICK c : c = [d EXCEPT !.phase = x] /\ disk' = [disk EXCEPT ![r] = c]
  BY <1>2
<1>5. /\ x = "completed" => manifest[r] = InstalledIn(r, d)
      /\ x = "completed" => manifest[r] # {}
      /\ x \in RunPhase
  <2>1. x \in {d.phase, "cancelled"} => x # "completed" \/ d.phase = "completed"
    OBVIOUS
  <2>2. CASE pc[j] \in {"cleanup", "abandon"} /\ x = Phase(r, pc[j])
    <3>1. manifest[r] # {}
      BY <1>3, <2>2 DEF CopyFits, Later, Working, Place
    <3>2. x \in Finished /\ (x = "completed" => manifest[r] \subseteq InstalledIn(r, d))
      BY <1>0, <2>2 DEF Phase, Finished, Installed, InstalledIn
    <3> QED BY <3>1, <3>2 DEF InstalledIn, RunPhase
  <2>3. CASE x \in {d.phase, "cancelled"}
    BY <1>3, <2>3 DEF DirFits, RunState, RunPhase, Finished
  <2> QED BY <1>2, <2>2, <2>3
<1>6. /\ c \in RunState /\ c.phase = x /\ c.batch = d.batch /\ c.outcomes = d.outcomes
      /\ c.finalized = d.finalized /\ c.input = d.input /\ (x = d.phase => c = d)
  BY <1>3, <1>4, <1>5 DEF RunState
<1>7. DirFits(r, c)
  BY <1>3, <1>5, <1>6 DEF DirFits, Sound, Collected, InstalledIn
<1>8. CASE UNCHANGED batches
  <2>1. /\ batches' \in Seq(Batch) /\ Len(batches) <= Len(batches') /\ Len(batches') <= MaxBatches
        /\ \A t \in Run : BatchesOf(t)' = BatchesOf(t)
    BY <1>1, <1>8, BoundsNat DEF Inv, TypeOK, BatchesOf
  <2>2. DirFits(r, c)'
    BY <1>1, <1>3, <1>7, <1>8, <2>1 DEF DirFits, Sound, Collected, InstalledIn
  <2>3. ASSUME r \notin shared, r \notin erased'
        PROVE  (\A a, b \in BatchesOf(r) : a = b) /\ (BatchesOf(r) # {} => Submitted(c))
    <3>1. Single(r, d) /\ Owns(r, d, m, pc[j]) /\ r \notin erased
      BY <1>1, <1>3, <2>3
    <3>2. CASE pc[j] \in OnRecord
      BY <1>6, <3>1, <3>2 DEF Single, Owns, Submitted
    <3>3. CASE x = d.phase
      BY <1>6, <3>1, <3>3 DEF Single
    <3>4. CASE pc[j] \notin OnRecord /\ x # d.phase
      <4>1. Marks(j) /\ pc[j] \in {"snapshot", "upload", "file", "reconcile", "create"}
        BY <1>1, <1>2, <3>4 DEF OnRecord, Working, Place
      <4>2. pc[j] = "snapshot" => manifest[r] = {}
        BY <1>0 DEF Inv, JobFits
      <4>3. BatchesOf(r) = {}
        BY <1>1, <1>3, <2>3, <3>1, <4>1, <4>2 DEF Owns, Preparing, DirFits
      <4> QED BY <4>3
    <3> QED BY <3>2, <3>3, <3>4
  <2>4. r \notin shared => Single(r, c)'
    BY <1>3, <2>1, <2>3 DEF Single, Submitted
  <2> QED BY <1>0, <1>1, <1>4, <1>6, <2>1, <2>2, <2>4, CutOffKeeps
<1>9. CASE pc[j] = "create" /\ Accept(j) /\ (Marks(j) => r \in erased')
  <2>1. m.input \in File /\ manifest[r] # {}
    BY <1>3, <1>9 DEF CopyFits, Later, Preparing, Working, Place, RunState
  <2>2. /\ batches' \in Seq(Batch) /\ Len(batches') = Len(batches) + 1
        /\ Len(batches) \in Nat /\ Len(batches') <= MaxBatches
        /\ \A t \in Run \ {r} : BatchesOf(t)' = BatchesOf(t)
        /\ BatchesOf(r)' = BatchesOf(r) \cup {Len(batches) + 1}
    BY <1>0, <1>1, <1>3, <1>9, <2>1, Accepted
  <2>3. DirFits(r, c)'
    <3>1. c.batch \in Nat
      BY <1>6, BoundsNat DEF RunState
    <3>2. Sound(c)'
      BY <1>1, <1>7, <2>2, <3>1 DEF DirFits, Sound, Collected
    <3> QED BY <1>1, <1>7, <2>1, <3>2 DEF DirFits, InstalledIn
  <2>4. r \notin shared => Single(r, c)'
    <3> SUFFICES ASSUME r \notin shared, r \notin erased'
                 PROVE  /\ \A a, b \in BatchesOf(r)' : a = b
                        /\ Submitted(c)
      BY DEF Single, Submitted
    <3>1. ~Marks(j) /\ r \notin erased
      BY <1>1, <1>9
    <3>2. c = d
      BY <1>2, <1>6, <1>9, <3>1
    <3>3. BatchesOf(r) = {} /\ Submitted(d)
      BY <1>3, <1>9, <3>1 DEF Owns, Preparing
    <3> QED BY <2>2, <3>2, <3>3
  <2>5. Len(batches) <= Len(batches')
    BY <2>2
  <2> QED BY <1>0, <1>1, <1>4, <1>6, <2>2, <2>3, <2>4, <2>5, CutOffKeeps
<1> QED BY <1>1, <1>8, <1>9

-----------------------------------------------------------------------------
(* Requests, the end of the process and the provider *)

(* A new coordinator is queued, of a fresh run or of one that has its manifest. *)
LEMMA EnqueueKeeps ==
  ASSUME Inv, NEW k \in Job, NEW r \in Run, NEW Q \in SUBSET Request, Enqueue(k, r, Q),
         NEW d \in RunState, disk' = [disk EXCEPT ![r] = d],
         d = disk[r] \/ (d = NewState /\ manifest[r] = {}),
         manifest[r] = {} => Q # {} /\ \A i \in Job : run[i] # r
  PROVE  Inv'
<1>1. /\ UNCHANGED <<manifest, pruned, record, batches, files, created, token, mem, sent, paper, todo,
                     closing, restarts, erased>>
      /\ state' = [state EXCEPT ![k] = "queued"] /\ pc' = [pc EXCEPT ![k] = "queued"]
      /\ run' = [run EXCEPT ![k] = r] /\ targets' = [targets EXCEPT ![k] = Q]
      /\ shared' = IF \E i \in Live : run[i] = r THEN shared \cup {r} ELSE shared
      /\ state[k] = "absent"
  BY DEF Enqueue, remVars
<1>2. TypeOK'
  <2>1. pc' \in [Job -> Place]
    BY <1>1 DEF Inv, TypeOK, Place
  <2>2. state' \in [Job -> {"absent", "queued", "running"} \cup JobEnd]
    BY <1>1 DEF Inv, TypeOK
  <2>3. run' \in [Job -> Run \cup {NoRun}] /\ targets' \in [Job -> SUBSET Request]
    BY <1>1 DEF Inv, TypeOK
  <2>4. shared' \subseteq Run /\ disk' \in [Run -> RunState]
    BY <1>1 DEF Inv, TypeOK
  <2> QED BY <1>1, <2>1, <2>2, <2>3, <2>4 DEF Inv, TypeOK
<1>3. /\ disk'[r] = d /\ \A t \in Run \ {r} : disk'[t] = disk[t]
      /\ pc'[k] = "queued" /\ state'[k] = "queued" /\ run'[k] = r /\ targets'[k] = Q
      /\ \A i \in Job \ {k} : /\ pc'[i] = pc[i] /\ state'[i] = state[i] /\ run'[i] = run[i]
                              /\ targets'[i] = targets[i]
      /\ shared \subseteq shared' /\ shared' \subseteq shared \cup {r}
  BY <1>1 DEF Inv, TypeOK
<1>4. ASSUME NEW t \in Run
      PROVE  RunFits(t)'
  <2>1. RunFits(t)
    BY DEF Inv
  <2>2. BatchesOf(t)' = BatchesOf(t)
    BY <1>1 DEF BatchesOf
  <2>3. CASE disk'[t] = disk[t]
    BY <1>1, <1>3, <2>1, <2>2, <2>3
       DEF RunFits, DirFits, Single, Sound, Collected, InstalledIn, Submitted
  <2>4. CASE t = r /\ d = NewState /\ manifest[r] = {}
    <3>1. BatchesOf(r) = {}
      BY <2>1, <2>4 DEF RunFits, DirFits
    <3>2. Sound(NewState)' /\ ~Collected(NewState) /\ NewState.phase = "planning" /\ NewState.batch = 0
      BY <1>1 DEF NewState, Sound, Collected, Inv, TypeOK
    <3>3. disk'[t] = NewState
      BY <1>3, <2>4
    <3>4. DirFits(t, NewState)'
      BY <2>2, <2>4, <3>1, <3>2 DEF DirFits, Collected
    <3>5. Single(t, NewState)'
      BY <2>2, <2>4, <3>1 DEF Single
    <3> QED BY <3>3, <3>4, <3>5 DEF RunFits
  <2> QED BY <1>3, <2>3, <2>4
<1>5. ASSUME NEW i \in Job, i # k
      PROVE  JobFits(i)'
  <2>1. JobFits(i)
    BY DEF Inv
  <2>2. /\ run'[i] = run[i] /\ mem'[i] = mem[i] /\ pc'[i] = pc[i] /\ state'[i] = state[i]
        /\ targets'[i] = targets[i] /\ manifest' = manifest
    BY <1>1, <1>3, <1>5
  <2>3. Sound(mem[i])' /\ (Collected(mem[i])' <=> Collected(mem[i]))
    BY <1>1, <2>1 DEF JobFits, CopyFits, Sound, Collected
  <2>4. CopyFits(run[i], mem[i], pc[i])'
    BY <2>1, <2>2, <2>3 DEF JobFits, CopyFits, Collected
  <2>5. run[i] \notin shared' => Owns(run[i], disk[run[i]], mem[i], pc[i])'
    <3>1. CASE pc[i] = "none"
      BY <2>2, <3>1 DEF Owns, OnRecord, Later, Preparing, Working
    <3>2. CASE run[i] \in Run /\ disk'[run[i]] = disk[run[i]]
      <4>1. BatchesOf(run[i])' = BatchesOf(run[i])
        BY <1>1, <2>2 DEF BatchesOf
      <4>2. erased' = erased /\ (run[i] \notin shared' => run[i] \notin shared)
        BY <1>1, <1>3
      <4> QED BY <2>1, <2>2, <3>2, <4>1, <4>2 DEF JobFits, Owns, Keeps, Submitted
    <3> QED BY <1>3, <2>1, <3>1, <3>2 DEF JobFits
  <2> QED BY <2>1, <2>2, <2>4, <2>5 DEF JobFits
<1>6. JobFits(k)'
  <2>1. Sound(mem[k])'
    BY <1>1 DEF Inv, JobFits, CopyFits, Sound, Collected
  <2>2. CopyFits(r, mem[k], "queued")'
    BY <2>1 DEF CopyFits, Later, Preparing, Awaiting, Unsettled, Working
  <2>3. mem'[k] = mem[k] /\ manifest' = manifest
    BY <1>1
  <2>4. CopyFits(run[k], mem[k], pc[k])'
    BY <1>3, <2>2, <2>3 DEF CopyFits, Collected, Later, Preparing, Awaiting, Unsettled, Working, Sound
  <2>5. Owns(run[k], disk[run[k]], mem[k], pc[k])'
    BY <1>3 DEF Owns, OnRecord, Later, Preparing, Working
  <2>6. pc'[k] \notin Working
    BY <1>3 DEF Working
  <2> QED BY <1>3, <2>3, <2>4, <2>5, <2>6 DEF JobFits
<1>7. Apart'
  <2>1. SUFFICES ASSUME NEW h \in Job, NEW i \in Job, h # i, i # k, run'[h] = run'[i],
                        run'[h] \in Run
                 PROVE  /\ manifest'[run'[h]] # {}
                        /\ h \in Live' /\ i \in Live' => run'[h] \in shared'
    BY DEF Apart
  <2>2. run'[i] = run[i] /\ (i \in Live' => i \in Live) /\ manifest' = manifest
    BY <1>1, <1>3, <2>1 DEF Live
  <2>3. CASE h = k
    BY <1>1, <1>3, <2>1, <2>2, <2>3
  <2>4. CASE h # k
    <3>1. run'[h] = run[h] /\ (h \in Live' => h \in Live)
      BY <1>3, <2>1, <2>4 DEF Live
    <3> QED BY <1>3, <2>1, <2>2, <3>1 DEF Inv, Apart
  <2> QED BY <2>3, <2>4
<1> QED BY <1>2, <1>4, <1>5, <1>6, <1>7 DEF Inv

(* Steps that touch no directory: jobs may be cancelled in the queue, Batches may end. *)
LEMMA QuietKeeps ==
  ASSUME Inv, TypeOK', UNCHANGED <<manifest, disk, record, run, targets, mem, shared, erased>>,
         Len(batches') = Len(batches), \A r \in Run : BatchesOf(r)' = BatchesOf(r),
         \A j \in Job : \/ state'[j] = state[j] /\ pc'[j] = pc[j]
                        \/ j \in Live /\ state'[j] = "cancelled" /\ pc'[j] = "done"
  PROVE  Inv'
<1>1. ASSUME NEW r \in Run
      PROVE  RunFits(r)'
  BY DEF Inv, RunFits, DirFits, Single, Sound, Collected, InstalledIn, Submitted
<1>2. ASSUME NEW j \in Job
      PROVE  JobFits(j)'
  <2>1. JobFits(j)
    BY DEF Inv
  <2>2. Sound(mem[j])'
    BY <2>1 DEF JobFits, CopyFits, Sound, Collected
  <2>3. CASE state'[j] = state[j] /\ pc'[j] = pc[j]
    <3>1. CopyFits(run[j], mem[j], pc[j])'
      BY <2>1, <2>2, <2>3 DEF JobFits, CopyFits, Collected
    <3>2. run[j] \notin shared => Owns(run[j], disk[run[j]], mem[j], pc[j])'
      <4>1. CASE pc[j] = "none"
        BY <2>3, <4>1 DEF Owns, OnRecord, Later, Preparing, Working
      <4>2. CASE pc[j] # "none"
        <5>1. run[j] \in Run
          BY <2>1, <4>2 DEF JobFits
        <5>2. BatchesOf(run[j])' = BatchesOf(run[j])
          BY <5>1 DEF BatchesOf
        <5> QED BY <2>1, <2>3, <5>2 DEF JobFits, Owns, Single, Keeps, Submitted
      <4> QED BY <4>1, <4>2
    <3> QED BY <2>1, <2>3, <3>1, <3>2 DEF JobFits
  <2>4. CASE j \in Live /\ state'[j] = "cancelled" /\ pc'[j] = "done"
    <3>1. CopyFits(run[j], mem[j], pc[j])'
      BY <2>2, <2>4 DEF CopyFits, Collected, Later, Preparing, Awaiting, Unsettled, Working
    <3>2. Owns(run[j], disk[run[j]], mem[j], pc[j])'
      BY <2>4 DEF Owns, OnRecord, Later, Preparing, Working
    <3>3. run[j] \in Run
      BY <2>1, <2>4 DEF JobFits, Live
    <3>4. "done" \notin Working
      BY DEF Working
    <3> QED BY <2>1, <2>4, <3>1, <3>2, <3>3, <3>4 DEF JobFits
  <2> QED BY <2>3, <2>4
<1>3. Apart'
  <2>1. Live' \subseteq Live
    BY DEF Live
  <2> QED BY <2>1 DEF Inv, Apart
<1> QED BY <1>1, <1>2, <1>3 DEF Inv

(* A fresh run gets a blank directory. *)
LEMMA QueueRunKeeps ==
  ASSUME Inv, NEW k \in Job, NEW Q \in SUBSET Request, Q # {}, QueueRun(k, Q)
  PROVE  Inv'
<1>1. PICK r \in Run \ Stored :
        /\ \A i \in Job : run[i] # r
        /\ Enqueue(k, r, Q) /\ disk' = [disk EXCEPT ![r] = NewState]
  BY DEF QueueRun
<1>2. manifest[r] = {}
  BY DEF Stored
<1> QED BY <1>1, <1>2, NewStateTyped, EnqueueKeeps

(* A run that has its manifest is taken up again where it stands. *)
LEMMA StoredKeeps ==
  ASSUME Inv, NEW k \in Job, NEW r \in Stored, NEW Q \in SUBSET Request, Enqueue(k, r, Q),
         UNCHANGED disk
  PROVE  Inv'
<1>1. r \in Run /\ manifest[r] # {} /\ disk[r] \in RunState
  BY DEF Stored, Inv, TypeOK
<1>2. disk' = [disk EXCEPT ![r] = disk[r]]
  BY <1>1, DiskSame DEF Inv
<1> QED BY <1>1, <1>2, EnqueueKeeps

(* Retrying makes a new run or another coordinator. *)
LEMMA RetryKeeps ==
  ASSUME Inv, NEW j \in Job, NEW k \in Job, Retry(j, k)
  PROVE  Inv'
<1>1. run[j] \in Stored /\ targets[j] \in SUBSET Request
  BY DEF Retry, Inv, TypeOK
<1>2. CASE RetryFailed(j, k)
  <2>1. Failed(run[j]) \in SUBSET Request /\ Failed(run[j]) # {}
    BY <1>1, <1>2 DEF RetryFailed, Failed, Stored, Inv, TypeOK
  <2> QED BY <1>2, <2>1, QueueRunKeeps DEF RetryFailed
<1>3. CASE RetrySame(j, k)
  BY <1>1, <1>3, StoredKeeps DEF RetrySame
<1> QED BY <1>2, <1>3 DEF Retry

(* Opening the library queues coordinators of stored runs. *)
LEMMA ResumeKeeps ==
  ASSUME Inv, NEW j \in Job, NEW r \in Run, Resume(j, r)
  PROVE  Inv'
<1>1. r \in Stored /\ {} \in SUBSET Request
  BY DEF Resume, Resumable, Idle
<1> QED BY <1>1, StoredKeeps DEF Resume

(* Discarding the working files of an old run touches nothing of the invariant. *)
LEMMA PruneKeeps ==
  ASSUME Inv, NEW r \in Run, PruneOld(r)
  PROVE  Inv'
<1>1. UNCHANGED <<manifest, disk, record, batches, files, created, state, token, pc, run, targets, mem,
                  sent, paper, todo, closing, restarts, shared, erased>>
      /\ pruned' \subseteq Run
  BY DEF PruneOld, remVars, jobVars, envVars, Inv, TypeOK
<1>2. TypeOK'
  BY <1>1 DEF Inv, TypeOK
<1>3. \A t \in Run : BatchesOf(t)' = BatchesOf(t)
  BY <1>1 DEF BatchesOf
<1> QED BY <1>1, <1>2, <1>3, QuietKeeps

(* Jobs are signalled: those that wait in the queue are cancelled there. *)
LEMMA ToldKeeps ==
  ASSUME Inv, NEW S \in SUBSET Job, NEW reason \in {"user", "shutdown"}, Told(S, reason),
         closing' \in BOOLEAN
  PROVE  Inv'
<1>1. /\ UNCHANGED <<manifest, disk, pruned, record, batches, files, created, run, targets, mem, sent,
                     paper, todo, restarts, shared, erased>>
  BY DEF Told, dirVars, remVars, jobVars
<1>2. /\ state' \in [Job -> {"absent", "queued", "running"} \cup JobEnd]
      /\ token' \in [Job -> {"clear", "user", "shutdown"}] /\ pc' \in [Job -> Place]
  BY DEF Told, Signal, Inv, TypeOK, JobEnd, Place
<1>3. TypeOK'
  BY <1>1, <1>2 DEF Inv, TypeOK
<1>4. ASSUME NEW j \in Job
      PROVE  \/ state'[j] = state[j] /\ pc'[j] = pc[j]
             \/ j \in Live /\ state'[j] = "cancelled" /\ pc'[j] = "done"
  BY DEF Told, Signal
<1>5. \A t \in Run : BatchesOf(t)' = BatchesOf(t)
  BY <1>1 DEF BatchesOf
<1> QED BY <1>1, <1>3, <1>4, <1>5, QuietKeeps

(* The process ends; directories, records and the provider remain. *)
LEMMA RestartKeeps ==
  ASSUME Inv, Restart
  PROVE  Inv'
<1>1. UNCHANGED <<manifest, disk, pruned, record, batches, files, created, shared, erased>>
  BY DEF Restart, dirVars, remVars
<1>2. \A j \in Job : /\ state'[j] = "absent" /\ run'[j] = NoRun /\ targets'[j] = {}
                     /\ pc'[j] = "none" /\ mem'[j] = NewState
  BY DEF Restart
<1>3. TypeOK'
  <2>1. closing' \in BOOLEAN /\ restarts' \in 0..MaxRestarts
    <3>1. closing' \in BOOLEAN
      BY DEF Restart
    <3>2. restarts \in 0..MaxRestarts /\ restarts < MaxRestarts /\ restarts' = restarts + 1
      BY DEF Restart, Inv, TypeOK
    <3> QED BY <3>1, <3>2, BoundsNat
  <2>2. /\ state' \in [Job -> {"absent", "queued", "running"} \cup JobEnd]
        /\ run' \in [Job -> Run \cup {NoRun}] /\ targets' \in [Job -> SUBSET Request]
        /\ token' \in [Job -> {"clear", "user", "shutdown"}] /\ pc' \in [Job -> Place]
        /\ sent' \in [Job -> BOOLEAN]
        /\ paper' \in [Job -> Paper \cup {NoPaper}] /\ todo' \in [Job -> SUBSET File]
    BY DEF Restart, Place
  <2>3. mem' \in [Job -> RunState]
    BY NewStateTyped DEF Restart
  <2> QED BY <1>1, <2>1, <2>2, <2>3 DEF Inv, TypeOK
<1>4. ASSUME NEW r \in Run
      PROVE  RunFits(r)'
  BY <1>1 DEF Inv, RunFits, DirFits, Single, Sound, Collected, InstalledIn, Submitted, BatchesOf
<1>5. ASSUME NEW j \in Job
      PROVE  JobFits(j)'
  <2>1. Sound(NewState)'
    BY <1>1 DEF NewState, Sound, Collected, Inv, TypeOK
  <2>2. CopyFits(run[j], mem[j], pc[j])'
    BY <1>2, <2>1 DEF CopyFits, Sound, Collected, Later, Preparing, Awaiting, Unsettled, Working
  <2>3. Owns(run[j], disk[run[j]], mem[j], pc[j])'
    BY <1>2 DEF Owns, OnRecord, Later, Preparing, Working
  <2> QED BY <1>2, <2>2, <2>3 DEF JobFits, Working
<1>6. Apart'
  BY <1>2, NoneIsNone DEF Apart
<1> QED BY <1>3, <1>4, <1>5, <1>6 DEF Inv

(* The provider ends a Batch. *)
LEMMA EndBatchKeeps ==
  ASSUME Inv, NEW b \in DOMAIN batches, EndBatch(b)
  PROVE  Inv'
<1>1. UNCHANGED <<manifest, disk, pruned, record, state, token, pc, run, targets, mem, sent, paper, todo,
                  closing, restarts, shared, erased>>
  BY DEF EndBatch, dirVars, jobVars, envVars
<1>2. batches \in Seq(Batch) /\ batches[b] \in Batch /\ Len(batches) <= MaxBatches
  BY DEF Inv, TypeOK
<1>3. PICK n : n \in Batch /\ n.run = batches[b].run /\ batches' = [batches EXCEPT ![b] = n]
  <2>1. PICK ok \in SUBSET batches[b].requests :
          \/ /\ Store
             /\ batches' = [batches EXCEPT ![b] = [@ EXCEPT !.ended = TRUE, !.ok = ok,
                                                            !.output = created + 1]]
          \/ batches' = [batches EXCEPT ![b].ended = TRUE]
    BY DEF EndBatch
  <2>2. PICK o : o = batches[b]
    OBVIOUS
  <2>3. o \in Batch /\ ok \in SUBSET o.requests
    BY <1>2, <2>1, <2>2
  <2>4. CASE Store /\ batches' = [batches EXCEPT ![b] = [@ EXCEPT !.ended = TRUE, !.ok = ok,
                                                                  !.output = created + 1]]
    <3>1. created + 1 \in File
      BY <2>4, BoundsNat DEF Store, File, Inv, TypeOK
    <3>2. PICK n : n = [o EXCEPT !.ended = TRUE, !.ok = ok, !.output = created + 1]
      OBVIOUS
    <3>3. n \in Batch /\ n.run = o.run
      BY <2>3, <3>1, <3>2 DEF Batch
    <3> QED BY <2>2, <2>4, <3>2, <3>3
  <2>5. CASE batches' = [batches EXCEPT ![b].ended = TRUE]
    <3>1. PICK n : n = [o EXCEPT !.ended = TRUE]
      OBVIOUS
    <3>2. n \in Batch /\ n.run = o.run
      BY <2>3, <3>1 DEF Batch
    <3> QED BY <2>2, <2>5, <3>1, <3>2
  <2> QED BY <2>1, <2>4, <2>5
<1>4. /\ batches' \in Seq(Batch) /\ Len(batches') = Len(batches)
      /\ DOMAIN batches' = DOMAIN batches /\ \A c \in DOMAIN batches : batches'[c].run = batches[c].run
  BY <1>2, <1>3
<1>5. \A t \in Run : BatchesOf(t)' = BatchesOf(t)
  BY <1>4 DEF BatchesOf
<1>6. files' \subseteq File /\ created' \in 0..MaxFiles
  BY BoundsNat DEF EndBatch, Store, File, Inv, TypeOK
<1>7. TypeOK'
  BY <1>1, <1>2, <1>4, <1>6 DEF Inv, TypeOK
<1> QED BY <1>1, <1>4, <1>5, <1>7, QuietKeeps

-----------------------------------------------------------------------------
(* Nothing has been asked for yet. *)
LEMMA InitInv == Init => Inv
<1> SUFFICES ASSUME Init PROVE Inv
  OBVIOUS
<1>1. TypeOK
  <2>1. mem \in [Job -> RunState] /\ disk \in [Run -> RunState]
    BY NewStateTyped DEF Init
  <2>2. batches \in Seq(Batch) /\ Len(batches) <= MaxBatches
    BY BoundsNat DEF Init
  <2>3. /\ manifest \in [Run -> SUBSET Request] /\ pruned \subseteq Run
        /\ record \in [Request -> Run \cup {NoRun}] /\ files \subseteq File
        /\ state \in [Job -> {"absent", "queued", "running"} \cup JobEnd]
        /\ run \in [Job -> Run \cup {NoRun}] /\ targets \in [Job -> SUBSET Request]
        /\ token \in [Job -> {"clear", "user", "shutdown"}] /\ pc \in [Job -> Place]
        /\ paper \in [Job -> Paper \cup {NoPaper}] /\ todo \in [Job -> SUBSET File]
        /\ shared \subseteq Run /\ erased \subseteq Run
    BY DEF Init, Place
  <2>4. created \in 0..MaxFiles /\ restarts \in 0..MaxRestarts
    BY BoundsNat DEF Init
  <2>5. sent \in [Job -> BOOLEAN] /\ closing \in BOOLEAN
    BY DEF Init
  <2> QED BY <2>1, <2>2, <2>3, <2>4, <2>5 DEF TypeOK
<1>2. Sound(NewState) /\ ~Collected(NewState) /\ NewState.batch = 0 /\ NewState.phase = "planning"
  BY DEF Init, Sound, Collected, NewState
<1>3. ASSUME NEW r \in Run
      PROVE  RunFits(r)
  <2>1. BatchesOf(r) = {} /\ disk[r] = NewState
    BY DEF Init, BatchesOf
  <2> QED BY <1>2, <2>1 DEF RunFits, DirFits, Single
<1>4. ASSUME NEW j \in Job
      PROVE  JobFits(j)
  <2>1. pc[j] = "none" /\ mem[j] = NewState /\ state[j] = "absent"
    BY DEF Init
  <2>2. CopyFits(run[j], mem[j], pc[j])
    BY <1>2, <2>1 DEF CopyFits, Later, Preparing, Awaiting, Unsettled, Working
  <2>3. Owns(run[j], disk[run[j]], mem[j], pc[j])
    BY <2>1 DEF Owns, OnRecord, Later, Preparing, Working
  <2> QED BY <2>1, <2>2, <2>3 DEF JobFits, Working
<1>5. Apart
  BY NoneIsNone DEF Init, Apart
<1> QED BY <1>1, <1>3, <1>4, <1>5 DEF Inv

(* Every step keeps the invariant. *)
LEMMA NextInv == Inv /\ [Next]_vars => Inv'
<1> SUFFICES ASSUME Inv, [Next]_vars PROVE Inv'
  OBVIOUS
<1>1. CASE UNCHANGED vars
  <2>1. /\ UNCHANGED <<manifest, disk, record, run, targets, mem, shared, erased, batches, state, pc>>
        /\ UNCHANGED <<pruned, files, created, token, sent, paper, todo, closing, restarts>>
    BY <1>1 DEF vars, dirVars, remVars, jobVars, envVars
  <2>2. TypeOK'
    BY <2>1 DEF Inv, TypeOK
  <2>3. \A r \in Run : BatchesOf(r)' = BatchesOf(r)
    BY <2>1 DEF BatchesOf
  <2> QED BY <2>1, <2>2, <2>3, QuietKeeps
<1>2. CASE Clicked
  <2>1. ASSUME NEW j \in Job, NEW Q \in SUBSET Request, Q # {}, QueueRun(j, Q)
        PROVE  Inv'
    BY <2>1, QueueRunKeeps
  <2>2. ASSUME NEW j \in Job, NEW k \in Job, Retry(j, k)
        PROVE  Inv'
    BY <2>2, RetryKeeps
  <2>3. ASSUME NEW j \in Job, NEW r \in Run, Resume(j, r)
        PROVE  Inv'
    BY <2>3, ResumeKeeps
  <2>4. ASSUME NEW r \in Run, PruneOld(r)
        PROVE  Inv'
    BY <2>4, PruneKeeps
  <2>5. ASSUME NEW j \in Job, Cancel(j)
        PROVE  Inv'
    <3>1. Told({j}, "user") /\ closing' \in BOOLEAN /\ {j} \in SUBSET Job
      BY <2>5 DEF Cancel, Inv, TypeOK
    <3> QED BY <3>1, ToldKeeps
  <2> QED BY <1>2, <2>1, <2>2, <2>3, <2>4, <2>5 DEF Clicked
<1>3. ASSUME NEW j \in Job, Step(j)
      PROVE  Inv'
  BY <1>3, StartKeeps, SnapshotKeeps, StoppedKeeps, UploadKeeps, UploadFileKeeps, AttemptKeeps,
     CreateKeeps, CreatedKeeps, CreateFailsKeeps, ReconcileKeeps, PollKeeps, RetrieveKeeps,
     CollectKeeps, FinalizeKeeps, FinalizedKeeps, WakeKeeps, DeleteKeeps, ConcludeKeeps, FailKeeps
     DEF Step
<1>4. ASSUME NEW b \in DOMAIN batches, EndBatch(b)
      PROVE  Inv'
  BY <1>4, EndBatchKeeps
<1>5. CASE Shutdown
  <2>1. Told(Job, "shutdown") /\ closing' \in BOOLEAN
    BY <1>5 DEF Shutdown
  <2> QED BY <2>1, ToldKeeps
<1>6. CASE Restart
  BY <1>6, RestartKeeps
<1>7. ASSUME NEW j \in Job, Cut(j)
      PROVE  Inv'
  BY <1>7, CutKeeps
<1> QED BY <1>1, <1>2, <1>3, <1>4, <1>5, <1>6, <1>7 DEF Next

(* The invariant holds in every reachable state. *)
THEOREM Invariant == Spec => []Inv
  BY InitInv, NextInv, PTL DEF Spec

-----------------------------------------------------------------------------
(* What follows from it *)

(* All variables keep their types. *)
THEOREM TypeCorrect == Spec => []TypeOK
<1>1. Inv => TypeOK
  BY DEF Inv
<1> QED BY <1>1, Invariant, PTL

(* A run is submitted at most once, whatever call fails and wherever the process ends, unless *)
(* two coordinators worked on it at once or a forced shutdown cut it, cancelled, while its    *)
(* submission was under way or in doubt.                                                      *)
THEOREM NeverTwice == Spec => []SubmittedOnce
<1>1. Inv => SubmittedOnce
  <2> SUFFICES ASSUME Inv, NEW r \in Run, r \notin shared, r \notin erased
               PROVE  Cardinality(BatchesOf(r)) <= 1
    BY DEF SubmittedOnce
  <2> DEFINE B == BatchesOf(r)
  <2>1. \A b, c \in B : b = c
    BY DEF Inv, RunFits, Single
  <2>2. CASE B = {}
    BY <2>2, FS_EmptySet
  <2>3. CASE \E b : B = {b}
    <3> HIDE DEF B
    <3>1. Cardinality(B) = 1
      BY <2>3, FS_Singleton
    <3> QED BY <3>1 DEF B
  <2>4. B = {} \/ \E b : B = {b}
    <3> HIDE DEF B
    <3>1. ASSUME NEW b \in B
          PROVE  B = {b}
      BY <2>1
    <3> QED BY <3>1
  <2> QED BY <2>2, <2>3, <2>4
<1> QED BY <1>1, Invariant, PTL

(* What a run counts as installed is recorded in paper.json, and a completed run has installed *)
(* everything.                                                                               *)
THEOREM RecordsKept == Spec => []InstalledRecorded
<1>1. Inv => InstalledRecorded
  <2> SUFFICES ASSUME Inv, NEW r \in Run
               PROVE  /\ \A q \in Installed(r) : record[q] # NoRun
                      /\ disk[r].phase = "completed" => manifest[r] = Installed(r)
    BY DEF InstalledRecorded
  <2>1. DirFits(r, disk[r])
    BY DEF Inv, RunFits
  <2> QED BY <2>1 DEF DirFits, Sound, Installed, InstalledIn
<1> QED BY <1>1, Invariant, PTL

-----------------------------------------------------------------------------
(* Progress *)

\* What every step has to keep of the runs that nobody shares.
Kept == \A r \in Stored \ shared' : Keeps(r, disk[r], disk'[r])

(* Keeping is transitive.                                                      *)
LEMMA KeepsOn ==
  ASSUME NEW r \in Run, NEW d, NEW m, NEW n, Keeps(r, d, m), Keeps(r, m, n)
  PROVE  Keeps(r, d, n)
  BY DEF Keeps

(* A step that writes no directory loses nothing.                              *)
LEMMA UnwrittenKept ==
  ASSUME UNCHANGED disk
  PROVE  Kept
  BY DEF Kept, Keeps

(* Nor does one that writes the directory of one run and keeps what was there. *)
LEMMA WrittenKept ==
  ASSUME Inv, NEW r \in Run, NEW d, disk' = [disk EXCEPT ![r] = d], UNCHANGED shared,
         manifest[r] # {} /\ r \notin shared => Keeps(r, disk[r], d)
  PROVE  Kept
<1> SUFFICES ASSUME NEW t \in Stored, t \notin shared'
             PROVE  Keeps(t, disk[t], disk'[t])
  BY DEF Kept
<1>1. t \in Run /\ manifest[t] # {} /\ t \notin shared
  BY DEF Stored
<1>2. CASE t = r
  <2>1. disk'[t] = d
    BY <1>1, <1>2 DEF Inv, TypeOK
  <2> QED BY <1>1, <1>2, <2>1
<1>3. CASE t # r
  <2>1. disk'[t] = disk[t]
    BY <1>1, <1>3 DEF Inv, TypeOK
  <2> QED BY <2>1 DEF Keeps
<1> QED BY <1>2, <1>3

(* A new phase keeps everything.                                               *)
LEMMA PhaseKept ==
  ASSUME NEW r \in Run, NEW m \in RunState, NEW x
  PROVE  Keeps(r, m, [m EXCEPT !.phase = x])
  BY DEF Keeps, RunState

(* What a coordinator writes from its own copy keeps what it had read.         *)
LEMMA CopyKept ==
  ASSUME Inv, NEW j \in Job, pc[j] \in Later, NEW n, Keeps(run[j], mem[j], n),
         disk' = [disk EXCEPT ![run[j]] = n], UNCHANGED shared
  PROVE  Kept
<1>1. pc[j] # "none"
  BY DEF Later, Working
<1>2. run[j] \in Run /\ (run[j] \notin shared => Keeps(run[j], disk[run[j]], mem[j]))
  BY <1>1, Own DEF Owns
<1>3. run[j] \notin shared => Keeps(run[j], disk[run[j]], n)
  BY <1>2, KeepsOn
<1> QED BY <1>2, <1>3, WrittenKept

(* What it writes from the directory itself does so too.                       *)
LEMMA AgainKept ==
  ASSUME Inv, NEW j \in Job, run[j] \in Run, NEW x,
         disk' = [disk EXCEPT ![run[j]] = [disk[run[j]] EXCEPT !.phase = x]], UNCHANGED shared
  PROVE  Kept
<1>1. disk[run[j]] \in RunState
  BY DEF Inv, TypeOK
<1>2. PICK d, n : d = disk[run[j]] /\ n = [d EXCEPT !.phase = x]
  OBVIOUS
<1>3. Keeps(run[j], d, n)
  BY <1>1, <1>2, PhaseKept
<1> QED BY <1>2, <1>3, WrittenKept

(* A submission adds nothing but a phase.                                      *)
LEMMA SubmitKept ==
  ASSUME NEW j \in Job, NEW r \in Run, NEW Q \in SUBSET Request, NEW m \in RunState, Submit(j, Q, m)
  PROVE  \E n : Keeps(r, m, n) /\ disk' = [disk EXCEPT ![run[j]] = n]
<1>1. CASE disk' = [disk EXCEPT ![run[j]] = m]
  BY <1>1 DEF Keeps
<1>2. CASE disk' = [disk EXCEPT ![run[j]] = [m EXCEPT !.phase = "uploading"]]
  BY <1>2, PhaseKept
<1> QED BY <1>1, <1>2 DEF Submit, Goto

(* No step of a coordinator loses what its run has made durable.               *)
LEMMA StepKept ==
  ASSUME Inv, NEW j \in Job, Step(j)
  PROVE  Kept
<1> DEFINE r == run[j]
<1>0. PICK m, d : m = mem[j] /\ d = disk[r]
  OBVIOUS
<1>1. pc[j] \in Working \cup {"queued"}
  BY DEF Step, Start, Snapshot, Stopped, Upload, UploadFile, Attempt, Create, Created, CreateFails,
         Reconcile, Poll, Retrieve, Collect, Finalize, Finalized, Wake, Delete, Conclude, Fail, Raises,
         Working, Place
<1>2. /\ r \in Run /\ m \in RunState /\ d \in RunState /\ manifest[r] \subseteq Request
      /\ CopyFits(r, m, pc[j])
  <2>1. pc[j] # "none"
    BY <1>1 DEF Working
  <2> QED BY <1>0, <2>1, Own
<1>3. UNCHANGED shared
  BY DEF Step, Start, Snapshot, Stopped, Upload, UploadFile, Attempt, Create, Created, CreateFails,
         Reconcile, Poll, Retrieve, Collect, Finalize, Finalized, Wake, Delete, Conclude, Fail,
         Elsewhere, envVars
<1>4. ASSUME pc[j] \in Later, NEW n, Keeps(r, m, n), disk' = [disk EXCEPT ![r] = n]
      PROVE  Kept
  BY <1>0, <1>3, <1>4, CopyKept
<1>5. ASSUME NEW x, disk' = [disk EXCEPT ![r] = [d EXCEPT !.phase = x]]
      PROVE  Kept
  BY <1>0, <1>2, <1>3, <1>5, AgainKept
<1>6. CASE Start(j)
  <2>1. CASE Goto(j, [d EXCEPT !.phase = "snapshotting"], "snapshot")
    BY <1>5, <2>1 DEF Goto
  <2>2. CASE Submit(j, manifest[r], d)
    <3>1. PICK n : Keeps(r, d, n) /\ disk' = [disk EXCEPT ![r] = n]
      BY <1>2, <2>2, SubmitKept
    <3> QED BY <1>0, <1>2, <1>3, <3>1, WrittenKept
  <2>3. CASE Install(j, d)
    BY <1>5, <2>3 DEF Install, Goto
  <2>4. CASE CleanUp(j, d, "cleanup")
    BY <1>5, <2>4 DEF CleanUp
  <2> QED BY <1>0, <1>6, <2>1, <2>2, <2>3, <2>4 DEF Start
<1>7. CASE Snapshot(j)
  <2>1. manifest[r] = {}
    BY <1>7 DEF Snapshot, Inv, JobFits
  <2>2. \E n : disk' = [disk EXCEPT ![r] = n]
    BY <1>7 DEF Snapshot, Submit, Goto
  <2> QED BY <1>2, <1>3, <2>1, <2>2, WrittenKept
<1>8. CASE Stopped(j)
  <2>1. \/ disk' = [disk EXCEPT ![r] = [d EXCEPT !.phase = "cancelled"]]
        \/ disk' = [disk EXCEPT ![r] = d]
    BY <1>0, <1>8 DEF Stopped, Stop, StopWith
  <2>2. d = [d EXCEPT !.phase = d.phase]
    BY <1>2 DEF RunState
  <2> QED BY <1>5, <2>1, <2>2
<1>9. CASE Upload(j)
  <2>1. pc[j] = "upload" /\ pc[j] \in Later
    BY <1>9 DEF Upload, Later, Working, Place
  <2>2. PICK p, n : /\ p \in ToUpload(manifest[r], m)
                    /\ n = [m EXCEPT !.uploads = m.uploads \cup {p}, !.cleanup = m.cleanup \cup {created + 1}]
                    /\ Submit(j, manifest[r], n)
    BY <1>0, <1>9 DEF Upload
  <2>3. created + 1 \in File /\ p \in Paper
    BY <1>2, <1>9, <2>2, PapersOfRequests, BoundsNat DEF ToUpload, Upload, Store, File, Inv, TypeOK
  <2>4. m.uploads \cup {p} \in SUBSET Paper /\ m.cleanup \cup {created + 1} \in SUBSET File
    BY <1>2, <2>3 DEF RunState
  <2>5. n \in RunState /\ Keeps(r, m, n)
    BY <1>2, <2>2, <2>4 DEF Keeps, RunState
  <2>6. PICK w : Keeps(r, n, w) /\ disk' = [disk EXCEPT ![r] = w]
    BY <1>2, <2>2, <2>5, SubmitKept
  <2>7. Keeps(r, m, w)
    BY <1>2, <2>5, <2>6, KeepsOn
  <2> QED BY <1>4, <2>1, <2>6, <2>7
<1>10. CASE UploadFile(j)
  <2>1. pc[j] = "file" /\ pc[j] \in Later
    BY <1>10 DEF UploadFile, Later, Working, Place
  <2>2. PICK n : n = [m EXCEPT !.input = created + 1, !.cleanup = m.cleanup \cup {created + 1},
                              !.phase = "ready"]
                 /\ disk' = [disk EXCEPT ![r] = n]
    BY <1>0, <1>10 DEF UploadFile, Goto
  <2>3. m.input = 0
    BY <1>2, <2>1 DEF CopyFits
  <2>4. Keeps(r, m, n)
    BY <1>2, <2>2, <2>3 DEF Keeps, RunState
  <2> QED BY <1>4, <2>1, <2>2, <2>4
<1>11. CASE Attempt(j)
  <2>1. pc[j] \in Later /\ disk' = [disk EXCEPT ![r] = [m EXCEPT !.phase = "attempted"]]
    BY <1>0, <1>11 DEF Attempt, Goto, Later, Working, Place
  <2> QED BY <1>2, <1>4, <2>1, PhaseKept
<1>12. CASE Create(j) \/ Poll(j) \/ Finalize(j)
  <2>1. UNCHANGED disk
    BY <1>12 DEF Create, Poll, Finalize, dirVars
  <2> QED BY <2>1, UnwrittenKept
<1>13. CASE Created(j) \/ Finalized(j)
  <2>1. pc[j] \in Later /\ disk' = [disk EXCEPT ![r] = m]
    BY <1>0, <1>13 DEF Created, Finalized, Goto, Later, Working, Place
  <2>2. Keeps(r, m, m)
    BY DEF Keeps
  <2> QED BY <1>4, <2>1, <2>2
<1>14. CASE CreateFails(j)
  <2>1. pc[j] \in Later /\ disk' = [disk EXCEPT ![r] = [m EXCEPT !.phase = "uncertain"]]
    BY <1>0, <1>14 DEF CreateFails, Later, Working, Place
  <2> QED BY <1>2, <1>4, <2>1, PhaseKept
<1>15. CASE Reconcile(j)
  <2>1. pc[j] = "reconcile" /\ pc[j] \in Later
    BY <1>15 DEF Reconcile, Later, Working, Place
  <2>2. CASE disk' = [disk EXCEPT ![r] = [m EXCEPT !.phase = "uncertain"]]
    BY <1>2, <1>4, <2>1, <2>2, PhaseKept
  <2>3. CASE \E b : disk' = [disk EXCEPT ![r] = [m EXCEPT !.batch = b]]
    <3>1. PICK b, n : n = [m EXCEPT !.batch = b] /\ disk' = [disk EXCEPT ![r] = n]
      BY <2>3
    <3>2. m.batch = 0
      BY <1>2, <2>1 DEF CopyFits
    <3>3. Keeps(r, m, n)
      BY <1>2, <3>1, <3>2 DEF Keeps, RunState
    <3> QED BY <1>4, <2>1, <3>1, <3>3
  <2> QED BY <1>0, <1>15, <2>2, <2>3 DEF Reconcile, Goto
<1>16. CASE Retrieve(j)
  <2>1. pc[j] \in Later
    BY <1>16 DEF Retrieve, Later, Working, Place
  <2>2. Keeps(r, m, m)
    BY DEF Keeps
  <2>3. \/ disk' = [disk EXCEPT ![r] = m]
        \/ disk' = [disk EXCEPT ![r] = [m EXCEPT !.phase = "collecting"]]
        \/ disk' = [disk EXCEPT ![r] = [m EXCEPT !.phase = "in_progress"]]
    BY <1>0, <1>16 DEF Retrieve, Goto
  <2>4. Keeps(r, m, [m EXCEPT !.phase = "collecting"]) /\ Keeps(r, m, [m EXCEPT !.phase = "in_progress"])
    BY <1>2, PhaseKept
  <2> QED BY <1>4, <2>1, <2>2, <2>3, <2>4
<1>17. CASE Collect(j)
  <2>1. pc[j] = "collect" /\ pc[j] \in Later
    BY <1>17 DEF Collect, Later, Working, Place
  <2>2. PICK b, o, n :
          /\ b = batches[m.batch]
          /\ o = [q \in Request |-> IF q \notin manifest[r] THEN "none"
                                    ELSE IF q \in b.ok THEN "ok" ELSE "failed"]
          /\ n = [m EXCEPT !.outcomes = o, !.cleanup = m.cleanup \cup ({b.output} \ {0})]
    OBVIOUS
  <2>3. /\ n.batch = m.batch /\ n.outcomes = o /\ n.input = m.input /\ n.uploads = m.uploads
        /\ n.finalized = m.finalized
    BY <1>2, <2>2 DEF RunState
  <2>4. Keeps(r, m, n)
    BY <1>2, <2>2, <2>3 DEF Keeps
  <2>5. \E x : disk' = [disk EXCEPT ![r] = [n EXCEPT !.phase = x]]
    <3>1. n = [mem[j] EXCEPT
                 !.outcomes = [q \in Request |-> IF q \notin manifest[run[j]] THEN "none"
                                                 ELSE IF q \in batches[mem[j].batch].ok THEN "ok"
                                                 ELSE "failed"],
                 !.cleanup = @ \cup ({batches[mem[j].batch].output} \ {0})]
      BY <1>0, <2>2
    <3>2. n = [n EXCEPT !.phase = n.phase]
      BY <1>2, <2>2 DEF RunState
    <3>3. \/ disk' = [disk EXCEPT ![r] = n]
          \/ disk' = [disk EXCEPT ![r] = [n EXCEPT !.phase = "cleaning_up"]]
          \/ disk' = [disk EXCEPT ![r] = [n EXCEPT !.phase = "installing"]]
      BY <1>17, <3>1 DEF Collect, CleanUp, Install, Goto
    <3> QED BY <3>2, <3>3
  <2>6. PICK x, w : w = [n EXCEPT !.phase = x] /\ disk' = [disk EXCEPT ![r] = w]
    BY <2>5
  <2>7. Keeps(r, m, w)
    <3>1. /\ w.batch = n.batch /\ w.outcomes = n.outcomes /\ w.input = n.input /\ w.uploads = n.uploads
          /\ w.finalized = n.finalized
      BY <1>2, <2>2, <2>6 DEF RunState
    <3> QED BY <2>4, <3>1 DEF Keeps
  <2> QED BY <1>4, <2>1, <2>6, <2>7
<1>18. CASE Wake(j)
  <2>1. UNCHANGED disk \/ disk' = [disk EXCEPT ![r] = [d EXCEPT !.phase = "cleaning_up"]]
    BY <1>0, <1>18 DEF Wake, CleanUp
  <2> QED BY <1>5, <2>1, UnwrittenKept
<1>19. CASE Delete(j)
  <2>1. pc[j] \in Later
    BY <1>19 DEF Delete, Later, Working, Place
  <2>2. PICK f : \/ disk' = [disk EXCEPT ![r] = m]
                 \/ disk' = [disk EXCEPT ![r] = [m EXCEPT !.cleanup = m.cleanup \cup {f}]]
    BY <1>0, <1>19 DEF Delete, Goto, Postponed
  <2>3. PICK n : n = [m EXCEPT !.cleanup = m.cleanup \cup {f}]
    OBVIOUS
  <2>4. Keeps(r, m, m) /\ Keeps(r, m, n)
    BY <1>2, <2>3 DEF Keeps, RunState
  <2> QED BY <1>4, <2>1, <2>2, <2>3, <2>4
<1>20. CASE Conclude(j)
  <2>1. \E x : disk' = [disk EXCEPT ![r] = [d EXCEPT !.phase = x]]
    BY <1>0, <1>20 DEF Conclude
  <2> QED BY <1>5, <2>1
<1>21. CASE Fail(j)
  BY <1>21, UnwrittenKept DEF Fail, Throw
<1> QED BY <1>6, <1>7, <1>8, <1>9, <1>10, <1>11, <1>12, <1>13, <1>14, <1>15, <1>16, <1>17, <1>18,
           <1>19, <1>20, <1>21 DEF Step

(* Nor does a cut, which writes another phase at most.                         *)
LEMMA CutKept ==
  ASSUME Inv, NEW j \in Job, Cut(j)
  PROVE  Kept
<1>1. PICK x : disk' = [disk EXCEPT ![run[j]] = [disk[run[j]] EXCEPT !.phase = x]]
  <2>1. PICK d : d = disk[run[j]]
    OBVIOUS
  <2>2. \E x : disk' = [disk EXCEPT ![run[j]] = [d EXCEPT !.phase = x]]
    BY <2>1, CutOff
  <2> QED BY <2>1, <2>2
<1>2. UNCHANGED shared /\ pc[j] \in Working
  BY CutOff
<1>3. run[j] \in Run
  BY <1>2, Own DEF Working
<1> QED BY <1>1, <1>2, <1>3, AgainKept

(* Nor does any other step.                                                    *)
LEMMA NextKept == Inv /\ [Next]_vars => Kept
<1> SUFFICES ASSUME Inv, [Next]_vars PROVE Kept
  OBVIOUS
<1>1. ASSUME NEW k \in Job, NEW Q \in SUBSET Request, QueueRun(k, Q)
      PROVE  Kept
  <2>1. PICK r \in Run \ Stored : disk' = [disk EXCEPT ![r] = NewState] /\ Enqueue(k, r, Q)
    BY <1>1 DEF QueueRun
  <2> SUFFICES ASSUME NEW t \in Stored
               PROVE  Keeps(t, disk[t], disk'[t])
    BY DEF Kept
  <2>2. disk'[t] = disk[t]
    BY <2>1 DEF Stored, Inv, TypeOK
  <2> QED BY <2>2 DEF Keeps
<1>2. CASE Clicked
  <2>1. CASE UNCHANGED disk
    BY <2>1, UnwrittenKept
  <2>2. CASE \E k \in Job, Q \in SUBSET Request : QueueRun(k, Q)
    BY <1>1, <2>2
  <2>3. ASSUME NEW j \in Job, NEW k \in Job, Retry(j, k), disk' # disk
        PROVE  \E Q \in SUBSET Request : QueueRun(k, Q)
    <3>1. Failed(run[j]) \in SUBSET Request /\ QueueRun(k, Failed(run[j]))
      BY <2>3 DEF Retry, RetryFailed, RetrySame, Failed, Stored, Inv, TypeOK
    <3> QED BY <3>1
  <2>4. ASSUME NEW j \in Job, NEW r \in Run, Resume(j, r)
        PROVE  UNCHANGED disk
    BY <2>4 DEF Resume
  <2>5. ASSUME NEW r \in Run, PruneOld(r)
        PROVE  UNCHANGED disk
    BY <2>5 DEF PruneOld
  <2>6. ASSUME NEW j \in Job, Cancel(j)
        PROVE  UNCHANGED disk
    BY <2>6 DEF Cancel, Told, dirVars
  <2> QED BY <1>2, <2>1, <2>2, <2>3, <2>4, <2>5, <2>6 DEF Clicked
<1>3. ASSUME NEW j \in Job, Step(j)
      PROVE  Kept
  BY <1>3, StepKept
<1>4. CASE UNCHANGED disk
  BY <1>4, UnwrittenKept
<1>5. ASSUME NEW b \in DOMAIN batches, EndBatch(b)
      PROVE  UNCHANGED disk
  BY <1>5 DEF EndBatch, dirVars
<1>6. Shutdown \/ Restart \/ UNCHANGED vars => UNCHANGED disk
  BY DEF Shutdown, Told, Restart, vars, dirVars
<1>7. ASSUME NEW j \in Job, Cut(j)
      PROVE  Kept
  BY <1>7, CutKept
<1> QED BY <1>2, <1>3, <1>4, <1>5, <1>6, <1>7 DEF Next

(* What a run has made durable stays, whichever coordinator takes it over. *)
THEOREM NothingLost == Spec => ProgressKept
<1>1. Inv /\ [Next]_vars => [\A r \in Stored \ shared' :
                               LET m == disk[r]
                                   n == disk'[r] IN
                               /\ m.uploads \subseteq n.uploads
                               /\ m.input # 0 => n.input = m.input
                               /\ m.batch # 0 => n.batch = m.batch
                               /\ m.finalized \subseteq n.finalized
                               /\ \A q \in manifest[r] :
                                    m.outcomes[q] # "none" => n.outcomes[q] # "none"]_vars
  BY NextKept DEF Kept, Keeps
<1> QED BY <1>1, Invariant, PTL DEF Spec, ProgressKept
=============================================================================
