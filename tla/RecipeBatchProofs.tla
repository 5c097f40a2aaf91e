------------------------- MODULE RecipeBatchProofs -------------------------
(***************************************************************************)
(* More theorems about RecipeRun, for any runs, jobs, requests, faults and *)
(* bounds: what becomes of the requests in a Batch, of the results that    *)
(* were paid for, and of the files at the provider.                        *)
(*                                                                         *)
(* A second invariant, More, stands on Inv of RecipeRunProofs.  It follows *)
(* whose the input files and Batches are, which requests a run lays claim  *)
(* to until it has its results, and what a coordinator that cleans up has  *)
(* behind it.  Where users come in, a clause says so: some hold while      *)
(* nobody cancels, some while nobody shuts the application down.           *)
(***************************************************************************)
EXTENDS RecipeRunProofs

\* Results of a run with state m are dealt with.
Settled(r, m) == \A q \in manifest[r] : m.outcomes[q] = "ok" => q \in m.finalized

\* The phases of a run that is over and was not cancelled.
Closed == {"completed", "partial", "failed"}

\* Nobody signals a job for a reason that users do not give, and no directory
\* forgets its submission unless a user cancelled.
TokensFit ==
  /\ closing => "shutdown" \in Clicks
  /\ erased # {} => "cancel" \in Clicks
  /\ \A j \in Job : /\ token[j] = "user" => "cancel" \in Clicks
                    /\ token[j] = "shutdown" => closing

\* An input file was uploaded by one run.
OwnedBy(own, r, f) == f # 0 => f <= created /\ own[f] = r

InputsOwned(own) ==
  /\ \A r \in Run : OwnedBy(own, r, disk[r].input)
  /\ \A j \in Job : OwnedBy(own, run[j], mem[j].input)
  /\ \A b \in DOMAIN batches : OwnedBy(own, batches[b].run, batches[b].input)

Owned == \E own \in [File -> Run \cup {NoRun}] : InputsOwned(own)

\* A Batch has the requests of its run.
BatchesFit ==
  \A b \in DOMAIN batches :
    batches[b].requests = manifest[batches[b].run] /\ manifest[batches[b].run] # {}

\* The ID in a state of run r is that of a Batch of r, which has ended if its
\* results are there.
IdFits(r, m) ==
  m.batch # 0 => batches[m.batch].run = r /\ (Collected(m) => batches[m.batch].ended)

\* Only requests of the run have an outcome.
Known(r, m) == \A q \in Request : m.outcomes[q] # "none" => q \in manifest[r]

StateFits(r, m) == IdFits(r, m) /\ Known(r, m)

\* A coordinator's copy and the files it has to delete, by its place.
PlaceFits(m, place, t) ==
  /\ place \notin Working => m = NewState
  /\ place \notin {"cleanup", "abandon"} => t = {}
  /\ place \in {"cleanup", "abandon"} => m.phase = "cleaning_up"
  /\ place \in {"child", "recorded", "wake"} => m.phase = "installing"
  /\ place = "collect" => batches[m.batch].ended

\* A run that is over has its results, and has dealt with them.
RunEnds(d) == "cancel" \notin Clicks /\ d.phase \in Finished => Collected(d)

RunSettles(r, d) == "shutdown" \notin Clicks /\ d.phase \in Closed => Settled(r, d)

\* A coordinator that has its run to itself: no file that is on record is lost
\* from its copy, ...
FilesHeld(d, m, place, t) == place \in Later => d.cleanup \subseteq m.cleanup \cup t

\* ... it cleans up after it has the results and has dealt with them, ...
ResultsHeld(r, d, m, place, p) ==
  /\ place \in {"wake", "cleanup", "abandon"} => Collected(d) /\ Collected(m)
  /\ place = "wake" => /\ d.outcomes = m.outcomes /\ d.finalized = m.finalized
                       /\ p \notin ToFinalize(r, m)
  /\ place = "cleanup" /\ ~closing => Settled(r, d) /\ Settled(r, m)

\* ... and before that its run is not over.
Unfinished(m, place) == "cancel" \notin Clicks /\ place \in Unsettled => m.phase \notin Finished

RunMore(r) ==
  /\ StateFits(r, disk[r])
  /\ r \notin shared => RunEnds(disk[r]) /\ RunSettles(r, disk[r])

JobMore(j) ==
  /\ StateFits(run[j], mem[j])
  /\ PlaceFits(mem[j], pc[j], todo[j])
  /\ run[j] \notin shared =>
       /\ FilesHeld(disk[run[j]], mem[j], pc[j], todo[j])
       /\ ResultsHeld(run[j], disk[run[j]], mem[j], pc[j], paper[j])
       /\ Unfinished(mem[j], pc[j])

\* The requests of run r that may be, or come to be, in a Batch under way.
Claim(r) ==
  {q \in Request :
     IF manifest[r] # {} THEN q \in manifest[r] /\ ~Collected(disk[r])
     ELSE \E j \in Live : run[j] = r /\ q \in targets[j]}

ClaimsApart ==
  "cancel" \notin Clicks =>
    \A r, s \in Run \ shared : r # s => Claim(r) \cap Claim(s) = {}

More ==
  /\ TokensFit /\ Owned /\ BatchesFit
  /\ \A r \in Run : RunMore(r)
  /\ \A j \in Job : JobMore(j)
  /\ ClaimsApart

-----------------------------------------------------------------------------
(* The steps of a coordinator, as what they leave behind *)

\* What More says of a job j and its run, for what they may hold.
Right(j, d, m, place, t, p) ==
  /\ StateFits(run[j], d) /\ StateFits(run[j], m) /\ PlaceFits(m, place, t)
  /\ run[j] \notin shared =>
       /\ RunEnds(d) /\ RunSettles(run[j], d)
       /\ FilesHeld(d, m, place, t) /\ ResultsHeld(run[j], d, m, place, p)
       /\ Unfinished(m, place)

\* Job j writes d to its run's directory, keeps m, goes on to a place, and has
\* files t to delete and paper p to wait for.
Carries(j, d, m, place, t, p) ==
  /\ disk' = [disk EXCEPT ![run[j]] = d]
  /\ mem' = [mem EXCEPT ![j] = m]
  /\ pc' = [pc EXCEPT ![j] = place]
  /\ todo' = [todo EXCEPT ![j] = t]
  /\ paper' = [paper EXCEPT ![j] = p]

\* The files it knew of and that are still there are on record.
Retains(j, d, t) ==
  run[j] \notin shared => (disk[run[j]].cleanup \cup todo[j]) \cap files' \subseteq d.cleanup \cup t

Leaves(j, d, m, place, t, p) ==
  /\ Carries(j, d, m, place, t, p)
  /\ Right(j, d, m, place, t, p)'

\* A coordinator leaves what is right; one that is not cut keeps its files too.
Lands(j) == \E d, m, place, t, p : Leaves(j, d, m, place, t, p)

Proper(j) == \E d, m, place, t, p : Leaves(j, d, m, place, t, p) /\ Retains(j, d, t)

(* What More says of a coordinator and its run. *)
LEMMA OwnMore ==
  ASSUME Inv, More, NEW j \in Job, pc[j] # "none"
  PROVE  run[j] \in Run /\ Right(j, disk[run[j]], mem[j], pc[j], todo[j], paper[j])
<1>1. run[j] \in Run
  BY DEF Inv, JobFits
<1>2. JobMore(j) /\ RunMore(run[j])
  BY <1>1 DEF More
<1> QED BY <1>1, <1>2 DEF JobMore, RunMore, Right

(* A step that leaves manifests and Batches alone only has to write what is right. *)
LEMMA PlainProper ==
  ASSUME NEW j \in Job, NEW d, NEW m, NEW place, NEW t, NEW p, Carries(j, d, m, place, t, p),
         Right(j, d, m, place, t, p), Retains(j, d, t),
         UNCHANGED <<manifest, batches, run, shared, closing>>
  PROVE  Proper(j)
<1>1. Right(j, d, m, place, t, p)'
  BY DEF Right, StateFits, IdFits, Known, PlaceFits, RunEnds, RunSettles, Settled, FilesHeld,
         ResultsHeld, ToFinalize, Unfinished, Collected
<1> QED BY <1>1 DEF Proper, Leaves

(* A coordinator that ends leaves no copy. *)
LEMMA EndRight ==
  ASSUME NEW j \in Job, NEW d, StateFits(run[j], d),
         run[j] \notin shared => RunEnds(d) /\ RunSettles(run[j], d)
  PROVE  Right(j, d, NewState, "done", {}, NoPaper)
<1>1. StateFits(run[j], NewState)
  BY DEF StateFits, IdFits, Known, NewState
<1>2. PlaceFits(NewState, "done", {})
  BY DEF PlaceFits, Working
<1>3. FilesHeld(d, NewState, "done", {}) /\ ResultsHeld(run[j], d, NewState, "done", NoPaper)
  BY DEF FilesHeld, ResultsHeld, Later, Working
<1>4. Unfinished(NewState, "done")
  BY DEF Unfinished, Unsettled, Preparing, Awaiting
<1> QED BY <1>1, <1>2, <1>3, <1>4 DEF Right

(* One that goes on with what it has written holds what is on record. *)
LEMMA GotoRight ==
  ASSUME NEW j \in Job, NEW n, NEW place \in Working \ {"cleanup", "abandon"}, NEW p,
         StateFits(run[j], n), PlaceFits(n, place, {}),
         run[j] \notin shared =>
           /\ RunEnds(n) /\ RunSettles(run[j], n) /\ Unfinished(n, place)
           /\ place = "wake" => Collected(n) /\ p \notin ToFinalize(run[j], n)
  PROVE  Right(j, n, n, place, {}, p)
<1>1. FilesHeld(n, n, place, {})
  BY DEF FilesHeld
<1>2. run[j] \notin shared => ResultsHeld(run[j], n, n, place, p)
  BY DEF ResultsHeld
<1> QED BY <1>1, <1>2 DEF Right

(* One that begins to clean up has the files to delete from what it has written. *)
LEMMA CleanUpRight ==
  ASSUME NEW j \in Job, NEW n \in RunState, NEW place \in {"cleanup", "abandon"}, NEW c, NEW e,
         c = [n EXCEPT !.phase = "cleaning_up"], e = [c EXCEPT !.cleanup = {}],
         StateFits(run[j], n),
         run[j] \notin shared =>
           /\ Collected(n)
           /\ place = "cleanup" /\ ~closing => Settled(run[j], n)
  PROVE  Right(j, c, e, place, n.cleanup, NoPaper)
<1>1. /\ c.batch = n.batch /\ c.outcomes = n.outcomes /\ c.finalized = n.finalized
      /\ e.batch = n.batch /\ e.outcomes = n.outcomes /\ e.finalized = n.finalized
      /\ c.phase = "cleaning_up" /\ e.phase = "cleaning_up" /\ c.cleanup = n.cleanup
  BY DEF RunState
<1>2. StateFits(run[j], c) /\ StateFits(run[j], e)
  BY <1>1 DEF StateFits, IdFits, Known, Collected
<1>3. PlaceFits(e, place, n.cleanup)
  BY <1>1 DEF PlaceFits, Working, Place
<1>4. RunEnds(c) /\ RunSettles(run[j], c)
  BY <1>1 DEF RunEnds, RunSettles, Finished, Closed
<1>5. FilesHeld(c, e, place, n.cleanup) /\ Unfinished(e, place)
  BY <1>1 DEF FilesHeld, Unfinished, Unsettled, Preparing, Awaiting
<1>6. run[j] \notin shared => ResultsHeld(run[j], c, e, place, NoPaper)
  BY <1>1 DEF ResultsHeld, Collected, Settled
<1> QED BY <1>2, <1>3, <1>4, <1>5, <1>6 DEF Right

(* The same two, as steps. *)
LEMMA EndProper ==
  ASSUME NEW j \in Job, NEW d, NEW s, End(j, s), disk' = [disk EXCEPT ![run[j]] = d],
         StateFits(run[j], d), run[j] \notin shared => RunEnds(d) /\ RunSettles(run[j], d),
         Retains(j, d, {}), UNCHANGED <<manifest, batches, run, shared, closing>>
  PROVE  Proper(j)
<1>1. Carries(j, d, NewState, "done", {}, NoPaper)
  BY DEF Carries, End
<1> QED BY <1>1, EndRight, PlainProper

(* A step to another place with what was written. *)
LEMMA GotoProper ==
  ASSUME Inv, NEW j \in Job, NEW n, NEW place \in Working \ {"cleanup", "abandon"},
         Goto(j, n, place), NEW p, paper' = [paper EXCEPT ![j] = p],
         UNCHANGED todo, todo[j] = {},
         StateFits(run[j], n), PlaceFits(n, place, {}),
         run[j] \notin shared =>
           /\ RunEnds(n) /\ RunSettles(run[j], n) /\ Unfinished(n, place)
           /\ place = "wake" => Collected(n) /\ p \notin ToFinalize(run[j], n)
           /\ disk[run[j]].cleanup \subseteq n.cleanup,
         UNCHANGED <<manifest, batches, run, shared, closing>>
  PROVE  Proper(j)
<1>1. todo' = [todo EXCEPT ![j] = {}]
  BY DEF Inv, TypeOK
<1>2. Carries(j, n, n, place, {}, p)
  BY <1>1 DEF Carries, Goto
<1>3. Right(j, n, n, place, {}, p)
  BY GotoRight
<1>4. Retains(j, n, {})
  BY DEF Retains
<1> QED BY <1>2, <1>3, <1>4, PlainProper

(* A step to the cleanup. *)
LEMMA CleanUpProper ==
  ASSUME Inv, NEW j \in Job, NEW n \in RunState, NEW place \in {"cleanup", "abandon"},
         CleanUp(j, n, place), todo[j] = {}, StateFits(run[j], n),
         run[j] \notin shared =>
           /\ Collected(n)
           /\ place = "cleanup" /\ ~closing => Settled(run[j], n)
           /\ disk[run[j]].cleanup \subseteq n.cleanup,
         UNCHANGED <<manifest, batches, run, shared, closing>>
  PROVE  Proper(j)
<1>1. PICK c, e : c = [n EXCEPT !.phase = "cleaning_up"] /\ e = [c EXCEPT !.cleanup = {}]
  OBVIOUS
<1>2. Carries(j, c, e, place, n.cleanup, NoPaper)
  BY <1>1 DEF Carries, CleanUp
<1>3. Right(j, c, e, place, n.cleanup, NoPaper)
  BY <1>1, CleanUpRight
<1>4. Retains(j, c, n.cleanup)
  BY DEF Retains
<1> QED BY <1>2, <1>3, <1>4, PlainProper

(* A new phase changes nothing else. *)
LEMMA PhaseFits ==
  ASSUME NEW r, NEW m \in RunState, NEW x, NEW n, n = [m EXCEPT !.phase = x]
  PROVE  /\ n.phase = x /\ n.cleanup = m.cleanup
         /\ StateFits(r, m) => StateFits(r, n)
         /\ Collected(m) => Collected(n)
         /\ Collected(n) => Collected(m)
         /\ Settled(r, m) => Settled(r, n)
<1>1. /\ n.batch = m.batch /\ n.outcomes = m.outcomes /\ n.finalized = m.finalized
      /\ n.phase = x /\ n.cleanup = m.cleanup
  BY DEF RunState
<1> QED BY <1>1 DEF StateFits, IdFits, Known, Collected, Settled

(* What a coordinator holds, taken apart. *)
LEMMA Holds ==
  ASSUME Inv, More, NEW j \in Job, pc[j] # "none", NEW r, NEW D, NEW M,
         r = run[j], D = disk[r], M = mem[j]
  PROVE  /\ r \in Run /\ D \in RunState /\ M \in RunState /\ manifest[r] \subseteq Request
         /\ DirFits(r, D) /\ CopyFits(r, M, pc[j])
         /\ StateFits(r, D) /\ StateFits(r, M) /\ PlaceFits(M, pc[j], todo[j])
         /\ r \notin shared =>
              /\ RunEnds(D) /\ RunSettles(r, D)
              /\ FilesHeld(D, M, pc[j], todo[j]) /\ ResultsHeld(r, D, M, pc[j], paper[j])
              /\ Unfinished(M, pc[j])
  BY Own, OwnMore DEF Right

(* A submission goes on with a state that has no results and whose run is not over. *)
LEMMA SubmitRight ==
  ASSUME NEW j \in Job, NEW Q \in SUBSET Request, NEW n \in RunState, NEW w, NEW place, NEW p,
         place = NextPlace(Q, n),
         w = IF place \in {"upload", "file"} THEN [n EXCEPT !.phase = "uploading"] ELSE n,
         StateFits(run[j], n), ~Collected(n), manifest[run[j]] \subseteq Request,
         run[j] \notin shared => ("cancel" \notin Clicks => n.phase \notin Finished)
  PROVE  /\ place \in Working \ {"cleanup", "abandon"} /\ w.cleanup = n.cleanup
         /\ Right(j, w, w, place, {}, p)
<1>1. place \in {"upload", "file", "ready", "reconcile", "poll"} /\ w.phase \in {n.phase, "uploading"}
  BY Submission
<1>2. w.cleanup = n.cleanup /\ StateFits(run[j], w) /\ ~Collected(w) /\ w.outcomes = n.outcomes
  BY PhaseFits, Submission
<1>3. place \in Working \ {"cleanup", "abandon", "wake"}
  BY <1>1 DEF Working, Place
<1>4. PlaceFits(w, place, {})
  BY <1>1, <1>3 DEF PlaceFits
<1>5. run[j] \notin shared => RunEnds(w) /\ Unfinished(w, place)
  BY <1>1 DEF RunEnds, Unfinished, Finished
<1>6. RunSettles(run[j], w)
  <2>1. \A q \in manifest[run[j]] : w.outcomes[q] # "ok"
    BY <1>2 DEF Collected
  <2> QED BY <2>1 DEF RunSettles, Settled
<1> QED BY <1>2, <1>3, <1>4, <1>5, <1>6, GotoRight

(* _run_coordinator begins: a run that has its results goes on to install them, *)
(* or to clean up if they are dealt with, and one that has none is not over. *)
LEMMA StartMore ==
  ASSUME Inv, More, NEW j \in Job, Start(j)
  PROVE  Proper(j)
<1>0. PICK r, D, M : r = run[j] /\ D = disk[r] /\ M = mem[j]
  OBVIOUS
<1>1. pc[j] = "queued" /\ UNCHANGED <<manifest, batches, run, shared, closing>>
  BY DEF Start, Elsewhere, remVars, envVars
<1>2. /\ r \in Run /\ D \in RunState /\ manifest[r] \subseteq Request /\ DirFits(r, D)
      /\ StateFits(r, D) /\ PlaceFits(M, "queued", todo[j])
      /\ r \notin shared => RunEnds(D) /\ RunSettles(r, D)
  BY <1>0, <1>1, Holds
<1>3. todo[j] = {}
  BY <1>2 DEF PlaceFits
<1>4. CASE manifest[r] = {} /\ Goto(j, [D EXCEPT !.phase = "snapshotting"], "snapshot")
           /\ UNCHANGED <<paper, todo>>
  <2>1. PICK n : n = [D EXCEPT !.phase = "snapshotting"]
    OBVIOUS
  <2>2. n.phase = "snapshotting" /\ n.cleanup = D.cleanup /\ StateFits(r, n)
    BY <1>2, <2>1, PhaseFits
  <2>3. /\ "snapshot" \in Working \ {"cleanup", "abandon"} /\ PlaceFits(n, "snapshot", {})
        /\ RunEnds(n) /\ RunSettles(r, n) /\ Unfinished(n, "snapshot")
    BY <2>2 DEF Working, Place, PlaceFits, RunEnds, RunSettles, Finished, Closed, Unfinished
  <2>4. PICK p : p = paper[j]
    OBVIOUS
  <2>5. paper' = [paper EXCEPT ![j] = p]
    BY <1>4, <2>4 DEF Inv, TypeOK
  <2> QED BY <1>0, <1>1, <1>3, <1>4, <2>1, <2>2, <2>3, <2>5, GotoProper
<1>5. CASE ~Collected(D) /\ Submit(j, manifest[r], D) /\ UNCHANGED <<paper, todo>>
  <2>1. PICK p, w, place :
          /\ p = paper[j] /\ place = NextPlace(manifest[r], D)
          /\ w = IF place \in {"upload", "file"} THEN [D EXCEPT !.phase = "uploading"] ELSE D
    OBVIOUS
  <2>2. "cancel" \notin Clicks /\ r \notin shared => D.phase \notin Finished
    BY <1>2, <1>5 DEF RunEnds
  <2>3. w.cleanup = D.cleanup /\ Right(j, w, w, place, {}, p)
    BY <1>0, <1>2, <1>5, <2>1, <2>2, SubmitRight
  <2>4. Carries(j, w, w, place, {}, p)
    BY <1>3, <1>5, <2>1 DEF Carries, Submit, Goto, Inv, TypeOK
  <2>5. Retains(j, w, {})
    BY <1>0, <1>3, <2>3 DEF Retains
  <2> QED BY <1>1, <2>3, <2>4, <2>5, PlainProper
<1>6. CASE Collected(D) /\ Install(j, D)
  <2>1. PICK p, n : /\ n = [D EXCEPT !.phase = "installing"] /\ Goto(j, n, "child")
                    /\ paper' = [paper EXCEPT ![j] = p] /\ UNCHANGED todo
    BY <1>6 DEF Install
  <2>2. n.phase = "installing" /\ n.cleanup = D.cleanup /\ StateFits(r, n)
    BY <1>2, <2>1, PhaseFits
  <2>3. /\ "child" \in Working \ {"cleanup", "abandon"} /\ PlaceFits(n, "child", {})
        /\ RunEnds(n) /\ RunSettles(r, n) /\ Unfinished(n, "child")
    BY <2>2 DEF Working, Place, PlaceFits, RunEnds, RunSettles, Finished, Closed, Unfinished
  <2> QED BY <1>0, <1>1, <1>3, <2>1, <2>2, <2>3, GotoProper
<1>7. CASE Collected(D) /\ ToFinalize(r, D) = {} /\ CleanUp(j, D, "cleanup")
  <2>1. Settled(r, D)
    BY <1>7 DEF ToFinalize, Settled
  <2> QED BY <1>0, <1>1, <1>2, <1>3, <1>7, <2>1, CleanUpProper
<1> QED BY <1>0, <1>4, <1>5, <1>6, <1>7 DEF Start

(* _prepare_manifest: the manifest of a run that has no results yet. *)
LEMMA SnapshotMore ==
  ASSUME Inv, More, NEW j \in Job, Snapshot(j)
  PROVE  Proper(j)
<1>0. PICK r, D, M : r = run[j] /\ D = disk[r] /\ M = mem[j]
  OBVIOUS
<1>1. /\ pc[j] = "snapshot" /\ UNCHANGED <<batches, run, shared, closing, paper, todo>>
      /\ manifest' = [manifest EXCEPT ![r] = targets[j]] /\ Submit(j, targets[j], D)
  BY <1>0 DEF Snapshot, Elsewhere, remVars, envVars
<1>2. /\ r \in Run /\ D \in RunState /\ DirFits(r, D) /\ StateFits(r, D)
      /\ PlaceFits(M, "snapshot", todo[j])
      /\ r \notin shared => RunEnds(D)
  BY <1>0, <1>1, Holds
<1>3. todo[j] = {} /\ targets[j] \in SUBSET Request /\ manifest'[r] = targets[j] /\ run'[j] = r
  BY <1>0, <1>1, <1>2 DEF PlaceFits, Inv, TypeOK
<1>4. manifest[r] = {} /\ ~Collected(D) /\ D.batch = 0
  BY <1>0, <1>1, <1>2 DEF Inv, JobFits, DirFits
<1>5. PICK p, w, place :
        /\ p = paper[j] /\ place = NextPlace(targets[j], D)
        /\ w = IF place \in {"upload", "file"} THEN [D EXCEPT !.phase = "uploading"] ELSE D
  OBVIOUS
<1>6. /\ w.batch = 0 /\ w.outcomes = D.outcomes /\ w.cleanup = D.cleanup
      /\ w.phase \in {D.phase, "uploading"}
      /\ place \in {"upload", "file", "ready", "reconcile", "poll"}
  BY <1>2, <1>3, <1>4, <1>5, Submission, PhaseFits
<1>7. ~Collected(w) /\ StateFits(r, w)'
  BY <1>4, <1>6 DEF StateFits, IdFits, Known, Collected
<1>8. PlaceFits(w, place, {})'
  BY <1>6 DEF PlaceFits, Working, Place
<1>9. r \notin shared => RunEnds(w)' /\ Unfinished(w, place)'
  BY <1>2, <1>4, <1>6 DEF RunEnds, Unfinished, Finished, Collected
<1>10. (RunSettles(r, w) /\ FilesHeld(w, w, place, {}) /\ ResultsHeld(r, w, w, place, p))'
  <2>1. \A q \in manifest'[r] : w.outcomes[q] # "ok"
    BY <1>3, <1>7 DEF Collected
  <2> QED BY <1>6, <2>1 DEF RunSettles, Settled, FilesHeld, ResultsHeld
<1>11. Right(j, w, w, place, {}, p)'
  BY <1>1, <1>3, <1>7, <1>8, <1>9, <1>10 DEF Right
<1>12. Carries(j, w, w, place, {}, p)
  BY <1>1, <1>3, <1>5 DEF Carries, Submit, Goto, Inv, TypeOK
<1>13. Retains(j, w, {})
  BY <1>0, <1>3, <1>6 DEF Retains
<1> QED BY <1>11, <1>12, <1>13 DEF Proper, Leaves

(* A coordinator between two calls, up to the end of its Batch: it has no results, *)
(* its run is not over, and what is on record is in its copy. *)
LEMMA HoldsUnsettled ==
  ASSUME Inv, More, NEW j \in Job, pc[j] \in Unsettled \cup {"child", "recorded"},
         NEW r, NEW D, NEW M, r = run[j], D = disk[r], M = mem[j]
  PROVE  /\ r \in Run /\ D \in RunState /\ M \in RunState /\ manifest[r] \subseteq Request
         /\ StateFits(r, D) /\ StateFits(r, M) /\ manifest[r] # {} /\ todo[j] = {}
         /\ pc[j] \in Unsettled => ~Collected(M)
         /\ r \notin shared => /\ RunEnds(D) /\ RunSettles(r, D) /\ D.cleanup \subseteq M.cleanup
                               /\ Unfinished(M, pc[j])
<1>1. /\ pc[j] # "none" /\ pc[j] \in Later /\ pc[j] \notin {"cleanup", "abandon"}
  BY DEF Unsettled, Preparing, Awaiting, Later, Working, Place
<1> QED BY <1>1, Holds DEF CopyFits, PlaceFits, FilesHeld

(* A state without results, written as it goes on. *)
LEMMA NoResults ==
  ASSUME NEW r \in Run, NEW n, ~Collected(n), manifest[r] \subseteq Request
  PROVE  RunSettles(r, n)
<1>1. \A q \in manifest[r] : n.outcomes[q] # "ok"
  BY DEF Collected
<1> QED BY <1>1 DEF RunSettles, Settled

(* The two loops that look at the token: only a user's cancellation is an end. *)
LEMMA StoppedMore ==
  ASSUME Inv, More, NEW j \in Job, Stopped(j)
  PROVE  Proper(j)
<1>0. PICK r, D, M : r = run[j] /\ D = disk[r] /\ M = mem[j]
  OBVIOUS
<1>1. /\ pc[j] \in {"snapshot", "upload"} /\ Stop(j)
      /\ UNCHANGED <<manifest, batches, run, shared, closing>>
  BY DEF Stopped, Elsewhere, remVars, envVars
<1>2. /\ r \in Run /\ D \in RunState /\ StateFits(r, D) /\ PlaceFits(M, pc[j], todo[j])
      /\ r \notin shared => RunEnds(D) /\ RunSettles(r, D)
  BY <1>0, <1>1, Holds
<1>3. todo[j] = {}
  BY <1>1, <1>2 DEF PlaceFits
<1>4. CASE Marks(j) /\ disk' = [disk EXCEPT ![r] = [D EXCEPT !.phase = "cancelled"]]
  <2>1. PICK n : n = [D EXCEPT !.phase = "cancelled"]
    OBVIOUS
  <2>2. n.phase = "cancelled" /\ n.cleanup = D.cleanup /\ StateFits(r, n)
    BY <1>2, <2>1, PhaseFits
  <2>3. RunEnds(n) /\ RunSettles(r, n)
    BY <1>4, <2>2 DEF Marks, More, TokensFit, RunEnds, RunSettles, Closed
  <2>4. Retains(j, n, {})
    BY <1>0, <1>3, <2>2 DEF Retains
  <2> QED BY <1>0, <1>1, <1>4, <2>1, <2>2, <2>3, <2>4, EndProper DEF Stop, StopWith
<1>5. CASE disk' = [disk EXCEPT ![r] = D]
  <2>1. Retains(j, D, {})
    BY <1>0, <1>3 DEF Retains
  <2> QED BY <1>0, <1>1, <1>2, <1>5, <2>1, EndProper DEF Stop, StopWith
<1> QED BY <1>0, <1>1, <1>4, <1>5 DEF Stop, StopWith

(* A file is uploaded for a paper: its ID is on record with it. *)
LEMMA UploadMore ==
  ASSUME Inv, More, NEW j \in Job, Upload(j)
  PROVE  Proper(j)
<1>0. PICK r, D, M : r = run[j] /\ D = disk[r] /\ M = mem[j]
  OBVIOUS
<1>1. /\ pc[j] = "upload" /\ pc[j] \in Unsettled
      /\ UNCHANGED <<manifest, batches, run, shared, closing, paper, todo>>
  BY DEF Upload, Elsewhere, envVars, Unsettled, Preparing
<1>2. /\ r \in Run /\ M \in RunState /\ manifest[r] \in SUBSET Request /\ StateFits(r, M)
      /\ todo[j] = {} /\ ~Collected(M)
      /\ r \notin shared => D.cleanup \subseteq M.cleanup /\ Unfinished(M, "upload")
  BY <1>0, <1>1, HoldsUnsettled
<1>3. PICK p, n : /\ p \in ToUpload(manifest[r], M)
                  /\ n = [M EXCEPT !.uploads = M.uploads \cup {p}, !.cleanup = M.cleanup \cup {created + 1}]
                  /\ Submit(j, manifest[r], n)
  BY <1>0 DEF Upload
<1>4. created + 1 \in File /\ p \in Paper
  BY <1>2, <1>3, PapersOfRequests, BoundsNat DEF ToUpload, Upload, Store, File, Inv, TypeOK
<1>5. M.uploads \cup {p} \in SUBSET Paper /\ M.cleanup \cup {created + 1} \in SUBSET File
  BY <1>2, <1>4 DEF RunState
<1>6. /\ n \in RunState /\ n.phase = M.phase /\ n.outcomes = M.outcomes /\ n.batch = M.batch
      /\ M.cleanup \subseteq n.cleanup
  BY <1>2, <1>3, <1>5 DEF RunState
<1>7. StateFits(r, n) /\ ~Collected(n)
  BY <1>2, <1>6 DEF StateFits, IdFits, Known, Collected
<1>8. "cancel" \notin Clicks /\ r \notin shared => n.phase \notin Finished
  BY <1>1, <1>2, <1>6 DEF Unfinished
<1>9. PICK x, w, place :
        /\ x = paper[j] /\ place = NextPlace(manifest[r], n)
        /\ w = IF place \in {"upload", "file"} THEN [n EXCEPT !.phase = "uploading"] ELSE n
  OBVIOUS
<1>10. w.cleanup = n.cleanup /\ Right(j, w, w, place, {}, x)
  BY <1>0, <1>2, <1>6, <1>7, <1>8, <1>9, SubmitRight
<1>11. Carries(j, w, w, place, {}, x)
  BY <1>0, <1>1, <1>2, <1>3, <1>9 DEF Carries, Submit, Goto, Inv, TypeOK
<1>12. Retains(j, w, {})
  BY <1>0, <1>2, <1>6, <1>10 DEF Retains
<1> QED BY <1>1, <1>10, <1>11, <1>12, PlainProper

(* The request file, the intent to submit, the ID of the Batch, and the polls: the *)
(* coordinator goes on with its own copy. *)
LEMMA OnwardMore ==
  ASSUME Inv, More, NEW j \in Job, UploadFile(j) \/ Attempt(j) \/ Created(j) \/ Retrieve(j)
  PROVE  Proper(j)
<1>0. PICK r, D, M, p : r = run[j] /\ D = disk[r] /\ M = mem[j] /\ p = paper[j]
  OBVIOUS
<1>1. /\ pc[j] \in {"file", "ready", "accepted", "retrieve"} /\ pc[j] \in Unsettled
      /\ UNCHANGED <<manifest, batches, run, shared, closing, paper, todo>>
  BY DEF UploadFile, Attempt, Created, Retrieve, Elsewhere, remVars, envVars, Unsettled, Preparing,
         Awaiting
<1>2. /\ r \in Run /\ M \in RunState /\ manifest[r] \subseteq Request /\ StateFits(r, M)
      /\ todo[j] = {} /\ ~Collected(M)
      /\ r \notin shared => D.cleanup \subseteq M.cleanup /\ Unfinished(M, pc[j])
  BY <1>0, <1>1, HoldsUnsettled
<1>3. paper' = [paper EXCEPT ![j] = p]
  BY <1>0, <1>1 DEF Inv, TypeOK
<1>4. ASSUME NEW n, NEW place \in {"ready", "create", "poll", "collect"}, Goto(j, n, place),
             n.batch = M.batch, n.outcomes = M.outcomes, M.cleanup \subseteq n.cleanup,
             n.phase \in {M.phase, "ready", "attempted", "collecting", "in_progress"},
             place = "collect" => batches[n.batch].ended
      PROVE  Proper(j)
  <2>1. StateFits(r, n) /\ ~Collected(n)
    BY <1>2, <1>4 DEF StateFits, IdFits, Known, Collected
  <2>2. place \in Working \ {"cleanup", "abandon"} /\ PlaceFits(n, place, {})
    BY <1>4 DEF PlaceFits, Working, Place
  <2>3. r \notin shared => RunEnds(n) /\ Unfinished(n, place)
    BY <1>1, <1>2, <1>4 DEF RunEnds, Unfinished, Finished
  <2>4. RunSettles(r, n)
    BY <1>2, <2>1, NoResults
  <2> QED BY <1>0, <1>1, <1>2, <1>3, <1>4, <2>1, <2>2, <2>3, <2>4, GotoProper
<1>5. CASE UploadFile(j)
  <2>1. PICK n : /\ n = [M EXCEPT !.input = created + 1, !.cleanup = M.cleanup \cup {created + 1},
                                  !.phase = "ready"]
                 /\ Goto(j, n, "ready")
    BY <1>0, <1>5 DEF UploadFile
  <2>2. n.batch = M.batch /\ n.outcomes = M.outcomes /\ M.cleanup \subseteq n.cleanup /\ n.phase = "ready"
    BY <1>2, <2>1 DEF RunState
  <2> QED BY <1>4, <2>1, <2>2
<1>6. CASE Attempt(j)
  <2>1. PICK n : n = [M EXCEPT !.phase = "attempted"] /\ Goto(j, n, "create")
    BY <1>0, <1>6 DEF Attempt
  <2>2. n.batch = M.batch /\ n.outcomes = M.outcomes /\ n.cleanup = M.cleanup /\ n.phase = "attempted"
    BY <1>2, <2>1 DEF RunState
  <2> QED BY <1>4, <2>1, <2>2
<1>7. CASE Created(j)
  <2>1. Goto(j, M, "poll")
    BY <1>0, <1>7 DEF Created
  <2> QED BY <1>4, <2>1
<1>8. CASE Retrieve(j)
  <2>1. CASE batches[M.batch].ended /\ Goto(j, [M EXCEPT !.phase = "collecting"], "collect")
    <3>1. PICK n : n = [M EXCEPT !.phase = "collecting"]
      OBVIOUS
    <3>2. n.batch = M.batch /\ n.outcomes = M.outcomes /\ n.cleanup = M.cleanup /\ n.phase = "collecting"
      BY <1>2, <3>1 DEF RunState
    <3> QED BY <1>4, <2>1, <3>1, <3>2
  <2>2. CASE Goto(j, [M EXCEPT !.phase = "in_progress"], "poll")
    <3>1. PICK n : n = [M EXCEPT !.phase = "in_progress"]
      OBVIOUS
    <3>2. n.batch = M.batch /\ n.outcomes = M.outcomes /\ n.cleanup = M.cleanup /\ n.phase = "in_progress"
      BY <1>2, <3>1 DEF RunState
    <3> QED BY <1>4, <2>2, <3>1, <3>2
  <2>3. CASE Goto(j, M, "poll")
    BY <1>4, <2>3
  <2> QED BY <1>0, <1>8, <2>1, <2>2, <2>3 DEF Retrieve
<1> QED BY <1>5, <1>6, <1>7, <1>8

\* Batches are neither lost nor changed but for their end, manifests stay.
Grows ==
  /\ \A b \in DOMAIN batches :
       /\ b \in DOMAIN batches'
       /\ batches'[b].run = batches[b].run /\ batches'[b].input = batches[b].input
       /\ batches'[b].requests = batches[b].requests
       /\ batches[b].ended => batches'[b].ended
  /\ \A r \in Run : manifest[r] # {} => manifest'[r] = manifest[r]
  /\ created <= created'

(* An accepted submission is one Batch more. *)
LEMMA AcceptedMore ==
  ASSUME Inv, NEW j \in Job, run[j] \in Run, mem[j].input \in File, manifest[run[j]] \subseteq Request,
         Accept(j)
  PROVE  /\ Len(batches) \in Nat
         /\ DOMAIN batches' = DOMAIN batches \cup {Len(batches) + 1}
         /\ \A b \in DOMAIN batches : batches'[b] = batches[b]
         /\ batches'[Len(batches) + 1].run = run[j]
         /\ batches'[Len(batches) + 1].input = mem[j].input
         /\ batches'[Len(batches) + 1].requests = manifest[run[j]]
<1> DEFINE new == [run |-> run[j], input |-> mem[j].input, requests |-> manifest[run[j]],
                   ended |-> FALSE, ok |-> {}, output |-> 0]
<1>1. /\ new \in Batch /\ new.run = run[j] /\ new.input = mem[j].input
      /\ new.requests = manifest[run[j]]
  BY DEF Batch
<1>2. batches \in Seq(Batch) /\ batches' = Append(batches, new)
  BY DEF Inv, TypeOK, Accept
<1> HIDE DEF new
<1>3. batches' \in Seq(Batch) /\ Len(batches') = Len(batches) + 1 /\ Len(batches) \in Nat
  BY <1>1, <1>2
<1>4. /\ DOMAIN batches' = DOMAIN batches \cup {Len(batches) + 1}
      /\ batches'[Len(batches) + 1] = new
      /\ \A b \in DOMAIN batches : batches'[b] = batches[b]
  BY <1>1, <1>2, <1>3
<1> QED BY <1>1, <1>3, <1>4

(* What a state says of its Batch and of its requests stays so. *)
LEMMA StateFitsOn ==
  ASSUME Inv, Grows, NEW r \in Run, NEW m \in RunState, Sound(m), StateFits(r, m)
  PROVE  StateFits(r, m)'
<1>1. m.batch # 0 => m.batch \in DOMAIN batches
  BY BoundsNat DEF Sound, RunState, Inv, TypeOK
<1>2. IdFits(r, m)'
  BY <1>1 DEF StateFits, IdFits, Grows, Collected
<1>3. Known(r, m)'
  BY DEF StateFits, Known, Grows
<1> QED BY <1>2, <1>3 DEF StateFits

(* A Batch is added: the call returned, or it raised and may have been accepted. *)
LEMMA CreateMore ==
  ASSUME Inv, More, NEW j \in Job, Create(j) \/ CreateFails(j)
  PROVE  Proper(j) /\ Grows
<1>0. PICK r, D, M, p : r = run[j] /\ D = disk[r] /\ M = mem[j] /\ p = paper[j]
  OBVIOUS
<1>1. /\ pc[j] = "create" /\ pc[j] \in Unsettled
      /\ UNCHANGED <<manifest, run, shared, closing, created, files>>
  BY DEF Create, CreateFails, Elsewhere, dirVars, envVars, Unsettled, Preparing
<1>2. /\ r \in Run /\ D \in RunState /\ M \in RunState /\ manifest[r] \subseteq Request
      /\ StateFits(r, D) /\ StateFits(r, M) /\ todo[j] = {} /\ ~Collected(M)
      /\ r \notin shared => /\ RunEnds(D) /\ RunSettles(r, D) /\ D.cleanup \subseteq M.cleanup
                            /\ Unfinished(M, "create")
  BY <1>0, <1>1, HoldsUnsettled
<1>3. Sound(D) /\ Sound(M) /\ M.batch = 0 /\ M.input # 0
  <2>1. pc[j] # "none"
    BY <1>1
  <2> QED BY <1>0, <1>1, <2>1, Holds DEF DirFits, CopyFits, Preparing
<1>4. Accept(j) \/ UNCHANGED batches
  BY DEF Create, CreateFails
<1>5. Accept(j) =>
        /\ Len(batches) \in Nat
        /\ DOMAIN batches' = DOMAIN batches \cup {Len(batches) + 1}
        /\ \A b \in DOMAIN batches : batches'[b] = batches[b]
        /\ batches'[Len(batches) + 1].run = r
  <2>1. M.input \in File
    BY <1>2, <1>3 DEF RunState
  <2> QED BY <1>0, <1>2, <2>1, AcceptedMore
<1>6. Grows
  BY <1>1, <1>4, <1>5 DEF Grows, Inv, TypeOK
<1>7. StateFits(r, D)' /\ run'[j] = r /\ shared' = shared /\ closing' = closing /\ manifest' = manifest
  BY <1>0, <1>1, <1>2, <1>3, <1>6, StateFitsOn
<1>8. CASE Create(j)
  <2>1. PICK n : n = [M EXCEPT !.batch = Len(batches) + 1]
    OBVIOUS
  <2>2. /\ n.batch = Len(batches) + 1 /\ n.outcomes = M.outcomes /\ n.cleanup = M.cleanup
        /\ n.phase = M.phase
    BY <1>2, <2>1 DEF RunState
  <2>3. StateFits(r, n)'
    <3>1. Accept(j) /\ ~Collected(n)
      BY <1>2, <1>8, <2>2 DEF Create, Collected
    <3>2. IdFits(r, n)'
      BY <1>5, <2>2, <3>1 DEF IdFits, Collected
    <3>3. Known(r, n)'
      BY <2>2, <3>1 DEF Known, Collected
    <3> QED BY <3>2, <3>3 DEF StateFits
  <2>4. PlaceFits(n, "accepted", {})'
    BY DEF PlaceFits, Working, Place
  <2>5. r \notin shared => (FilesHeld(D, n, "accepted", {}) /\ ResultsHeld(r, D, n, "accepted", p)
                            /\ Unfinished(n, "accepted") /\ RunEnds(D) /\ RunSettles(r, D))'
    BY <1>1, <1>2, <2>2
       DEF FilesHeld, ResultsHeld, Unfinished, RunEnds, RunSettles, Settled, Collected
  <2>6. Right(j, D, n, "accepted", {}, p)'
    BY <1>7, <2>3, <2>4, <2>5 DEF Right
  <2>7. Carries(j, D, n, "accepted", {}, p)
    BY <1>0, <1>2, <1>8, <2>1 DEF Carries, Create, dirVars, Inv, TypeOK
  <2>8. Retains(j, D, {})
    BY <1>0, <1>2 DEF Retains
  <2> QED BY <1>6, <2>6, <2>7, <2>8 DEF Proper, Leaves
<1>9. CASE CreateFails(j)
  <2>1. PICK n : n = [M EXCEPT !.phase = "uncertain"]
    OBVIOUS
  <2>2. n.phase = "uncertain" /\ n.cleanup = M.cleanup /\ ~Collected(n) /\ n.batch = 0
        /\ n.outcomes = M.outcomes
    BY <1>2, <1>3, <2>1 DEF RunState, Collected
  <2>3. StateFits(r, n)' /\ RunEnds(n)' /\ RunSettles(r, n)'
    BY <2>2 DEF StateFits, IdFits, Known, Collected, RunEnds, RunSettles, Finished, Closed
  <2>4. Right(j, n, NewState, "done", {}, NoPaper)'
    <3>1. StateFits(r, NewState)'
      BY DEF StateFits, IdFits, Known, NewState
    <3>2. PlaceFits(NewState, "done", {})'
      BY DEF PlaceFits, Working
    <3>3. (FilesHeld(n, NewState, "done", {}) /\ ResultsHeld(r, n, NewState, "done", NoPaper)
           /\ Unfinished(NewState, "done"))'
      BY DEF FilesHeld, ResultsHeld, Later, Working, Unfinished, Unsettled, Preparing, Awaiting
    <3> QED BY <1>7, <2>3, <3>1, <3>2, <3>3 DEF Right
  <2>5. Carries(j, n, NewState, "done", {}, NoPaper)
    BY <1>0, <1>9, <2>1 DEF Carries, CreateFails, End
  <2>6. Retains(j, n, {})
    BY <1>0, <1>2, <2>2 DEF Retains
  <2> QED BY <1>6, <2>4, <2>5, <2>6 DEF Proper, Leaves
<1> QED BY <1>8, <1>9

(* A Batch found by the input file of a run is a Batch of that run. *)
LEMMA ReconcileMore ==
  ASSUME Inv, More, NEW j \in Job, Reconcile(j)
  PROVE  Proper(j)
<1>0. PICK r, D, M, p : r = run[j] /\ D = disk[r] /\ M = mem[j] /\ p = paper[j]
  OBVIOUS
<1>1. /\ pc[j] = "reconcile" /\ pc[j] \in Unsettled
      /\ UNCHANGED <<manifest, batches, run, shared, closing>>
  BY DEF Reconcile, Elsewhere, remVars, envVars, Unsettled
<1>2. /\ r \in Run /\ M \in RunState /\ manifest[r] \subseteq Request /\ StateFits(r, M)
      /\ todo[j] = {} /\ ~Collected(M)
      /\ r \notin shared => D.cleanup \subseteq M.cleanup /\ Unfinished(M, "reconcile")
  BY <1>0, <1>1, HoldsUnsettled
<1>3. M.input # 0
  <2>1. pc[j] # "none"
    BY <1>1
  <2> QED BY <1>0, <1>1, <2>1, Holds DEF CopyFits
<1>4. CASE \E b \in DOMAIN batches : /\ batches[b].input = M.input
                                     /\ Goto(j, [M EXCEPT !.batch = b], "poll")
                                     /\ UNCHANGED <<paper, todo>>
  <2>1. PICK b, n : /\ b \in DOMAIN batches /\ batches[b].input = M.input
                    /\ n = [M EXCEPT !.batch = b] /\ Goto(j, n, "poll")
                    /\ UNCHANGED <<paper, todo>>
    BY <1>4
  <2>2. batches[b].run = r
    <3>1. PICK own : InputsOwned(own)
      BY DEF More, Owned
    <3> QED BY <1>0, <1>3, <2>1, <3>1 DEF InputsOwned, OwnedBy
  <2>3. n.batch = b /\ n.outcomes = M.outcomes /\ n.cleanup = M.cleanup /\ n.phase = M.phase
    BY <1>2, <2>1 DEF RunState
  <2>4. StateFits(r, n) /\ ~Collected(n)
    BY <1>2, <2>2, <2>3 DEF StateFits, IdFits, Known, Collected
  <2>5. "poll" \in Working \ {"cleanup", "abandon"} /\ PlaceFits(n, "poll", {})
    BY DEF PlaceFits, Working, Place
  <2>6. r \notin shared => RunEnds(n) /\ Unfinished(n, "poll")
    BY <1>1, <1>2, <2>3 DEF RunEnds, Unfinished
  <2>7. RunSettles(r, n)
    BY <1>2, <2>4, NoResults
  <2>8. paper' = [paper EXCEPT ![j] = p]
    BY <1>0, <2>1 DEF Inv, TypeOK
  <2> QED BY <1>0, <1>1, <1>2, <2>1, <2>3, <2>4, <2>5, <2>6, <2>7, <2>8, GotoProper
<1>5. CASE /\ disk' = [disk EXCEPT ![r] = [M EXCEPT !.phase = "uncertain"]]
           /\ End(j, Verdict(j, "failed"))
  <2>1. PICK n, s : n = [M EXCEPT !.phase = "uncertain"] /\ s = Verdict(j, "failed")
    OBVIOUS
  <2>2. n.phase = "uncertain" /\ n.cleanup = M.cleanup /\ StateFits(r, n)
    BY <1>2, <2>1, PhaseFits
  <2>3. RunEnds(n) /\ RunSettles(r, n)
    BY <2>2 DEF RunEnds, RunSettles, Finished, Closed
  <2>4. Retains(j, n, {})
    BY <1>0, <1>2, <2>2 DEF Retains
  <2> QED BY <1>0, <1>1, <1>5, <2>1, <2>2, <2>3, <2>4, EndProper
<1>6. CASE Cardinality({b \in DOMAIN batches : batches[b].input = M.input}) = 1
  <2> DEFINE matches == {b \in DOMAIN batches : batches[b].input = M.input}
  <2>1. /\ Goto(j, [M EXCEPT !.batch = CHOOSE b \in matches : TRUE], "poll")
        /\ UNCHANGED <<paper, todo>>
    BY <1>0, <1>6 DEF Reconcile
  <2>2. matches # {}
    BY <1>6, FS_EmptySet
  <2>3. PICK b \in matches : b = CHOOSE x \in matches : TRUE
    BY <2>2
  <2> QED BY <1>4, <2>1, <2>3
<1> QED BY <1>0, <1>5, <1>6 DEF Reconcile

(* A shutdown detaches, and a poll that goes on has only been told of the token. *)
LEMMA PollMore ==
  ASSUME Inv, More, NEW j \in Job, Poll(j)
  PROVE  Proper(j)
<1>0. PICK r, D, M, p : r = run[j] /\ D = disk[r] /\ M = mem[j] /\ p = paper[j]
  OBVIOUS
<1>1. /\ pc[j] = "poll" /\ pc[j] \in Unsettled
      /\ UNCHANGED <<disk, manifest, batches, run, shared, closing>>
  BY DEF Poll, Elsewhere, dirVars, remVars, envVars, Unsettled, Awaiting
<1>2. /\ r \in Run /\ manifest[r] \subseteq Request /\ StateFits(r, D) /\ StateFits(r, M)
      /\ todo[j] = {}
      /\ r \notin shared => /\ RunEnds(D) /\ RunSettles(r, D) /\ D.cleanup \subseteq M.cleanup
                            /\ Unfinished(M, "poll")
  BY <1>0, <1>1, HoldsUnsettled
<1>3. disk' = [disk EXCEPT ![r] = D] /\ Retains(j, D, {})
  BY <1>0, <1>1, <1>2 DEF Retains, Inv, TypeOK
<1>4. CASE End(j, "cancelled")
  BY <1>0, <1>1, <1>2, <1>3, <1>4, EndProper
<1>5. CASE pc' = [pc EXCEPT ![j] = "retrieve"] /\ UNCHANGED <<mem, paper, todo>>
  <2>1. Carries(j, D, M, "retrieve", {}, p)
    BY <1>0, <1>2, <1>3, <1>5 DEF Carries, Inv, TypeOK
  <2>2. PlaceFits(M, "retrieve", {})
    BY DEF PlaceFits, Working, Place
  <2>3. r \notin shared => /\ FilesHeld(D, M, "retrieve", {}) /\ ResultsHeld(r, D, M, "retrieve", p)
                           /\ Unfinished(M, "retrieve")
    BY <1>1, <1>2 DEF FilesHeld, ResultsHeld, Unfinished
  <2>4. Right(j, D, M, "retrieve", {}, p)
    BY <1>0, <1>2, <2>2, <2>3 DEF Right
  <2> QED BY <1>1, <1>3, <2>1, <2>4, PlainProper
<1> QED BY <1>4, <1>5 DEF Poll

(* The results of a Batch that has ended: every request of the run has one. *)
LEMMA CollectMore ==
  ASSUME Inv, More, NEW j \in Job, Collect(j)
  PROVE  Proper(j)
<1>0. PICK r, D, M, b : r = run[j] /\ D = disk[r] /\ M = mem[j] /\ b = batches[M.batch]
  OBVIOUS
<1>1. /\ pc[j] = "collect" /\ pc[j] \in Unsettled
      /\ UNCHANGED <<manifest, batches, run, shared, closing>>
  BY DEF Collect, Elsewhere, remVars, envVars, Unsettled, Awaiting
<1>2. /\ r \in Run /\ M \in RunState /\ manifest[r] \subseteq Request /\ StateFits(r, M)
      /\ manifest[r] # {} /\ todo[j] = {}
      /\ r \notin shared => D.cleanup \subseteq M.cleanup
  BY <1>0, <1>1, HoldsUnsettled
<1>3. b.ended /\ M.batch # 0 /\ b.run = r /\ b.output \in File \cup {0}
  <2>1. pc[j] # "none"
    BY <1>1
  <2>2. b.ended /\ M.batch # 0 /\ Sound(M)
    BY <1>0, <1>1, <2>1, Holds DEF PlaceFits, CopyFits, Awaiting
  <2>3. M.batch \in DOMAIN batches
    BY <1>2, <2>2, BoundsNat DEF Sound, RunState, Inv, TypeOK
  <2>4. b \in Batch
    BY <1>0, <2>3 DEF Inv, TypeOK
  <2> QED BY <1>0, <1>2, <2>2, <2>4 DEF StateFits, IdFits, Batch
<1>4. PICK o, n : /\ o = [q \in Request |-> IF q \notin manifest[r] THEN "none"
                                            ELSE IF q \in b.ok THEN "ok" ELSE "failed"]
                  /\ n = [M EXCEPT !.outcomes = o, !.cleanup = M.cleanup \cup ({b.output} \ {0})]
  OBVIOUS
<1>5. o \in [Request -> {"none", "ok", "failed"}] /\ M.cleanup \cup ({b.output} \ {0}) \in SUBSET File
  BY <1>2, <1>3, <1>4 DEF RunState
<1>6. /\ n \in RunState /\ n.outcomes = o /\ n.batch = M.batch /\ n.phase = M.phase
      /\ M.cleanup \subseteq n.cleanup
  BY <1>2, <1>4, <1>5 DEF RunState
<1>7. Collected(n)
  BY <1>2, <1>4, <1>6 DEF Collected
<1>8. StateFits(r, n)
  <2>1. Known(r, n)
    BY <1>4, <1>6 DEF Known
  <2> QED BY <1>0, <1>3, <1>6, <2>1 DEF StateFits, IdFits
<1>9. n = [mem[j] EXCEPT
             !.outcomes = [q \in Request |-> IF q \notin manifest[run[j]] THEN "none"
                                             ELSE IF q \in batches[mem[j].batch].ok THEN "ok"
                                             ELSE "failed"],
             !.cleanup = @ \cup ({batches[mem[j].batch].output} \ {0})]
  BY <1>0, <1>4
<1>10. CASE token[j] = "shutdown" /\ End(j, "cancelled") /\ disk' = [disk EXCEPT ![r] = n]
  <2>1. RunEnds(n) /\ RunSettles(r, n)
    BY <1>7, <1>10 DEF More, TokensFit, RunEnds, RunSettles
  <2>2. Retains(j, n, {})
    BY <1>0, <1>2, <1>6 DEF Retains
  <2> QED BY <1>0, <1>1, <1>8, <1>10, <2>1, <2>2, EndProper
<1>11. CASE CleanUp(j, n, "abandon")
  BY <1>0, <1>1, <1>2, <1>6, <1>7, <1>8, <1>11, CleanUpProper
<1>12. CASE Install(j, n)
  <2>1. PICK p, w : /\ w = [n EXCEPT !.phase = "installing"] /\ Goto(j, w, "child")
                    /\ paper' = [paper EXCEPT ![j] = p] /\ UNCHANGED todo
    BY <1>12 DEF Install
  <2>2. w.phase = "installing" /\ w.cleanup = n.cleanup /\ StateFits(r, w)
    BY <1>6, <1>8, <2>1, PhaseFits
  <2>3. /\ "child" \in Working \ {"cleanup", "abandon"} /\ PlaceFits(w, "child", {})
        /\ RunEnds(w) /\ RunSettles(r, w) /\ Unfinished(w, "child")
    BY <2>2 DEF Working, Place, PlaceFits, RunEnds, RunSettles, Finished, Closed, Unfinished
  <2> QED BY <1>0, <1>1, <1>2, <1>6, <2>1, <2>2, <2>3, GotoProper
<1> QED BY <1>0, <1>9, <1>10, <1>11, <1>12 DEF Collect

(* The coordinator raises: nothing is written. *)
LEMMA FailMore ==
  ASSUME Inv, More, NEW j \in Job, Fail(j)
  PROVE  Proper(j)
<1>0. PICK r, D, M, s : r = run[j] /\ D = disk[r] /\ M = mem[j] /\ s = Verdict(j, "failed")
  OBVIOUS
<1>1. /\ pc[j] # "none" /\ pc[j] \notin {"cleanup", "abandon"} /\ End(j, s)
      /\ UNCHANGED <<disk, manifest, batches, run, shared, closing>>
  BY <1>0 DEF Fail, Raises, Throw, Elsewhere, remVars, envVars
<1>2. /\ r \in Run /\ StateFits(r, D) /\ PlaceFits(M, pc[j], todo[j])
      /\ r \notin shared => RunEnds(D) /\ RunSettles(r, D)
  BY <1>0, <1>1, Holds
<1>3. todo[j] = {}
  BY <1>1, <1>2 DEF PlaceFits
<1>4. disk' = [disk EXCEPT ![r] = D] /\ Retains(j, D, {})
  BY <1>0, <1>1, <1>2, <1>3 DEF Retains, Inv, TypeOK
<1> QED BY <1>0, <1>1, <1>2, <1>4, EndProper

(* The job on one paper: it settles results, and drops none. *)
LEMMA FinalizeMore ==
  ASSUME Inv, More, NEW j \in Job, Finalize(j)
  PROVE  Proper(j)
<1>0. PICK r, D, M, p : r = run[j] /\ D = disk[r] /\ M = mem[j] /\ p = paper[j]
  OBVIOUS
<1>1. /\ pc[j] = "child"
      /\ UNCHANGED <<disk, manifest, batches, run, shared, closing, paper, todo>>
      /\ pc' = [pc EXCEPT ![j] = "recorded"]
  BY DEF Finalize, Elsewhere, dirVars, remVars, envVars
<1>2. /\ r \in Run /\ M \in RunState /\ manifest[r] \subseteq Request
      /\ StateFits(r, D) /\ StateFits(r, M) /\ todo[j] = {}
      /\ r \notin shared => RunEnds(D) /\ RunSettles(r, D) /\ D.cleanup \subseteq M.cleanup
  BY <1>0, <1>1, HoldsUnsettled
<1>3. Collected(M) /\ M.phase = "installing"
  <2>1. pc[j] # "none"
    BY <1>1
  <2> QED BY <1>0, <1>1, <2>1, Holds DEF CopyFits, PlaceFits
<1> DEFINE S == {q \in manifest[run[j]] \ mem[j].finalized : PaperOf[q] = paper[j]}
<1>4. PICK deal \in [S -> {"failed", "stale", "skipped", "installed", "local"}] :
        mem' = [mem EXCEPT
             ![j].finalized = @ \cup {q \in S : Settles(deal[q])},
             ![j].outcomes = [q \in Request |->
                IF q \in S /\ deal[q] = "stale" THEN "failed" ELSE @[q]]]
  BY Zenon DEF Finalize
<1>5. S \subseteq manifest[r] /\ S \subseteq Request
  BY <1>0, <1>2
<1> HIDE DEF S
<1>6. PICK f, o : /\ f = M.finalized \cup {q \in S : Settles(deal[q])}
                  /\ o = [q \in Request |-> IF q \in S /\ deal[q] = "stale" THEN "failed"
                                            ELSE M.outcomes[q]]
  OBVIOUS
<1>7. PICK n : n = [M EXCEPT !.finalized = f, !.outcomes = o]
  OBVIOUS
<1>8. f \subseteq Request /\ o \in [Request -> {"none", "ok", "failed"}]
  BY <1>2, <1>5, <1>6 DEF RunState
<1>9. /\ n.batch = M.batch /\ n.outcomes = o /\ n.cleanup = M.cleanup /\ n.phase = "installing"
  BY <1>2, <1>3, <1>7, <1>8 DEF RunState
<1>10. StateFits(r, n)
  <2>1. Known(r, n)
    BY <1>2, <1>5, <1>6, <1>9 DEF StateFits, Known
  <2> QED BY <1>2, <1>3, <1>9, <2>1 DEF StateFits, IdFits
<1>11. Carries(j, D, n, "recorded", {}, p)
  BY <1>0, <1>1, <1>2, <1>4, <1>6, <1>7 DEF Carries, Inv, TypeOK
<1>12. PlaceFits(n, "recorded", {})
  BY <1>9 DEF PlaceFits, Working, Place
<1>13. r \notin shared => /\ FilesHeld(D, n, "recorded", {}) /\ ResultsHeld(r, D, n, "recorded", p)
                          /\ Unfinished(n, "recorded")
  BY <1>2, <1>9 DEF FilesHeld, ResultsHeld, Unfinished, Unsettled, Preparing, Awaiting
<1>14. Right(j, D, n, "recorded", {}, p)
  BY <1>0, <1>2, <1>10, <1>12, <1>13 DEF Right
<1>15. Retains(j, D, {})
  BY <1>0, <1>2 DEF Retains
<1> QED BY <1>1, <1>11, <1>14, <1>15, PlainProper

(* What the paper job did is written; nothing of its paper is left if it succeeds. *)
LEMMA FinalizedMore ==
  ASSUME Inv, More, NEW j \in Job, Finalized(j)
  PROVE  Proper(j)
<1>0. PICK r, D, M, p : r = run[j] /\ D = disk[r] /\ M = mem[j] /\ p = paper[j]
  OBVIOUS
<1>1. /\ pc[j] = "recorded"
      /\ UNCHANGED <<manifest, batches, run, shared, closing, paper, todo>>
  BY DEF Finalized, Elsewhere, remVars, envVars
<1>2. /\ r \in Run /\ M \in RunState /\ StateFits(r, M) /\ todo[j] = {}
      /\ r \notin shared => D.cleanup \subseteq M.cleanup
  BY <1>0, <1>1, HoldsUnsettled
<1>3. Collected(M) /\ M.phase = "installing"
  <2>1. pc[j] # "none"
    BY <1>1
  <2> QED BY <1>0, <1>1, <2>1, Holds DEF CopyFits, PlaceFits
<1>4. PICK place \in {"broken", "wake"} :
        Goto(j, M, place) /\ (place = "wake" => p \notin ToFinalize(r, M))
  BY <1>0 DEF Finalized, Pending
<1>5. place \in Working \ {"cleanup", "abandon"} /\ PlaceFits(M, place, {})
  BY <1>3, <1>4 DEF PlaceFits, Working, Place
<1>6. RunEnds(M) /\ RunSettles(r, M) /\ Unfinished(M, place)
  BY <1>3 DEF RunEnds, RunSettles, Unfinished, Finished, Closed
<1>7. paper' = [paper EXCEPT ![j] = p]
  BY <1>0, <1>1 DEF Inv, TypeOK
<1> QED BY <1>0, <1>1, <1>2, <1>3, <1>4, <1>5, <1>6, <1>7, GotoProper

(* The next paper; or everything is dealt with, or a token ends the loop. *)
LEMMA WakeMore ==
  ASSUME Inv, More, NEW j \in Job, Wake(j)
  PROVE  Proper(j)
<1>0. PICK r, D, M : r = run[j] /\ D = disk[r] /\ M = mem[j]
  OBVIOUS
<1>1. /\ pc[j] = "wake" /\ pc[j] # "none" /\ pc[j] \in Later
      /\ UNCHANGED <<manifest, batches, run, shared, closing>>
  BY DEF Wake, Elsewhere, remVars, envVars, Later, Working, Place
<1>2. /\ r \in Run /\ D \in RunState /\ M \in RunState /\ StateFits(r, D) /\ StateFits(r, M)
      /\ PlaceFits(M, "wake", todo[j])
      /\ r \notin shared =>
           /\ RunEnds(D) /\ RunSettles(r, D)
           /\ FilesHeld(D, M, "wake", todo[j]) /\ ResultsHeld(r, D, M, "wake", paper[j])
  BY <1>0, <1>1, Holds
<1>3. todo[j] = {} /\ M.phase = "installing"
  BY <1>2 DEF PlaceFits
<1>4. r \notin shared => D.cleanup \subseteq M.cleanup
  BY <1>1, <1>2, <1>3 DEF FilesHeld
<1>5. CASE /\ \E p \in ToFinalize(r, M) : paper' = [paper EXCEPT ![j] = p]
           /\ pc' = [pc EXCEPT ![j] = "child"]
           /\ UNCHANGED <<disk, mem, todo>>
  <2>1. PICK p : paper' = [paper EXCEPT ![j] = p]
    BY <1>5
  <2>2. Carries(j, D, M, "child", {}, p)
    BY <1>0, <1>2, <1>3, <1>5, <2>1 DEF Carries, Inv, TypeOK
  <2>3. PlaceFits(M, "child", {})
    BY <1>3 DEF PlaceFits, Working, Place
  <2>4. r \notin shared => /\ FilesHeld(D, M, "child", {}) /\ ResultsHeld(r, D, M, "child", p)
                           /\ Unfinished(M, "child")
    BY <1>4 DEF FilesHeld, ResultsHeld, Unfinished, Unsettled, Preparing, Awaiting
  <2>5. Right(j, D, M, "child", {}, p)
    BY <1>0, <1>2, <2>3, <2>4 DEF Right
  <2>6. Retains(j, D, {})
    BY <1>0, <1>3 DEF Retains
  <2> QED BY <1>1, <2>2, <2>5, <2>6, PlainProper
<1>6. CASE CleanUp(j, D, "abandon")
  BY <1>0, <1>1, <1>2, <1>3, <1>6, CleanUpProper DEF ResultsHeld
<1>7. CASE /\ CleanUp(j, D, "cleanup")
           /\ token[j] = "shutdown" \/ ToFinalize(r, M) \subseteq {paper[j]}
  <2>1. token[j] = "shutdown" => closing
    BY DEF More, TokensFit
  <2>2. r \notin shared /\ ~closing => Settled(r, D)
    BY <1>2, <1>7, <2>1 DEF ResultsHeld, ToFinalize, Settled
  <2> QED BY <1>0, <1>1, <1>2, <1>3, <1>7, <2>2, CleanUpProper DEF ResultsHeld
<1>8. token[j] \in {"clear", "user", "shutdown"}
  BY DEF Inv, TypeOK
<1> QED BY <1>0, <1>5, <1>6, <1>7, <1>8 DEF Wake

(* A file that is not deleted is on record again. *)
LEMMA DeleteMore ==
  ASSUME Inv, More, NEW j \in Job, Delete(j)
  PROVE  Proper(j)
<1>0. PICK r, D, M, p, place, T : /\ r = run[j] /\ D = disk[r] /\ M = mem[j] /\ p = paper[j]
                                  /\ place = pc[j] /\ T = todo[j]
  OBVIOUS
<1>1. /\ place \in {"cleanup", "abandon"} /\ place # "none" /\ place \in Later
      /\ UNCHANGED <<manifest, batches, run, shared, closing, paper>>
  BY <1>0 DEF Delete, Elsewhere, envVars, Later, Working, Place
<1>2. /\ r \in Run /\ M \in RunState /\ StateFits(r, M) /\ PlaceFits(M, place, T)
      /\ r \notin shared => FilesHeld(D, M, place, T) /\ ResultsHeld(r, D, M, place, p)
  BY <1>0, <1>1, Holds
<1>3. PICK f \in T :
        /\ todo' = [todo EXCEPT ![j] = T \ {f}]
        /\ \/ files' = files \ {f} /\ Goto(j, M, place)
           \/ Goto(j, [M EXCEPT !.cleanup = M.cleanup \cup {f}], place)
  BY <1>0 DEF Delete, Postponed
<1>4. f \in File
  BY <1>0, <1>3 DEF Inv, TypeOK
<1>5. PICK n : /\ Goto(j, n, place)
               /\ n.phase = M.phase /\ n.batch = M.batch /\ n.outcomes = M.outcomes
               /\ n.finalized = M.finalized /\ M.cleanup \subseteq n.cleanup
               /\ f \in files' => f \in n.cleanup
  <2>1. CASE files' = files \ {f} /\ Goto(j, M, place)
    BY <2>1
  <2>2. CASE Goto(j, [M EXCEPT !.cleanup = M.cleanup \cup {f}], place)
    <3>1. PICK n : n = [M EXCEPT !.cleanup = M.cleanup \cup {f}]
      OBVIOUS
    <3>2. /\ n.phase = M.phase /\ n.batch = M.batch /\ n.outcomes = M.outcomes
          /\ n.finalized = M.finalized /\ n.cleanup = M.cleanup \cup {f}
      BY <1>2, <1>4, <3>1 DEF RunState
    <3> QED BY <2>2, <3>1, <3>2
  <2> QED BY <1>3, <2>1, <2>2
<1>6. Carries(j, n, n, place, T \ {f}, p)
  BY <1>0, <1>1, <1>3, <1>5 DEF Carries, Goto, Inv, TypeOK
<1>7. n.phase = "cleaning_up"
  BY <1>1, <1>2, <1>5 DEF PlaceFits
<1>8. StateFits(r, n)
  BY <1>2, <1>5 DEF StateFits, IdFits, Known, Collected
<1>9. PlaceFits(n, place, T \ {f})
  BY <1>1, <1>7 DEF PlaceFits, Later
<1>10. RunEnds(n) /\ RunSettles(r, n) /\ Unfinished(n, place) /\ FilesHeld(n, n, place, T \ {f})
  BY <1>7 DEF RunEnds, RunSettles, Unfinished, Finished, Closed, FilesHeld
<1>11. r \notin shared => ResultsHeld(r, n, n, place, p)
  BY <1>1, <1>2, <1>5 DEF ResultsHeld, Collected, Settled
<1>12. Right(j, n, n, place, T \ {f}, p)
  BY <1>0, <1>8, <1>9, <1>10, <1>11 DEF Right
<1>13. Retains(j, n, T \ {f})
  BY <1>0, <1>1, <1>2, <1>5 DEF Retains, FilesHeld
<1> QED BY <1>1, <1>6, <1>12, <1>13, PlainProper

(* The last phase: results are there, and dealt with unless a user or a shutdown came in. *)
LEMMA ConcludeMore ==
  ASSUME Inv, More, NEW j \in Job, Conclude(j)
  PROVE  Proper(j)
<1>0. PICK r, D, M, x : r = run[j] /\ D = disk[r] /\ M = mem[j] /\ x = Phase(r, pc[j])
  OBVIOUS
<1>1. /\ pc[j] \in {"cleanup", "abandon"} /\ pc[j] # "none" /\ todo[j] = {}
      /\ disk' = [disk EXCEPT ![r] = [D EXCEPT !.phase = x]]
      /\ UNCHANGED <<manifest, batches, run, shared, closing>>
  BY <1>0 DEF Conclude, Elsewhere, remVars, envVars
<1>2. /\ r \in Run /\ D \in RunState /\ StateFits(r, D)
      /\ r \notin shared => ResultsHeld(r, D, M, pc[j], paper[j])
  BY <1>0, <1>1, Holds
<1>3. PICK s : End(j, s)
  BY DEF Conclude
<1>4. PICK n : n = [D EXCEPT !.phase = x]
  OBVIOUS
<1>5. /\ n.phase = x /\ n.cleanup = D.cleanup /\ StateFits(r, n)
      /\ Collected(D) => Collected(n)
      /\ Settled(r, D) => Settled(r, n)
  BY <1>2, <1>4, PhaseFits
<1>6. x \in Closed => pc[j] = "cleanup"
  BY <1>0, <1>1 DEF Phase, Closed
<1>7. "shutdown" \notin Clicks => ~closing
  BY DEF More, TokensFit
<1>8. r \notin shared => RunEnds(n) /\ RunSettles(r, n)
  BY <1>1, <1>2, <1>5, <1>6, <1>7 DEF RunEnds, RunSettles, ResultsHeld
<1>9. Retains(j, n, {})
  BY <1>0, <1>1, <1>5 DEF Retains
<1> QED BY <1>0, <1>1, <1>3, <1>4, <1>5, <1>8, <1>9, EndProper

-----------------------------------------------------------------------------
(* What a step leaves to the others *)

(* Every step of a coordinator leaves what More says of it and of its run. *)
LEMMA StepProper ==
  ASSUME Inv, More, NEW j \in Job, Step(j)
  PROVE  Proper(j)
  BY StartMore, SnapshotMore, StoppedMore, UploadMore, OnwardMore, CreateMore, ReconcileMore,
     PollMore, CollectMore, FinalizeMore, FinalizedMore, WakeMore, DeleteMore, ConcludeMore,
     FailMore DEF Step

\* What a step of job j does beyond its own state and its own run.
Frame(j) ==
  /\ run[j] \in Run /\ j \in Live /\ Live' \subseteq Live
  /\ UNCHANGED <<run, targets, token, closing, restarts, shared>>
  /\ \A r \in Run \ {run[j]} : manifest'[r] = manifest[r]
  /\ manifest[run[j]] # {} => manifest'[run[j]] = manifest[run[j]]
  /\ manifest'[run[j]] \in {manifest[run[j]], targets[j]}

(* A step stays with its run, whose manifest is written once, and loses no Batch. *)
LEMMA StepFrame ==
  ASSUME Inv, More, NEW j \in Job, Step(j)
  PROVE  Frame(j) /\ Grows
<1>1. pc[j] \in Working \cup {"queued"} /\ pc[j] # "none"
  BY DEF Step, Start, Snapshot, Stopped, Upload, UploadFile, Attempt, Create, Created, CreateFails,
         Reconcile, Poll, Retrieve, Collect, Finalize, Finalized, Wake, Delete, Conclude, Fail, Raises,
         Working, Place
<1>2. run[j] \in Run /\ j \in Live
  BY <1>1 DEF Inv, JobFits, Live
<1>3. UNCHANGED <<run, targets, token, closing, restarts, shared>>
  BY DEF Step, Start, Snapshot, Stopped, Upload, UploadFile, Attempt, Create, Created, CreateFails,
         Reconcile, Poll, Retrieve, Collect, Finalize, Finalized, Wake, Delete, Conclude, Fail,
         Elsewhere, envVars
<1>4. UNCHANGED state \/ \E s : state' = [state EXCEPT ![j] = s]
  <2>1. Start(j) => \E s : state' = [state EXCEPT ![j] = s]
    BY DEF Start
  <2>2. (Stopped(j) \/ CreateFails(j) \/ Reconcile(j) \/ Poll(j) \/ Collect(j) \/ Conclude(j) \/ Fail(j))
          => UNCHANGED state \/ \E s : state' = [state EXCEPT ![j] = s]
    BY DEF Stopped, Stop, StopWith, CreateFails, Reconcile, Poll, Collect, Conclude, Fail, Throw, End
  <2>3. (Snapshot(j) \/ Upload(j) \/ UploadFile(j) \/ Attempt(j) \/ Create(j) \/ Created(j)
         \/ Retrieve(j) \/ Finalize(j) \/ Finalized(j) \/ Wake(j) \/ Delete(j)) => UNCHANGED state
    BY DEF Snapshot, Upload, UploadFile, Attempt, Create, Created, Retrieve, Finalize, Finalized, Wake,
           Delete
  <2> QED BY <2>1, <2>2, <2>3 DEF Step
<1>5. Live' \subseteq Live
  BY <1>2, <1>4 DEF Live, Inv, TypeOK
<1>6. /\ \A r \in Run \ {run[j]} : manifest'[r] = manifest[r]
      /\ manifest[run[j]] # {} => manifest'[run[j]] = manifest[run[j]]
      /\ manifest'[run[j]] \in {manifest[run[j]], targets[j]}
  <2>1. CASE Snapshot(j)
    <3>1. manifest[run[j]] = {}
      BY <2>1 DEF Snapshot, Inv, JobFits
    <3> QED BY <1>2, <2>1, <3>1 DEF Snapshot, Inv, TypeOK
  <2>2. CASE UNCHANGED manifest
    BY <2>2
  <2>3. ~Snapshot(j) => UNCHANGED manifest
    BY DEF Step, Start, Stopped, Upload, UploadFile, Attempt, Create, Created, CreateFails,
           Reconcile, Poll, Retrieve, Collect, Finalize, Finalized, Wake, Delete, Conclude, Fail, dirVars
  <2> QED BY <2>1, <2>2, <2>3
<1>7. Grows
  <2>1. CASE Create(j) \/ CreateFails(j)
    BY <2>1, CreateMore
  <2>2. CASE ~(Create(j) \/ CreateFails(j))
    <3>1. UNCHANGED batches
      BY <2>2 DEF Step, Start, Snapshot, Stopped, Upload, UploadFile, Attempt, Created,
                  Reconcile, Poll, Retrieve, Collect, Finalize, Finalized, Wake, Delete, Conclude, Fail,
                  remVars
    <3>2. created' \in {created, created + 1}
      BY <2>2 DEF Step, Start, Snapshot, Stopped, Upload, UploadFile, Store, Attempt, Created,
                  Reconcile, Poll, Retrieve, Collect, Finalize, Finalized, Wake, Delete, Conclude, Fail,
                  remVars
    <3>3. created \in Nat
      BY BoundsNat DEF Inv, TypeOK
    <3>4. \A r \in Run : manifest[r] # {} => manifest'[r] = manifest[r]
      BY <1>6
    <3> QED BY <3>1, <3>2, <3>3, <3>4 DEF Grows
  <2> QED BY <2>1, <2>2
<1> QED BY <1>2, <1>3, <1>5, <1>6, <1>7 DEF Frame

(* Claims only shrink: requests of a manifest were asked for by its coordinator, and *)
(* results that were collected stay. *)
LEMMA ClaimsShrink ==
  ASSUME Inv, More, Kept, NEW r \in Run, r \notin shared', Live' \subseteq Live,
         UNCHANGED <<run, targets>>,
         manifest[r] # {} => manifest'[r] = manifest[r],
         manifest[r] = {} => manifest'[r] = {} \/ \E j \in Live : run[j] = r /\ manifest'[r] = targets[j]
  PROVE  Claim(r)' \subseteq Claim(r)
<1>1. CASE manifest[r] # {}
  <2>1. Keeps(r, disk[r], disk'[r])
    BY <1>1 DEF Kept, Stored
  <2>2. Known(r, disk[r])
    BY DEF More, RunMore, StateFits
  <2>3. Collected(disk[r]) => Collected(disk'[r])
    BY <2>1, <2>2 DEF Collected, Known, Keeps
  <2>4. manifest'[r] = manifest[r] /\ Collected(disk[r])' = Collected(disk'[r])
    BY <1>1 DEF Collected
  <2> QED BY <1>1, <2>3, <2>4 DEF Claim
<1>2. CASE manifest[r] = {} /\ manifest'[r] = {}
  BY <1>2 DEF Claim
<1>3. CASE manifest[r] = {} /\ manifest'[r] # {}
  <2>1. PICK j \in Live : run[j] = r /\ manifest'[r] = targets[j]
    BY <1>3
  <2>2. Claim(r)' \subseteq targets[j] \cap Request
    BY <1>3, <2>1 DEF Claim
  <2> QED BY <1>3, <2>1, <2>2 DEF Claim
<1> QED BY <1>1, <1>2, <1>3

\* The input file a step leaves in a run's directory and in the coordinator's copy.
Passes(j) ==
  LET X == {0, disk[run[j]].input, mem[j].input} IN
  disk'[run[j]].input \in X /\ mem'[j].input \in X

(* Nobody but the upload of the request file comes to know a file as input. *)
LEMMA StepPasses ==
  ASSUME Inv, More, NEW j \in Job, Step(j), ~UploadFile(j)
  PROVE  Passes(j)
<1>0. PICK r, D, M : r = run[j] /\ D = disk[r] /\ M = mem[j]
  OBVIOUS
<1>1. r \in Run /\ D \in RunState /\ M \in RunState /\ NewState.input = 0 /\ NewState \in RunState
  BY <1>0, StepFrame, NewStateTyped DEF Frame, Inv, TypeOK, NewState
<1>2. disk \in [Run -> RunState] /\ mem \in [Job -> RunState]
  BY DEF Inv, TypeOK
<1>3. ASSUME NEW n \in RunState, NEW place, Goto(j, n, place), n.input \in {D.input, M.input}
      PROVE  Passes(j)
  BY <1>0, <1>1, <1>2, <1>3 DEF Passes, Goto
<1>4. ASSUME NEW s, NEW n, End(j, s), UNCHANGED disk \/ disk' = [disk EXCEPT ![r] = n],
             n.input \in {D.input, M.input}
      PROVE  Passes(j)
  BY <1>0, <1>1, <1>2, <1>4 DEF Passes, End
<1>5. ASSUME NEW n \in RunState, NEW place, CleanUp(j, n, place), n.input \in {D.input, M.input}
      PROVE  Passes(j)
  <2>1. PICK c, e : c = [n EXCEPT !.phase = "cleaning_up"] /\ e = [c EXCEPT !.cleanup = {}]
    OBVIOUS
  <2>2. c.input = n.input /\ e.input = n.input
    BY <2>1 DEF RunState
  <2> QED BY <1>0, <1>1, <1>2, <1>5, <2>1, <2>2 DEF Passes, CleanUp
<1>6. ASSUME NEW n \in RunState, NEW Q, Submit(j, Q, n), n.input \in {D.input, M.input}
      PROVE  Passes(j)
  <2>1. PICK w, place :
          /\ place = NextPlace(Q, n)
          /\ w = IF place \in {"upload", "file"} THEN [n EXCEPT !.phase = "uploading"] ELSE n
    OBVIOUS
  <2>2. w.input = n.input /\ w \in RunState
    BY <2>1 DEF RunState, RunPhase
  <2>3. Goto(j, w, place)
    BY <1>6, <2>1 DEF Submit
  <2> QED BY <1>3, <1>6, <2>2, <2>3
<1>7. ASSUME NEW n \in RunState, NEW x \in RunPhase, NEW m, m = [n EXCEPT !.phase = x]
      PROVE  m \in RunState /\ m.input = n.input
  BY <1>7 DEF RunState
<1>8. ASSUME NEW n \in RunState, Install(j, n), n.input \in {D.input, M.input}
      PROVE  Passes(j)
  <2>1. PICK m : m = [n EXCEPT !.phase = "installing"] /\ Goto(j, m, "child")
    BY <1>8 DEF Install
  <2> QED BY <1>3, <1>7, <1>8, <2>1 DEF RunPhase
<1>9. CASE Start(j)
  <2>1. CASE Goto(j, [D EXCEPT !.phase = "snapshotting"], "snapshot")
    <3>1. PICK m : m = [D EXCEPT !.phase = "snapshotting"]
      OBVIOUS
    <3> QED BY <1>1, <1>3, <1>7, <2>1, <3>1 DEF RunPhase
  <2> QED BY <1>0, <1>1, <1>5, <1>6, <1>8, <1>9, <2>1 DEF Start
<1>10. CASE Snapshot(j)
  BY <1>0, <1>1, <1>6, <1>10 DEF Snapshot
<1>11. CASE Stopped(j)
  <2>1. PICK m : m = IF Marks(j) THEN [D EXCEPT !.phase = "cancelled"] ELSE D
    OBVIOUS
  <2>2. m.input = D.input
    BY <1>1, <1>7, <2>1 DEF RunPhase, Finished
  <2> QED BY <1>0, <1>4, <1>11, <2>1, <2>2 DEF Stopped, Stop, StopWith
<1>12. CASE Upload(j)
  <2>1. PICK p, m : /\ p \in ToUpload(manifest[r], M)
                    /\ m = [M EXCEPT !.uploads = M.uploads \cup {p}, !.cleanup = M.cleanup \cup {created + 1}]
                    /\ Submit(j, manifest[r], m)
    BY <1>0, <1>12 DEF Upload
  <2>2. created + 1 \in File /\ p \in Paper
    BY <1>12, <2>1, PapersOfRequests, BoundsNat DEF ToUpload, Upload, Store, File, Inv, TypeOK
  <2>3. M.uploads \cup {p} \in SUBSET Paper /\ M.cleanup \cup {created + 1} \in SUBSET File
    BY <1>1, <2>2 DEF RunState
  <2>4. m \in RunState /\ m.input = M.input
    BY <1>1, <2>1, <2>3 DEF RunState
  <2> QED BY <1>6, <2>1, <2>4
<1>13. CASE Attempt(j) \/ Created(j) \/ Retrieve(j)
  <2>1. PICK x, place : /\ x \in {"attempted", "collecting", "in_progress", M.phase}
                        /\ Goto(j, [M EXCEPT !.phase = x], place)
    <3>1. M = [M EXCEPT !.phase = M.phase]
      BY <1>1 DEF RunState
    <3>2. Created(j) => Goto(j, M, "poll")
      BY <1>0 DEF Created
    <3>3. Attempt(j) => Goto(j, [M EXCEPT !.phase = "attempted"], "create")
      BY <1>0 DEF Attempt
    <3>4. Retrieve(j) => \/ Goto(j, [M EXCEPT !.phase = "collecting"], "collect")
                         \/ Goto(j, [M EXCEPT !.phase = "in_progress"], "poll")
                         \/ Goto(j, M, "poll")
      BY <1>0 DEF Retrieve
    <3> DEFINE At(x) == [M EXCEPT !.phase = x]
    <3>5. M = At(M.phase)
      BY <3>1
    <3>6. \E x, place : /\ x \in {"attempted", "collecting", "in_progress", M.phase}
                        /\ Goto(j, At(x), place)
      <4>1. /\ Attempt(j) => Goto(j, At("attempted"), "create")
            /\ Retrieve(j) => \/ Goto(j, At("collecting"), "collect")
                              \/ Goto(j, At("in_progress"), "poll")
                              \/ Goto(j, At(M.phase), "poll")
            /\ Created(j) => Goto(j, At(M.phase), "poll")
        BY <3>2, <3>3, <3>4, <3>5
      <4> HIDE DEF At
      <4> QED BY <1>13, <4>1
    <3> QED BY <3>6
  <2>2. PICK m : m = [M EXCEPT !.phase = x]
    OBVIOUS
  <2>3. m \in RunState /\ m.input = M.input
    <3>1. x \in RunPhase
      BY <1>1, <2>1 DEF RunState, RunPhase
    <3> QED BY <1>1, <1>7, <2>2, <3>1
  <2> QED BY <1>3, <2>1, <2>2, <2>3
<1>14. CASE Create(j)
  <2>1. PICK m : m = [M EXCEPT !.batch = Len(batches) + 1]
    OBVIOUS
  <2>2. m.input = M.input
    BY <1>1, <2>1 DEF RunState
  <2>3. mem' = [mem EXCEPT ![j] = m] /\ disk' = disk
    BY <1>0, <1>14, <2>1 DEF Create, dirVars
  <2> QED BY <1>0, <1>2, <2>2, <2>3 DEF Passes
<1>15. CASE CreateFails(j) \/ Reconcile(j)
  <2>1. PICK m : m = [M EXCEPT !.phase = "uncertain"]
    OBVIOUS
  <2>2. m.input = M.input
    BY <1>1, <1>7, <2>1 DEF RunPhase
  <2>3. CASE disk' = [disk EXCEPT ![r] = m] /\ End(j, Verdict(j, "failed"))
    BY <1>4, <2>2, <2>3
  <2>4. CASE \E b : Goto(j, [M EXCEPT !.batch = b], "poll")
    <3>1. PICK b, n : n = [M EXCEPT !.batch = b] /\ Goto(j, n, "poll")
      BY <2>4
    <3>2. n.input = M.input
      BY <1>1, <3>1 DEF RunState
    <3> QED BY <1>0, <1>1, <1>2, <3>1, <3>2 DEF Passes, Goto
  <2> QED BY <1>0, <1>15, <2>1, <2>3, <2>4 DEF CreateFails, Reconcile
<1>16. CASE Poll(j)
  <2>1. disk' = disk
    BY <1>16 DEF Poll, dirVars
  <2>2. CASE End(j, "cancelled")
    BY <1>4, <2>1, <2>2
  <2>3. CASE mem' = mem
    BY <1>0, <2>1, <2>3 DEF Passes
  <2> QED BY <1>16, <2>2, <2>3 DEF Poll
<1>17. CASE Collect(j)
  <2>1. PICK o, c, m : /\ o = [q \in Request |-> IF q \notin manifest[r] THEN "none"
                                                 ELSE IF q \in batches[M.batch].ok THEN "ok"
                                                 ELSE "failed"]
                       /\ c = M.cleanup \cup ({batches[M.batch].output} \ {0})
                       /\ m = [M EXCEPT !.outcomes = o, !.cleanup = c]
    OBVIOUS
  <2>2. m.input = M.input
    BY <1>1, <2>1 DEF RunState
  <2>3. \/ End(j, "cancelled") /\ disk' = [disk EXCEPT ![r] = m]
        \/ CleanUp(j, m, "abandon") \/ Install(j, m)
    BY <1>0, <1>17, <2>1 DEF Collect
  <2>4. m \in RunState
    <3>1. o \in [Request -> {"none", "ok", "failed"}]
      BY <2>1
    <3>2. c \in SUBSET File
      <4>1. pc[j] = "collect" /\ pc[j] # "none"
        BY <1>17 DEF Collect
      <4>2. M.batch # 0 /\ Sound(M)
        BY <1>0, <4>1, Holds DEF CopyFits, Awaiting
      <4>3. M.batch \in DOMAIN batches
        BY <1>1, <4>2, BoundsNat DEF Sound, RunState, Inv, TypeOK
      <4>4. PICK b : b = batches[M.batch] /\ b \in Batch
        BY <4>3 DEF Inv, TypeOK
      <4> QED BY <1>1, <2>1, <4>4 DEF RunState, Batch
    <3> QED BY <1>1, <2>1, <3>1, <3>2 DEF RunState
  <2> QED BY <1>4, <1>5, <1>8, <2>2, <2>3, <2>4
<1>18. CASE Finalize(j)
  <2>1. disk' = disk /\ \E f, o : mem' = [mem EXCEPT ![j] = [M EXCEPT !.finalized = f, !.outcomes = o]]
    <3> DEFINE S == {q \in manifest[run[j]] \ mem[j].finalized : PaperOf[q] = paper[j]}
    <3>1. PICK deal : mem' = [mem EXCEPT
             ![j].finalized = @ \cup {q \in S : Settles(deal[q])},
             ![j].outcomes = [q \in Request |->
                IF q \in S /\ deal[q] = "stale" THEN "failed" ELSE @[q]]]
      BY <1>18, Zenon DEF Finalize
    <3> HIDE DEF S
    <3>2. PICK f, o : /\ f = M.finalized \cup {q \in S : Settles(deal[q])}
                      /\ o = [q \in Request |-> IF q \in S /\ deal[q] = "stale" THEN "failed"
                                                ELSE M.outcomes[q]]
      OBVIOUS
    <3>3. mem' = [mem EXCEPT ![j] = [M EXCEPT !.finalized = f, !.outcomes = o]]
      BY <1>0, <3>1, <3>2
    <3> QED BY <1>18, <3>3 DEF Finalize, dirVars
  <2>2. PICK f, o, m : m = [M EXCEPT !.finalized = f, !.outcomes = o] /\ mem' = [mem EXCEPT ![j] = m]
    BY <2>1
  <2>3. m.input = M.input
    BY <1>1, <2>2 DEF RunState
  <2> QED BY <1>0, <1>2, <2>1, <2>2, <2>3 DEF Passes
<1>19. CASE Finalized(j)
  BY <1>0, <1>1, <1>3, <1>19 DEF Finalized
<1>20. CASE Wake(j)
  <2>1. CASE UNCHANGED <<disk, mem>>
    BY <1>0, <2>1 DEF Passes
  <2>2. CASE \E place : CleanUp(j, D, place)
    BY <1>1, <1>5, <2>2
  <2> QED BY <1>0, <1>20, <2>1, <2>2 DEF Wake
<1>21. CASE Delete(j)
  <2>1. CASE Goto(j, M, pc[j])
    BY <1>1, <1>3, <2>1
  <2>2. CASE \E f \in todo[j] : Goto(j, [M EXCEPT !.cleanup = M.cleanup \cup {f}], pc[j])
    <3>1. PICK f, m : /\ f \in File /\ m = [M EXCEPT !.cleanup = M.cleanup \cup {f}]
                      /\ Goto(j, m, pc[j])
      BY <2>2 DEF Inv, TypeOK
    <3>2. M.cleanup \cup {f} \in SUBSET File
      BY <1>1, <3>1 DEF RunState
    <3>3. m \in RunState /\ m.input = M.input
      BY <1>1, <3>1, <3>2 DEF RunState
    <3> QED BY <1>3, <3>1, <3>3
  <2> QED BY <1>0, <1>21, <2>1, <2>2 DEF Delete, Postponed
<1>22. CASE Conclude(j)
  <2>1. PICK x, m, s : /\ x = Phase(r, pc[j]) /\ m = [D EXCEPT !.phase = x]
                       /\ disk' = [disk EXCEPT ![r] = m] /\ End(j, s)
    BY <1>0, <1>22 DEF Conclude
  <2>2. m.input = D.input
    BY <1>1, <2>1 DEF RunState
  <2> QED BY <1>4, <2>1, <2>2
<1>23. CASE Fail(j)
  BY <1>0, <1>4, <1>23 DEF Fail, Throw
<1> QED BY <1>9, <1>10, <1>11, <1>12, <1>13, <1>14, <1>15, <1>16, <1>17, <1>18, <1>19, <1>20, <1>21,
           <1>22, <1>23 DEF Step

\* A Batch is added only in create_batch.
Joins(j) == DOMAIN batches' # DOMAIN batches => pc[j] = "create" /\ Accept(j)

(* So do the steps. *)
LEMMA StepJoins ==
  ASSUME NEW j \in Job, Step(j)
  PROVE  Joins(j)
<1>1. CASE Create(j) \/ CreateFails(j)
  BY <1>1 DEF Create, CreateFails, Joins
<1>2. CASE ~(Create(j) \/ CreateFails(j))
  <2>1. UNCHANGED batches
    BY <1>2 DEF Step, Start, Snapshot, Stopped, Upload, UploadFile, Attempt, Created,
                Reconcile, Poll, Retrieve, Collect, Finalize, Finalized, Wake, Delete, Conclude, Fail,
                remVars
  <2> QED BY <2>1 DEF Joins
<1> QED BY <1>1, <1>2

(* A file remains the input of the run it was uploaded by. *)
LEMMA OwnedOn ==
  ASSUME Inv, Inv', More, NEW j \in Job, Frame(j), Grows, Lands(j), Joins(j), Passes(j) \/ UploadFile(j)
  PROVE  Owned'
<1>0. PICK r, own : r = run[j] /\ own \in [File -> Run \cup {NoRun}] /\ InputsOwned(own)
  BY DEF More, Owned
<1>1. Frame(j) /\ Grows /\ r \in Run
  BY <1>0 DEF Frame
<1>2. /\ disk \in [Run -> RunState] /\ mem \in [Job -> RunState] /\ created \in 0..MaxFiles
      /\ run'= run
  BY <1>1 DEF Inv, TypeOK, Frame
<1>3. /\ \A t \in Run \ {r} : disk'[t] = disk[t]
      /\ \A i \in Job \ {j} : mem'[i] = mem[i]
  <2>1. PICK d, m : disk' = [disk EXCEPT ![r] = d] /\ mem' = [mem EXCEPT ![j] = m]
    BY <1>0 DEF Lands, Leaves, Carries
  <2> QED BY <1>2, <2>1
<1>4. created \in Nat /\ MaxFiles \in Nat /\ created <= created' /\ created' \in 0..MaxFiles
  BY <1>1, <1>2, BoundsNat DEF Grows, Inv, TypeOK
<1>5. OwnedBy(own, r, disk[r].input) /\ OwnedBy(own, r, mem[j].input)
  BY <1>0, <1>1 DEF InputsOwned
<1>6. ASSUME NEW s, NEW f \in File \cup {0}, OwnedBy(own, s, f)
      PROVE  OwnedBy(own, s, f)'
  BY <1>4, <1>6 DEF OwnedBy, File
<1>7. CASE Passes(j)
  <2>1. Passes(j)
    BY <1>7
  <2>2. /\ OwnedBy(own, r, disk'[r].input)
        /\ OwnedBy(own, r, mem'[j].input)
    BY <1>0, <1>5, <2>1 DEF Passes, OwnedBy
  <2>3. ASSUME NEW t \in Run
        PROVE  OwnedBy(own, t, disk[t].input)'
    <3>1. disk'[t].input \in File \cup {0} /\ OwnedBy(own, t, disk'[t].input)
      <4>1. disk'[t] \in RunState
        BY DEF Inv, TypeOK
      <4> QED BY <1>0, <1>3, <2>2, <4>1 DEF InputsOwned, RunState
    <3> QED BY <1>4, <3>1 DEF OwnedBy, File
  <2>4. ASSUME NEW i \in Job
        PROVE  OwnedBy(own, run[i], mem[i].input)'
    <3>1. mem'[i].input \in File \cup {0} /\ OwnedBy(own, run[i], mem'[i].input)
      <4>1. mem'[i] \in RunState
        BY DEF Inv, TypeOK
      <4> QED BY <1>0, <1>3, <2>2, <4>1 DEF InputsOwned, RunState
    <3> QED BY <1>2, <1>4, <3>1 DEF OwnedBy, File
  <2>5. ASSUME NEW b \in DOMAIN batches'
        PROVE  OwnedBy(own, batches[b].run, batches[b].input)'
    <3>1. CASE b \in DOMAIN batches
      <4>1. batches'[b].run = batches[b].run /\ batches'[b].input = batches[b].input
        BY <1>1, <3>1 DEF Grows
      <4>2. PICK x : x = batches[b] /\ x \in Batch
        BY <3>1 DEF Inv, TypeOK
      <4>3. OwnedBy(own, x.run, x.input) /\ x.input \in File \cup {0}
        BY <1>0, <3>1, <4>2 DEF InputsOwned, Batch
      <4> QED BY <1>6, <4>1, <4>2, <4>3 DEF OwnedBy
    <3>2. CASE b \notin DOMAIN batches
      <4>2. pc[j] = "create" /\ Accept(j)
        BY <3>2 DEF Joins
      <4>3. mem[j].input \in File /\ manifest[r] \subseteq Request
        <5>1. pc[j] # "none" /\ mem[j].input # 0
          BY <1>0, <4>2, Holds DEF CopyFits
        <5>2. mem[j] \in RunState /\ manifest[r] \subseteq Request
          BY <1>1 DEF Inv, TypeOK
        <5> QED BY <5>1, <5>2 DEF RunState
      <4>4. batches'[b].run = r /\ batches'[b].input = mem[j].input
        BY <1>0, <1>1, <3>2, <4>2, <4>3, AcceptedMore
      <4> QED BY <1>4, <1>5, <4>3, <4>4 DEF OwnedBy, File
    <3> QED BY <3>1, <3>2
  <2>6. InputsOwned(own)'
    BY <2>3, <2>4, <2>5 DEF InputsOwned
  <2> QED BY <1>0, <2>6 DEF Owned
<1>8. CASE UploadFile(j)
  <2>1. PICK f, new : f = created + 1 /\ new = [own EXCEPT ![f] = r]
    OBVIOUS
  <2>2. f \in File /\ created' = f /\ batches' = batches
    BY <1>4, <1>8, <2>1 DEF UploadFile, Store, File
  <2>3. new \in [File -> Run \cup {NoRun}] /\ new[f] = r /\ \A x \in File \ {f} : new[x] = own[x]
    BY <1>0, <1>1, <2>1, <2>2
  <2>4. disk'[r].input = f /\ mem'[j].input = f
    <3>1. PICK n : /\ n = [mem[j] EXCEPT !.input = f, !.cleanup = mem[j].cleanup \cup {f}, !.phase = "ready"]
                   /\ Goto(j, n, "ready")
      BY <1>8, <2>1 DEF UploadFile
    <3>2. n.input = f
      BY <1>2, <3>1 DEF RunState
    <3> QED BY <1>0, <1>1, <1>2, <3>1, <3>2 DEF Goto
  <2>5. ASSUME NEW s, NEW x \in File \cup {0}, OwnedBy(own, s, x)
        PROVE  OwnedBy(new, s, x)'
    BY <1>4, <2>1, <2>2, <2>3, <2>5 DEF OwnedBy, File
  <2>6. ASSUME NEW t \in Run
        PROVE  OwnedBy(new, t, disk[t].input)'
    <3>1. CASE t = r
      BY <2>2, <2>3, <2>4, <3>1, <1>4 DEF OwnedBy
    <3>2. CASE t # r
      <4>1. disk[t].input \in File \cup {0} /\ OwnedBy(own, t, disk[t].input) /\ disk'[t] = disk[t]
        BY <1>0, <1>2, <1>3, <3>2 DEF InputsOwned, RunState
      <4> QED BY <2>5, <4>1 DEF OwnedBy
    <3> QED BY <3>1, <3>2
  <2>7. ASSUME NEW i \in Job
        PROVE  OwnedBy(new, run[i], mem[i].input)'
    <3>1. CASE i = j
      BY <1>0, <1>2, <2>2, <2>3, <2>4, <3>1, <1>4 DEF OwnedBy
    <3>2. CASE i # j
      <4>1. mem[i].input \in File \cup {0} /\ OwnedBy(own, run[i], mem[i].input) /\ mem'[i] = mem[i]
        BY <1>0, <1>2, <1>3, <3>2 DEF InputsOwned, RunState
      <4> QED BY <1>2, <2>5, <4>1 DEF OwnedBy
    <3> QED BY <3>1, <3>2
  <2>8. ASSUME NEW b \in DOMAIN batches'
        PROVE  OwnedBy(new, batches[b].run, batches[b].input)'
    <3>1. PICK x : x = batches[b] /\ x \in Batch /\ batches'[b] = x
      BY <2>2 DEF Inv, TypeOK
    <3>2. OwnedBy(own, x.run, x.input) /\ x.input \in File \cup {0}
      BY <1>0, <2>2, <3>1 DEF InputsOwned, Batch
    <3> QED BY <2>5, <3>1, <3>2 DEF OwnedBy
  <2>9. InputsOwned(new)'
    BY <2>6, <2>7, <2>8 DEF InputsOwned
  <2> QED BY <2>3, <2>9 DEF Owned
<1> QED BY <1>7, <1>8

(* A Batch that is added has the requests of its run. *)
LEMMA BatchesFitOn ==
  ASSUME Inv, More, NEW j \in Job, Frame(j), Grows, Joins(j)
  PROVE  BatchesFit'
<1> SUFFICES ASSUME NEW b \in DOMAIN batches'
             PROVE  /\ batches'[b].requests = manifest'[batches'[b].run]
                    /\ manifest'[batches'[b].run] # {}
  BY DEF BatchesFit
<1>1. Frame(j) /\ Grows
  OBVIOUS
<1>2. CASE b \in DOMAIN batches
  <2>1. PICK x : x = batches[b] /\ x \in Batch
    BY <1>2 DEF Inv, TypeOK
  <2>2. x.run \in Run /\ x.requests = manifest[x.run] /\ manifest[x.run] # {}
    BY <1>2, <2>1 DEF More, BatchesFit, Batch
  <2>3. batches'[b].run = x.run /\ batches'[b].requests = x.requests /\ manifest'[x.run] = manifest[x.run]
    BY <1>1, <1>2, <2>1, <2>2 DEF Grows
  <2> QED BY <2>2, <2>3
<1>3. CASE b \notin DOMAIN batches
  <2>2. pc[j] = "create" /\ Accept(j)
    BY <1>3 DEF Joins
  <2>3. PICK r : r = run[j] /\ r \in Run
    BY <1>1 DEF Frame
  <2>4. mem[j].input \in File /\ manifest[r] \subseteq Request /\ manifest[r] # {}
    <3>1. pc[j] # "none" /\ mem[j].input # 0 /\ manifest[r] # {}
      BY <2>2, <2>3, Holds DEF CopyFits, Later, Working, Place
    <3>2. mem[j] \in RunState /\ manifest[r] \subseteq Request
      BY <2>3 DEF Inv, TypeOK
    <3> QED BY <3>1, <3>2 DEF RunState
  <2>5. batches'[b].run = r /\ batches'[b].requests = manifest[r]
    BY <1>3, <2>2, <2>3, <2>4, AcceptedMore
  <2>6. manifest'[r] = manifest[r]
    BY <1>1, <2>3, <2>4 DEF Grows
  <2> QED BY <2>4, <2>5, <2>6
<1> QED BY <1>2, <1>3

(* Other runs stay as they are. *)
LEMMA RunMoreOn ==
  ASSUME Inv, More, Inv', NEW j \in Job, Frame(j), Grows, Lands(j), NEW t \in Run
  PROVE  RunMore(t)'
<1>0. PICK r : r = run[j] /\ r \in Run
  BY DEF Frame
<1>1. PICK d, m, place, x, p : Leaves(j, d, m, place, x, p)
  BY DEF Lands
<1>2. disk \in [Run -> RunState] /\ disk' = [disk EXCEPT ![r] = d] /\ run' = run /\ shared' = shared
  BY <1>0, <1>1 DEF Leaves, Carries, Inv, TypeOK, Frame
<1>3. CASE t = r
  <2>1. disk'[r] = d /\ Right(j, d, m, place, x, p)'
    BY <1>0, <1>1, <1>2 DEF Leaves
  <2>2. StateFits(r, d)' /\ (r \notin shared => RunEnds(d)' /\ RunSettles(r, d)')
    BY <1>0, <1>2, <2>1 DEF Right
  <2> QED BY <1>2, <1>3, <2>1, <2>2 DEF RunMore, StateFits, IdFits, Known, Collected, RunEnds,
                                        RunSettles, Settled
<1>4. CASE t # r
  <2>1. disk'[t] = disk[t] /\ manifest'[t] = manifest[t] /\ disk[t] \in RunState
    BY <1>0, <1>2, <1>4 DEF Frame
  <2>2. RunMore(t) /\ Sound(disk[t])
    BY DEF More, Inv, RunFits, DirFits
  <2>3. PICK D : D = disk[t]
    OBVIOUS
  <2>4. StateFits(t, D)'
    BY <2>1, <2>2, <2>3, StateFitsOn DEF RunMore
  <2>5. t \notin shared => RunEnds(D)' /\ RunSettles(t, D)'
    BY <2>1, <2>2, <2>3 DEF RunMore, RunEnds, RunSettles, Settled, Collected
  <2> QED BY <1>2, <2>1, <2>3, <2>4, <2>5 DEF RunMore, StateFits, IdFits, Known, Collected, RunEnds,
                                        RunSettles, Settled
<1> QED BY <1>3, <1>4

(* Other coordinators stay as they are: those of another run see nothing, and one of the *)
(* same run has ended, or the run is shared. *)
LEMMA JobMoreOn ==
  ASSUME Inv, More, NEW j \in Job, Frame(j), Grows, Lands(j), NEW i \in Job
  PROVE  JobMore(i)'
<1>0. PICK r : r = run[j] /\ r \in Run
  BY DEF Frame
<1>1. PICK d, m, place, x, p : Leaves(j, d, m, place, x, p)
  BY DEF Lands
<1>2. /\ disk \in [Run -> RunState] /\ disk' = [disk EXCEPT ![r] = d]
      /\ run' = run /\ shared' = shared /\ closing' = closing
      /\ mem \in [Job -> RunState] /\ mem' = [mem EXCEPT ![j] = m]
      /\ pc' = [pc EXCEPT ![j] = place] /\ todo' = [todo EXCEPT ![j] = x]
      /\ paper' = [paper EXCEPT ![j] = p]
  BY <1>0, <1>1 DEF Leaves, Carries, Inv, TypeOK, Frame
<1>3. CASE i = j
  <2>1. /\ disk'[r] = d /\ mem'[j] = m /\ pc'[j] = place /\ todo'[j] = x /\ paper'[j] = p
        /\ Right(j, d, m, place, x, p)'
    BY <1>0, <1>1, <1>2 DEF Leaves, Inv, TypeOK
  <2>2. Right(j, disk[run[j]], mem[j], pc[j], todo[j], paper[j])'
    BY <1>0, <1>2, <2>1 DEF Right, StateFits, IdFits, Known, PlaceFits, RunEnds, RunSettles, Settled,
       FilesHeld, ResultsHeld, ToFinalize, Unfinished, Collected
  <2> QED BY <1>3, <2>2 DEF Right, JobMore
<1>4. CASE i # j
  <2>1. mem'[i] = mem[i] /\ pc'[i] = pc[i] /\ todo'[i] = todo[i] /\ paper'[i] = paper[i]
    BY <1>2, <1>4 DEF Inv, TypeOK
  <2>2. JobMore(i) /\ JobFits(i) /\ mem[i] \in RunState
    BY DEF More, Inv, TypeOK
  <2>3. PICK s, M, pl, y, q : s = run[i] /\ M = mem[i] /\ pl = pc[i] /\ y = todo[i] /\ q = paper[i]
    OBVIOUS
  <2>4. StateFits(s, M) /\ PlaceFits(M, pl, y) /\ Sound(M) /\ CopyFits(s, M, pl)
    BY <2>2, <2>3 DEF JobMore, JobFits, CopyFits
  <2>5. StateFits(s, M)'
    <3>1. CASE s \in Run
      BY <2>2, <2>3, <2>4, <3>1, StateFitsOn
    <3>2. CASE s \notin Run
      <4>1. pl = "none"
        BY <2>2, <2>3, <3>2 DEF JobFits
      <4>2. M = NewState
        BY <2>4, <4>1 DEF PlaceFits, Working
      <4> QED BY <4>2 DEF StateFits, IdFits, Known, NewState
    <3> QED BY <3>1, <3>2
  <2>6. PlaceFits(M, pl, y)'
    <3>1. pl = "collect" => batches'[M.batch].ended
      <4>1. pl = "collect" => M.batch \in DOMAIN batches
        BY <2>2, <2>3, <2>4, BoundsNat DEF CopyFits, Sound, Awaiting, RunState, Inv, TypeOK
      <4> QED BY <2>4, <4>1 DEF PlaceFits, Grows
    <3> QED BY <2>4, <3>1 DEF PlaceFits
  <2>7. ASSUME s \notin shared
        PROVE  (FilesHeld(disk[s], M, pl, y) /\ ResultsHeld(s, disk[s], M, pl, q) /\ Unfinished(M, pl))'
    <3>1. CASE pl \notin Working
      BY <3>1 DEF FilesHeld, ResultsHeld, Unfinished, Later, Unsettled, Preparing, Awaiting, Working, Place
    <3>2. CASE pl \in Working
      <4>1. i \in Live /\ s \in Run /\ pl # "none"
        BY <2>2, <2>3, <3>2 DEF JobFits, Live, Working
      <4>2. s # r
        BY <1>0, <1>4, <2>3, <2>7, <4>1 DEF Inv, Apart, Frame
      <4>3. disk'[s] = disk[s] /\ manifest'[s] = manifest[s]
        BY <1>0, <1>2, <4>1, <4>2 DEF Frame
      <4>4. FilesHeld(disk[s], M, pl, y) /\ ResultsHeld(s, disk[s], M, pl, q) /\ Unfinished(M, pl)
        BY <2>2, <2>3, <2>7 DEF JobMore
      <4> QED BY <1>2, <4>3, <4>4 DEF FilesHeld, ResultsHeld, Unfinished, Collected, Settled, ToFinalize
    <3> QED BY <3>1, <3>2
  <2> QED BY <1>2, <2>1, <2>3, <2>5, <2>6, <2>7
          DEF JobMore, StateFits, IdFits, Known, PlaceFits, Settled,
              FilesHeld, ResultsHeld, ToFinalize, Unfinished, Collected
<1> QED BY <1>3, <1>4

(* So a turn of a coordinator keeps it all. *)
LEMMA TurnMore ==
  ASSUME Inv, Inv', Kept, More, NEW j \in Job, Frame(j), Grows, Lands(j), Joins(j),
         Passes(j) \/ UploadFile(j), erased' # {} => "cancel" \in Clicks
  PROVE  More'
<1>1. Frame(j) /\ Grows
  OBVIOUS
<1>2. Inv' /\ Kept
  OBVIOUS
<1>3. TokensFit'
  BY <1>1 DEF Frame, More, TokensFit
<1>4. ClaimsApart'
  <2>1. ASSUME NEW r \in Run \ shared
        PROVE  Claim(r)' \subseteq Claim(r)
    <3>1. manifest[r] # {} => manifest'[r] = manifest[r]
      BY <1>1 DEF Grows
    <3>2. manifest[r] = {} => manifest'[r] = {} \/ \E i \in Live : run[i] = r /\ manifest'[r] = targets[i]
      BY <1>1 DEF Frame
    <3> QED BY <1>1, <1>2, <3>1, <3>2, ClaimsShrink DEF Frame
  <2>2. shared' = shared
    BY <1>1 DEF Frame
  <2> QED BY <2>1, <2>2 DEF More, ClaimsApart
<1> QED BY <1>1, <1>2, <1>3, <1>4, OwnedOn, BatchesFitOn, RunMoreOn, JobMoreOn DEF More

(* No step of its own makes a coordinator's directory forget its submission. *)
LEMMA StepTells ==
  ASSUME NEW j \in Job, Step(j)
  PROVE  UNCHANGED erased
  BY DEF Step, Start, Snapshot, Stopped, Upload, UploadFile, Attempt, Create, Created, CreateFails,
         Reconcile, Poll, Retrieve, Collect, Finalize, Finalized, Wake, Delete, Conclude, Fail,
         Elsewhere, envVars

(* A step does. *)
LEMMA StepMore ==
  ASSUME Inv, More, NEW j \in Job, Step(j)
  PROVE  More'
<1>1. Frame(j) /\ Grows /\ Lands(j) /\ Joins(j)
  BY StepFrame, StepProper, StepJoins DEF Proper, Lands
<1>2. Inv' /\ Kept
  BY NextInv, StepKept DEF Next
<1>3. UNCHANGED erased
  BY StepTells
<1>4. erased' # {} => "cancel" \in Clicks
  BY <1>3 DEF More, TokensFit
<1> QED BY <1>1, <1>2, <1>4, StepPasses, TurnMore

(* A cut stays with its run as a step does, and loses no Batch. *)
LEMMA CutTurn ==
  ASSUME Inv, More, NEW j \in Job, Cut(j)
  PROVE  Frame(j) /\ Grows /\ Joins(j)
<1>0. PICK r, M, D : r = run[j] /\ M = mem[j] /\ D = disk[r]
  OBVIOUS
<1>1. /\ pc[j] \in Working /\ End(j, "cancelled")
      /\ UNCHANGED <<manifest, created, run, targets, token, closing, restarts, shared>>
      /\ UNCHANGED batches \/ (pc[j] = "create" /\ Accept(j))
  BY <1>0, CutOff
<1>2. r \in Run /\ M \in RunState
  BY <1>0, <1>1, Own DEF Working
<1>3. Accept(j) /\ pc[j] = "create" =>
        /\ DOMAIN batches' = DOMAIN batches \cup {Len(batches) + 1}
        /\ \A b \in DOMAIN batches : batches'[b] = batches[b]
  <2> SUFFICES ASSUME Accept(j), pc[j] = "create"
               PROVE  /\ DOMAIN batches' = DOMAIN batches \cup {Len(batches) + 1}
                      /\ \A b \in DOMAIN batches : batches'[b] = batches[b]
    OBVIOUS
  <2>1. pc[j] # "none" /\ M.input # 0
    BY <1>0, Holds DEF CopyFits
  <2>2. M.input \in File /\ manifest[r] \subseteq Request
    BY <1>2, <2>1 DEF RunState, Inv, TypeOK
  <2> QED BY <1>0, <1>2, <2>2, AcceptedMore
<1>4. Grows /\ Joins(j)
  <2>1. created <= created'
    BY <1>1, BoundsNat DEF Inv, TypeOK
  <2> QED BY <1>1, <1>3, <2>1 DEF Grows, Joins
<1>5. Frame(j)
  <2>1. j \in Live
    BY <1>1 DEF Inv, JobFits, Live
  <2>2. Live' \subseteq Live
    BY <1>1, <2>1 DEF Live, End, Inv, TypeOK
  <2> QED BY <1>0, <1>1, <1>2, <2>1, <2>2 DEF Frame
<1> QED BY <1>4, <1>5

(* So does the forced phase of shutdown: what is written is the directory with another     *)
(* phase, and that is the last one only where results are there and dealt with.            *)
LEMMA CutMore ==
  ASSUME Inv, More, NEW j \in Job, Cut(j)
  PROVE  More'
<1>0. PICK r, D, M : r = run[j] /\ D = disk[r] /\ M = mem[j]
  OBVIOUS
<1>1. PICK x :
        /\ pc[j] \in Working /\ End(j, "cancelled")
        /\ UNCHANGED <<manifest, created, run, targets, token, closing, restarts, shared>>
        /\ erased' \in {erased, erased \cup {r}} /\ (erased' # erased => Marks(j))
        /\ x \in {D.phase, "cancelled", Phase(r, pc[j])}
        /\ disk' = [disk EXCEPT ![r] = [D EXCEPT !.phase = x]]
        /\ x \in {D.phase, "cancelled"} \/ pc[j] \in {"cleanup", "abandon"}
        /\ x = D.phase \/ pc[j] \in {"cleanup", "abandon"} \/ Marks(j)
        /\ UNCHANGED batches \/ (pc[j] = "create" /\ Accept(j))
  <2>1. Cut(j) /\ D = disk[run[j]]
    BY <1>0
  <2>2. erased' # erased => Marks(j)
    BY DEF Cut, CutWait, CutCreate, CutDelete, CutEnd
  <2>3. /\ pc[j] \in Working /\ End(j, "cancelled")
        /\ UNCHANGED <<manifest, created, run, targets, token, closing, restarts, shared>>
        /\ erased' \in {erased, erased \cup {run[j]}}
        /\ UNCHANGED batches \/ (pc[j] = "create" /\ Accept(j))
    BY <2>1, CutOff
  <2>4. PICK x :
          /\ x \in {D.phase, "cancelled", Phase(run[j], pc[j])}
          /\ disk' = [disk EXCEPT ![run[j]] = [D EXCEPT !.phase = x]]
          /\ x \in {D.phase, "cancelled"} \/ pc[j] \in {"cleanup", "abandon"}
          /\ ~Marks(j) /\ pc[j] \notin {"cleanup", "abandon"} => x = D.phase
    BY <2>1, CutOff
  <2> WITNESS x
  <2> QED BY <1>0, <2>2, <2>3, <2>4
<1>2. /\ r \in Run /\ D \in RunState /\ M \in RunState /\ StateFits(r, D) /\ Sound(D)
      /\ r \notin shared =>
           /\ RunEnds(D) /\ RunSettles(r, D)
           /\ pc[j] \in {"cleanup", "abandon"} => Collected(D)
  <2>1. pc[j] # "none"
    BY <1>1 DEF Working
  <2> QED BY <1>0, <2>1, Holds DEF DirFits, ResultsHeld
<1>3. Inv' /\ Kept
  BY NextInv, CutKept DEF Next
<1>4. Frame(j) /\ Grows /\ Joins(j)
  BY CutTurn
<1>5. PICK n : n = [D EXCEPT !.phase = x]
  OBVIOUS
<1>6. /\ n.phase = x /\ n \in RunState /\ n.input = D.input /\ n.batch = D.batch
      /\ n.outcomes = D.outcomes /\ Sound(n)
      /\ StateFits(r, n) /\ (Collected(D) => Collected(n))
  <2>1. StateFits(r, n) /\ (Collected(D) => Collected(n))
    BY <1>2, <1>5, PhaseFits
  <2>2. n \in RunState
    <3>1. disk'[r] = n
      BY <1>1, <1>2, <1>5 DEF Inv, TypeOK
    <3> QED BY <1>2, <1>3, <3>1 DEF Inv, TypeOK
  <2>3. /\ n.phase = x /\ n.input = D.input /\ n.batch = D.batch /\ n.outcomes = D.outcomes
        /\ n.finalized = D.finalized
    BY <1>2, <1>5 DEF RunState
  <2> QED BY <1>2, <2>1, <2>2, <2>3 DEF Sound, Collected
<1>7. StateFits(r, n)'
  BY <1>2, <1>4, <1>6, StateFitsOn
<1>8. Marks(j) => "cancel" \in Clicks
  BY DEF Marks, More, TokensFit
<1>9. r \notin shared => RunEnds(n) /\ RunSettles(r, n)
  <2>1. closing /\ "shutdown" \in Clicks
    BY DEF Cut, More, TokensFit
  <2>2. r \notin shared => RunEnds(n)
    BY <1>1, <1>2, <1>6, <1>8 DEF RunEnds
  <2> QED BY <2>1, <2>2 DEF RunSettles
<1>10. Right(j, n, NewState, "done", {}, NoPaper)'
  <2>1. StateFits(r, NewState)'
    BY DEF StateFits, IdFits, Known, NewState
  <2>2. PlaceFits(NewState, "done", {})'
    BY DEF PlaceFits, Working
  <2>3. (FilesHeld(n, NewState, "done", {}) /\ ResultsHeld(r, n, NewState, "done", NoPaper)
         /\ Unfinished(NewState, "done"))'
    BY DEF FilesHeld, ResultsHeld, Unfinished, Later, Unsettled, Preparing, Awaiting, Working
  <2>4. r \notin shared => (RunEnds(n) /\ RunSettles(r, n))'
    BY <1>1, <1>9 DEF RunEnds, RunSettles, Settled, Collected
  <2> QED BY <1>0, <1>1, <1>7, <2>1, <2>2, <2>3, <2>4 DEF Right
<1>11. Lands(j)
  <2>1. Carries(j, n, NewState, "done", {}, NoPaper)
    BY <1>0, <1>1, <1>5 DEF Carries, End
  <2> QED BY <1>10, <2>1 DEF Lands, Leaves
<1>12. Passes(j)
  <2>1. disk'[r] = n /\ mem'[j] = NewState /\ NewState.input = 0
    BY <1>1, <1>2, <1>5 DEF End, NewState, Inv, TypeOK
  <2> QED BY <1>0, <1>6, <2>1 DEF Passes
<1>13. erased' # {} => "cancel" \in Clicks
  BY <1>1, <1>8 DEF More, TokensFit
<1> QED BY <1>3, <1>4, <1>11, <1>12, <1>13, TurnMore

-----------------------------------------------------------------------------
(* Requests, the end of the process and the provider *)

(* A job that is queued may take requests that no run lays claim to, or take a run up *)
(* that has its manifest. *)
LEMMA EnqueueMore ==
  ASSUME Inv, More, NEW k \in Job, NEW r \in Run, NEW Q \in SUBSET Request, Enqueue(k, r, Q),
         NEW d \in RunState, disk' = [disk EXCEPT ![r] = d],
         d = disk[r] \/ (d = NewState /\ manifest[r] = {}),
         manifest[r] = {} => /\ \A i \in Job : run[i] # r
                             /\ "cancel" \notin Clicks =>
                                  \A s \in Run \ shared : Claim(s) \cap Q = {}
  PROVE  More'
<1>1. /\ UNCHANGED <<manifest, batches, created, token, mem, paper, todo, closing, erased>>
      /\ state' = [state EXCEPT ![k] = "queued"] /\ pc' = [pc EXCEPT ![k] = "queued"]
      /\ run' = [run EXCEPT ![k] = r] /\ targets' = [targets EXCEPT ![k] = Q]
      /\ shared \subseteq shared' /\ state[k] = "absent"
  BY DEF Enqueue, remVars
<1>2. /\ disk'[r] = d /\ \A t \in Run \ {r} : disk'[t] = disk[t]
      /\ pc'[k] = "queued" /\ state'[k] = "queued" /\ run'[k] = r /\ targets'[k] = Q
      /\ \A i \in Job \ {k} : /\ pc'[i] = pc[i] /\ state'[i] = state[i] /\ run'[i] = run[i]
                              /\ targets'[i] = targets[i]
  BY <1>1 DEF Inv, TypeOK
<1>3. mem[k] = NewState /\ todo[k] = {}
  <2>1. pc[k] \notin Working
    BY <1>1 DEF Inv, JobFits
  <2> QED BY <2>1 DEF More, JobMore, PlaceFits, Working, Place
<1>4. NewState.input = 0 /\ NewState.phase = "planning" /\ StateFits(r, NewState)
  BY DEF NewState, StateFits, IdFits, Known
<1>5. TokensFit' /\ BatchesFit'
  BY <1>1 DEF More, TokensFit, BatchesFit
<1>6. Owned'
  <2>1. PICK own \in [File -> Run \cup {NoRun}] : InputsOwned(own)
    BY DEF More, Owned
  <2>2. ASSUME NEW t \in Run
        PROVE  OwnedBy(own, t, disk[t].input)'
    BY <1>1, <1>2, <1>4, <2>1 DEF InputsOwned, OwnedBy
  <2>3. ASSUME NEW i \in Job
        PROVE  OwnedBy(own, run[i], mem[i].input)'
    BY <1>1, <1>2, <1>3, <1>4, <2>1 DEF InputsOwned, OwnedBy
  <2>4. ASSUME NEW b \in DOMAIN batches
        PROVE  OwnedBy(own, batches[b].run, batches[b].input)'
    BY <1>1, <2>1 DEF InputsOwned, OwnedBy
  <2>5. InputsOwned(own)'
    BY <1>1, <2>2, <2>3, <2>4 DEF InputsOwned
  <2> QED BY <2>1, <2>5 DEF Owned
<1>7. ASSUME NEW t \in Run
      PROVE  RunMore(t)'
  <2>1. RunMore(t)
    BY DEF More
  <2>2. CASE disk'[t] = disk[t]
    BY <1>1, <2>1, <2>2 DEF RunMore, StateFits, IdFits, Known, Collected, RunEnds, RunSettles, Settled
  <2>3. CASE t = r /\ d = NewState
    <3>1. StateFits(r, NewState)'
      BY DEF StateFits, IdFits, Known, NewState
    <3>2. RunEnds(NewState)' /\ RunSettles(r, NewState)'
      BY <1>4 DEF RunEnds, RunSettles, Finished, Closed
    <3>3. disk'[t] = NewState
      BY <1>2, <2>3
    <3> QED BY <2>3, <3>1, <3>2, <3>3
            DEF RunMore, StateFits, IdFits, Known, Collected, RunEnds, RunSettles, Settled
  <2> QED BY <1>2, <2>2, <2>3
<1>8. ASSUME NEW i \in Job
      PROVE  JobMore(i)'
  <2>1. CASE i = k
    <3>1. StateFits(r, NewState)'
      BY DEF StateFits, IdFits, Known, NewState
    <3>2. PlaceFits(NewState, "queued", {})'
      BY DEF PlaceFits, Working
    <3>3. (FilesHeld(disk[r], NewState, "queued", {}) /\ ResultsHeld(r, disk[r], NewState, "queued", paper[k])
           /\ Unfinished(NewState, "queued"))'
      BY DEF FilesHeld, ResultsHeld, Unfinished, Later, Unsettled, Preparing, Awaiting, Working
    <3> QED BY <1>1, <1>2, <1>3, <2>1, <3>1, <3>2, <3>3
            DEF JobMore, StateFits, IdFits, Known, PlaceFits, Settled,
                FilesHeld, ResultsHeld, ToFinalize, Unfinished, Collected
  <2>2. CASE i # k
    <3>1. JobMore(i)
      BY DEF More
    <3>2. /\ run'[i] = run[i] /\ mem'[i] = mem[i] /\ pc'[i] = pc[i] /\ todo'[i] = todo[i]
          /\ paper'[i] = paper[i] /\ manifest' = manifest /\ batches' = batches /\ closing' = closing
      BY <1>1, <1>2, <2>2
    <3>3. StateFits(run[i], mem[i])' /\ PlaceFits(mem[i], pc[i], todo[i])'
      BY <3>1, <3>2 DEF JobMore, StateFits, IdFits, Known, Collected, PlaceFits
    <3>4. CASE pc[i] \notin Working
      BY <3>2, <3>3, <3>4 DEF JobMore, FilesHeld, ResultsHeld, Unfinished, Later, Unsettled, Preparing,
                              Awaiting, Working, Place
    <3>5. CASE pc[i] \in Working
      <4>1. run[i] \in Run
        BY <3>5 DEF Inv, JobFits, Working
      <4>2. disk'[run[i]] = disk[run[i]]
        BY <1>2, <4>1
      <4>3. run[i] \notin shared' => run[i] \notin shared
        BY <1>1
      <4> QED BY <3>1, <3>2, <3>3, <4>2, <4>3 DEF JobMore, FilesHeld, ResultsHeld, Unfinished, Collected,
                                                 Settled, ToFinalize
    <3> QED BY <3>4, <3>5
  <2> QED BY <2>1, <2>2
<1>9. ClaimsApart'
  <2> SUFFICES ASSUME "cancel" \notin Clicks, NEW s \in Run \ shared', NEW t \in Run \ shared', s # t
               PROVE  Claim(s)' \cap Claim(t)' = {}
    BY DEF ClaimsApart
  <2>1. s \in Run \ shared /\ t \in Run \ shared /\ Claim(s) \cap Claim(t) = {}
    BY <1>1 DEF More, ClaimsApart
  <2>2. Live' = Live \cup {k} /\ k \notin Live
    BY <1>1, <1>2 DEF Live
  <2>3. ASSUME NEW u \in Run, u # r
        PROVE  Claim(u)' = Claim(u)
    <3>1. disk'[u] = disk[u] /\ manifest'[u] = manifest[u]
      BY <1>1, <1>2, <2>3
    <3>2. CASE manifest[u] # {}
      BY <3>1, <3>2 DEF Claim, Collected
    <3>3. CASE manifest[u] = {}
      <4>1. ASSUME NEW q \in Request
            PROVE  (\E i \in Live' : run'[i] = u /\ q \in targets'[i]) <=>
                   (\E i \in Live : run[i] = u /\ q \in targets[i])
        BY <1>2, <2>2, <2>3 DEF Live
      <4> QED BY <3>1, <3>3, <4>1 DEF Claim
    <3> QED BY <3>2, <3>3
  <2>4. CASE manifest[r] # {}
    <3>1. d = disk[r]
      BY <2>4
    <3>2. Claim(r)' = Claim(r)
      BY <1>1, <1>2, <2>4, <3>1 DEF Claim, Collected
    <3> QED BY <2>1, <2>3, <3>2
  <2>5. CASE manifest[r] = {}
    <3>1. Claim(r)' \subseteq Q
      <4>1. \A i \in Job \ {k} : run'[i] # r
        BY <1>2, <2>5
      <4>2. manifest'[r] = {}
        BY <1>1, <2>5
      <4>3. \A i \in Live' : run'[i] = r => targets'[i] = Q
        BY <1>2, <4>1 DEF Live
      <4> QED BY <4>2, <4>3 DEF Claim
    <3>2. \A u \in Run \ shared : Claim(u) \cap Q = {}
      BY <2>5
    <3> QED BY <2>1, <2>3, <3>1, <3>2
  <2> QED BY <2>4, <2>5
<1> QED BY <1>5, <1>6, <1>7, <1>8, <1>9 DEF More

(* A new run takes nothing that is in flight: what a run has a claim to is asked for by a *)
(* live job, or in the manifest of a run that is not over. *)
LEMMA QueueRunMore ==
  ASSUME Inv, More, NEW k \in Job, NEW Q \in SUBSET Request, QueueRun(k, Q)
  PROVE  More'
<1>1. PICK r \in Run \ Stored :
        /\ \A i \in Job : run[i] # r
        /\ Enqueue(k, r, Q) /\ disk' = [disk EXCEPT ![r] = NewState]
  BY DEF QueueRun
<1>2. manifest[r] = {}
  BY <1>1 DEF Stored
<1>3. ASSUME "cancel" \notin Clicks, NEW s \in Run \ shared
      PROVE  Claim(s) \cap Q = {}
  <2>1. ~InFlight(Q)
    BY DEF QueueRun
  <2>2. CASE manifest[s] = {}
    BY <2>1, <2>2 DEF Claim, InFlight
  <2>3. CASE manifest[s] # {}
    <3>1. disk[s].phase \in Finished => Collected(disk[s])
      BY <1>3 DEF More, RunMore, RunEnds
    <3>2. disk[s].phase \notin Finished => manifest[s] \cap Q = {}
      BY <2>1, <2>3 DEF InFlight, Stored
    <3> QED BY <2>3, <3>1, <3>2 DEF Claim
  <2> QED BY <2>2, <2>3
<1> QED BY <1>1, <1>2, <1>3, NewStateTyped, EnqueueMore

(* Another coordinator of a stored run. *)
LEMMA StoredMore ==
  ASSUME Inv, More, NEW k \in Job, NEW r \in Stored, NEW Q \in SUBSET Request, Enqueue(k, r, Q),
         UNCHANGED disk
  PROVE  More'
<1>1. r \in Run /\ manifest[r] # {} /\ disk[r] \in RunState
  BY DEF Stored, Inv, TypeOK
<1>2. disk' = [disk EXCEPT ![r] = disk[r]]
  BY <1>1, DiskSame DEF Inv
<1> QED BY <1>1, <1>2, EnqueueMore

(* Steps that touch no directory: jobs are cancelled in the queue, Batches end. *)
LEMMA QuietMore ==
  ASSUME Inv, Inv', More, Grows, TokensFit', DOMAIN batches' = DOMAIN batches,
         UNCHANGED <<manifest, disk, run, targets, mem, paper, todo, shared>>,
         closing => closing',
         \A j \in Job : \/ state'[j] = state[j] /\ pc'[j] = pc[j]
                        \/ j \in Live /\ state'[j] = "cancelled" /\ pc'[j] = "done" /\ pc[j] \notin Working
  PROVE  More'
<1>1. Owned'
  <2>1. PICK own \in [File -> Run \cup {NoRun}] : InputsOwned(own)
    BY DEF More, Owned
  <2>2. created \in Nat /\ created' \in Nat /\ created <= created'
    BY BoundsNat DEF Inv, TypeOK, Grows
  <2>3. ASSUME NEW s, NEW f \in File \cup {0}, OwnedBy(own, s, f)
        PROVE  OwnedBy(own, s, f)'
    BY <2>2, <2>3 DEF OwnedBy, File
  <2>4. ASSUME NEW t \in Run
        PROVE  OwnedBy(own, t, disk[t].input)'
    <3>1. PICK x : x = disk[t].input /\ x \in File \cup {0}
      BY DEF Inv, TypeOK, RunState
    <3>2. OwnedBy(own, t, x)'
      BY <2>1, <2>3, <3>1 DEF InputsOwned
    <3> QED BY <3>1, <3>2 DEF OwnedBy
  <2>5. ASSUME NEW i \in Job
        PROVE  OwnedBy(own, run[i], mem[i].input)'
    <3>1. PICK s, x : s = run[i] /\ x = mem[i].input /\ x \in File \cup {0}
      BY DEF Inv, TypeOK, RunState
    <3>2. OwnedBy(own, s, x)'
      BY <2>1, <2>3, <3>1 DEF InputsOwned
    <3> QED BY <3>1, <3>2 DEF OwnedBy
  <2>6. ASSUME NEW b \in DOMAIN batches
        PROVE  OwnedBy(own, batches[b].run, batches[b].input)'
    <3>1. PICK y : y = batches[b] /\ y \in Batch
      BY DEF Inv, TypeOK
    <3>2. PICK s, x : s = y.run /\ x = y.input /\ x \in File \cup {0}
      BY <3>1 DEF Batch
    <3>3. OwnedBy(own, s, x)'
      BY <2>1, <2>3, <3>1, <3>2 DEF InputsOwned
    <3>4. batches'[b].run = s /\ batches'[b].input = x
      BY <3>1, <3>2 DEF Grows
    <3> QED BY <3>3, <3>4 DEF OwnedBy
  <2>7. InputsOwned(own)'
    BY <2>4, <2>5, <2>6 DEF InputsOwned
  <2> QED BY <2>1, <2>7 DEF Owned
<1>2. BatchesFit'
  BY DEF More, BatchesFit, Grows
<1>3. ASSUME NEW t \in Run
      PROVE  RunMore(t)'
  <2>1. PICK D : D = disk[t] /\ D \in RunState /\ D = disk'[t]
    BY DEF Inv, TypeOK
  <2>2. StateFits(t, D)'
    BY <2>1, StateFitsOn DEF More, RunMore, Inv, RunFits, DirFits
  <2>3. t \notin shared => RunEnds(D)' /\ RunSettles(t, D)'
    BY <2>1 DEF More, RunMore, RunEnds, RunSettles, Settled, Collected
  <2> QED BY <2>1, <2>2, <2>3 DEF RunMore, StateFits, IdFits, Known, Collected, RunEnds, RunSettles,
                                  Settled
<1>4. ASSUME NEW i \in Job
      PROVE  JobMore(i)'
  <2>1. JobMore(i) /\ JobFits(i) /\ mem[i] \in RunState
    BY DEF More, Inv, TypeOK
  <2>2. PICK s, M, y, q : /\ s = run[i] /\ M = mem[i] /\ y = todo[i] /\ q = paper[i]
                          /\ s = run'[i] /\ M = mem'[i] /\ y = todo'[i] /\ q = paper'[i]
    OBVIOUS
  <2>3. StateFits(s, M) /\ PlaceFits(M, pc[i], y) /\ Sound(M) /\ CopyFits(s, M, pc[i])
    BY <2>1, <2>2 DEF JobMore, JobFits, CopyFits
  <2>4. StateFits(s, M)'
    <3>1. CASE s \in Run
      BY <2>1, <2>2, <2>3, <3>1, StateFitsOn
    <3>2. CASE s \notin Run
      <4>1. pc[i] = "none"
        BY <2>1, <2>2, <3>2 DEF JobFits
      <4>2. M = NewState
        BY <2>3, <4>1 DEF PlaceFits, Working
      <4> QED BY <4>2 DEF StateFits, IdFits, Known, NewState
    <3> QED BY <3>1, <3>2
  <2>5. CASE pc'[i] = pc[i]
    <3>1. PICK pl : pl = pc[i] /\ pl = pc'[i]
      BY <2>5
    <3>2. pl = "collect" => batches'[M.batch].ended
      <4>1. pl = "collect" => M.batch \in DOMAIN batches
        BY <2>1, <2>2, <2>3, <3>1, BoundsNat DEF CopyFits, Sound, Awaiting, RunState, Inv, TypeOK
      <4> QED BY <2>3, <3>1, <4>1 DEF PlaceFits, Grows
    <3>3. PlaceFits(M, pl, y)'
      BY <2>3, <3>1, <3>2 DEF PlaceFits
    <3>4. s \notin shared =>
            (FilesHeld(disk[s], M, pl, y) /\ ResultsHeld(s, disk[s], M, pl, q) /\ Unfinished(M, pl))'
      BY <2>1, <2>2, <3>1
         DEF JobMore, FilesHeld, ResultsHeld, Unfinished, Collected, Settled, ToFinalize
    <3> QED BY <2>2, <2>4, <3>1, <3>3, <3>4
            DEF JobMore, StateFits, IdFits, Known, PlaceFits, Settled,
                FilesHeld, ResultsHeld, ToFinalize, Unfinished, Collected
  <2>6. CASE pc[i] \notin Working /\ pc'[i] = "done"
    <3>1. M = NewState /\ y = {}
      BY <2>3, <2>6 DEF PlaceFits, Working, Place
    <3>2. PlaceFits(M, "done", y)'
      BY <3>1 DEF PlaceFits, Working
    <3>3. (FilesHeld(disk[s], M, "done", y) /\ ResultsHeld(s, disk[s], M, "done", q)
           /\ Unfinished(M, "done"))'
      BY DEF FilesHeld, ResultsHeld, Unfinished, Later, Unsettled, Preparing, Awaiting, Working
    <3> QED BY <2>2, <2>4, <2>6, <3>2, <3>3
            DEF JobMore, StateFits, IdFits, Known, PlaceFits, Settled,
                FilesHeld, ResultsHeld, ToFinalize, Unfinished, Collected
  <2> QED BY <2>5, <2>6
<1>5. ClaimsApart'
  <2>1. Live' \subseteq Live
    BY DEF Live
  <2>2. ASSUME NEW r \in Run \ shared
        PROVE  Claim(r)' \subseteq Claim(r)
    <3>1. Kept
      BY UnwrittenKept
    <3> QED BY <2>1, <3>1, ClaimsShrink
  <2> QED BY <2>2 DEF More, ClaimsApart
<1> QED BY <1>1, <1>2, <1>3, <1>4, <1>5 DEF More

(* Jobs are told, by a user or by the shutdown. *)
LEMMA ToldMore ==
  ASSUME Inv, Inv', More, NEW S \in SUBSET Job, NEW reason \in {"user", "shutdown"}, Told(S, reason),
         closing => closing',
         UNCHANGED erased, reason = "user" => "cancel" \in Clicks /\ closing' = closing,
         reason = "shutdown" => "shutdown" \in Clicks /\ closing'
  PROVE  More'
<1>1. UNCHANGED <<manifest, disk, batches, created, run, targets, mem, paper, todo, shared>>
  BY DEF Told, dirVars, remVars, jobVars
<1>2. ASSUME NEW j \in Job
      PROVE  \/ state'[j] = state[j] /\ pc'[j] = pc[j]
             \/ j \in Live /\ state'[j] = "cancelled" /\ pc'[j] = "done" /\ pc[j] \notin Working
  BY DEF Told, Signal, Inv, JobFits
<1>3. TokensFit'
  <2>1. ASSUME NEW j \in Job
        PROVE  token'[j] \in {token[j], reason}
    BY DEF Told
  <2> QED BY <2>1 DEF More, TokensFit
<1>4. Grows
  <2>1. created <= created'
    BY <1>1, BoundsNat DEF Inv, TypeOK
  <2> QED BY <1>1, <2>1 DEF Grows
<1> QED BY <1>1, <1>2, <1>3, <1>4, QuietMore

(* A Batch ends and keeps its run, its input and its requests. *)
LEMMA EndBatchGrows ==
  ASSUME Inv, NEW b \in DOMAIN batches, EndBatch(b)
  PROVE  Grows /\ DOMAIN batches' = DOMAIN batches
<1>1. UNCHANGED manifest
  BY DEF EndBatch, dirVars
<1>2. batches \in Seq(Batch) /\ batches[b] \in Batch
  BY DEF Inv, TypeOK
<1>3. PICK o, n : /\ o = batches[b] /\ n.run = o.run /\ n.input = o.input /\ n.requests = o.requests
                  /\ n.ended /\ batches' = [batches EXCEPT ![b] = n]
  <2>1. PICK ok \in SUBSET batches[b].requests :
          \/ batches' = [batches EXCEPT ![b] = [@ EXCEPT !.ended = TRUE, !.ok = ok, !.output = created + 1]]
          \/ batches' = [batches EXCEPT ![b].ended = TRUE]
    BY DEF EndBatch
  <2>2. PICK o : o = batches[b] /\ o \in Batch
    BY <1>2
  <2>3. PICK x, y : /\ x = [o EXCEPT !.ended = TRUE, !.ok = ok, !.output = created + 1]
                    /\ y = [o EXCEPT !.ended = TRUE]
    OBVIOUS
  <2>4. /\ x.run = o.run /\ x.input = o.input /\ x.requests = o.requests /\ x.ended
        /\ y.run = o.run /\ y.input = o.input /\ y.requests = o.requests /\ y.ended
    BY <2>2, <2>3 DEF Batch
  <2>5. batches' = [batches EXCEPT ![b] = x] \/ batches' = [batches EXCEPT ![b] = y]
    BY <2>1, <2>2, <2>3
  <2>6. CASE batches' = [batches EXCEPT ![b] = x]
    BY <2>2, <2>4, <2>6
  <2>7. CASE batches' = [batches EXCEPT ![b] = y]
    BY <2>2, <2>4, <2>7
  <2> QED BY <2>5, <2>6, <2>7
<1>4. /\ DOMAIN batches' = DOMAIN batches
      /\ \A c \in DOMAIN batches : c # b => batches'[c] = batches[c]
      /\ batches'[b] = n
  BY <1>2, <1>3
<1>5. created <= created'
  BY BoundsNat DEF EndBatch, Store, Inv, TypeOK
<1>6. Grows
  BY <1>1, <1>3, <1>4, <1>5 DEF Grows
<1> QED BY <1>4, <1>6

(* So nothing else is disturbed. *)
LEMMA EndBatchMore ==
  ASSUME Inv, Inv', More, NEW b \in DOMAIN batches, EndBatch(b)
  PROVE  More'
<1>1. UNCHANGED <<manifest, disk, state, token, pc, run, targets, mem, paper, todo, closing, shared,
                   erased>>
  BY DEF EndBatch, dirVars, jobVars, envVars
<1>2. TokensFit'
  BY <1>1 DEF More, TokensFit
<1> QED BY <1>1, <1>2, EndBatchGrows, QuietMore

(* The process ends: no coordinator is left. *)
LEMMA RestartMore ==
  ASSUME Inv, More, Restart
  PROVE  More'
<1>1. UNCHANGED <<manifest, disk, batches, created, shared, erased>>
  BY DEF Restart, dirVars, remVars
<1>2. /\ \A j \in Job : /\ state'[j] = "absent" /\ run'[j] = NoRun /\ token'[j] = "clear"
                        /\ pc'[j] = "none" /\ mem'[j] = NewState /\ todo'[j] = {}
      /\ closing' = FALSE
  BY DEF Restart
<1>3. TokensFit' /\ BatchesFit'
  BY <1>1, <1>2 DEF TokensFit, More, BatchesFit
<1>4. Owned'
  <2>1. PICK own \in [File -> Run \cup {NoRun}] : InputsOwned(own)
    BY DEF More, Owned
  <2>2. NewState.input = 0
    BY DEF NewState
  <2>3. InputsOwned(own)'
    BY <1>1, <1>2, <2>1, <2>2 DEF InputsOwned, OwnedBy
  <2> QED BY <2>1, <2>3 DEF Owned
<1>5. ASSUME NEW t \in Run
      PROVE  RunMore(t)'
  BY <1>1 DEF More, RunMore, StateFits, IdFits, Known, Collected, RunEnds, RunSettles, Settled
<1>6. ASSUME NEW j \in Job
      PROVE  JobMore(j)'
  <2>1. StateFits(NoRun, NewState)' /\ PlaceFits(NewState, "none", {})'
    BY DEF StateFits, IdFits, Known, NewState, PlaceFits, Working
  <2>2. NoRun \notin Run
    BY NoneIsNone
  <2>3. FilesHeld(disk[run[j]], mem[j], pc[j], todo[j])'
        /\ ResultsHeld(run[j], disk[run[j]], mem[j], pc[j], paper[j])' /\ Unfinished(mem[j], pc[j])'
    BY <1>2 DEF FilesHeld, ResultsHeld, Unfinished, Later, Unsettled, Preparing, Awaiting, Working
  <2> QED BY <1>2, <2>1, <2>3 DEF JobMore, StateFits, IdFits, Known, Collected, PlaceFits
<1>7. ClaimsApart'
  <2>1. Live' = {}
    BY <1>2 DEF Live
  <2>2. ASSUME NEW r \in Run
        PROVE  Claim(r)' \subseteq Claim(r)
    BY <1>1, <2>1 DEF Claim, Collected
  <2> QED BY <1>1, <2>2 DEF More, ClaimsApart
<1> QED BY <1>3, <1>4, <1>5, <1>6, <1>7 DEF More

(* In the beginning there is nothing to claim. *)
LEMMA InitMore == Init => More
<1> SUFFICES ASSUME Init PROVE More
  OBVIOUS
<1>1. /\ \A r \in Run : disk[r] = NewState /\ manifest[r] = {}
      /\ \A j \in Job : /\ state[j] = "absent" /\ token[j] = "clear" /\ pc[j] = "none"
                        /\ mem[j] = NewState /\ todo[j] = {}
      /\ batches = <<>> /\ closing = FALSE /\ erased = {} /\ DOMAIN batches = {}
  BY DEF Init
<1>2. NewState.input = 0 /\ NewState.phase = "planning" /\ ~Collected(NewState)
      /\ \A r : StateFits(r, NewState)
  BY DEF NewState, Collected, StateFits, IdFits, Known
<1>3. TokensFit /\ BatchesFit
  BY <1>1 DEF TokensFit, BatchesFit
<1>4. Owned
  <2>1. PICK own : own = [f \in File |-> NoRun]
    OBVIOUS
  <2>2. InputsOwned(own)
    BY <1>1, <1>2 DEF InputsOwned, OwnedBy
  <2> QED BY <2>1, <2>2 DEF Owned
<1>5. \A r \in Run : RunMore(r)
  BY <1>1, <1>2 DEF RunMore, RunEnds, RunSettles, Finished, Closed
<1>6. \A j \in Job : JobMore(j)
  BY <1>1, <1>2 DEF JobMore, PlaceFits, FilesHeld, ResultsHeld, Unfinished, Later, Unsettled, Preparing,
                    Awaiting, Working
<1>7. ClaimsApart
  <2>1. Live = {}
    BY <1>1 DEF Live
  <2> QED BY <1>1, <2>1 DEF ClaimsApart, Claim
<1> QED BY <1>3, <1>4, <1>5, <1>6, <1>7 DEF More

(* Every step keeps More. *)
LEMMA NextMore == Inv /\ More /\ [Next]_vars => More'
<1> SUFFICES ASSUME Inv, More, [Next]_vars PROVE More'
  OBVIOUS
<1>0. Inv'
  BY NextInv
<1>1. ASSUME UNCHANGED <<manifest, disk, batches, created, run, targets, mem, paper, todo, shared, closing,
                         state, pc, token, erased>>
      PROVE  More'
  <2>1. created <= created'
    BY <1>1, BoundsNat DEF Inv, TypeOK
  <2>2. Grows /\ TokensFit'
    BY <1>1, <2>1 DEF Grows, More, TokensFit
  <2> QED BY <1>0, <1>1, <2>2, QuietMore
<1>2. CASE UNCHANGED vars
  BY <1>1, <1>2 DEF vars, dirVars, remVars, jobVars, envVars
<1>3. CASE Clicked
  <2>1. ASSUME NEW j \in Job, NEW Q \in SUBSET Request, QueueRun(j, Q)
        PROVE  More'
    BY <2>1, QueueRunMore
  <2>2. ASSUME NEW j \in Job, NEW k \in Job, Retry(j, k)
        PROVE  More'
    <3>1. run[j] \in Stored /\ targets[j] \in SUBSET Request
      BY <2>2 DEF Retry, Inv, TypeOK
    <3>2. Failed(run[j]) \in SUBSET Request
      BY <3>1 DEF Failed, Stored, Inv, TypeOK
    <3> QED BY <2>1, <2>2, <3>1, <3>2, StoredMore DEF Retry, RetryFailed, RetrySame
  <2>3. ASSUME NEW j \in Job, NEW r \in Run, Resume(j, r)
        PROVE  More'
    <3>1. r \in Stored /\ {} \in SUBSET Request
      BY <2>3 DEF Resume, Resumable, Idle
    <3> QED BY <2>3, <3>1, StoredMore DEF Resume
  <2>4. ASSUME NEW r \in Run, PruneOld(r)
        PROVE  More'
    BY <1>1, <2>4 DEF PruneOld, remVars, jobVars, envVars
  <2>5. ASSUME NEW j \in Job, Cancel(j)
        PROVE  More'
    <3>1. Told({j}, "user") /\ closing' = closing /\ {j} \in SUBSET Job /\ "cancel" \in Clicks
          /\ UNCHANGED erased
      BY <2>5 DEF Cancel, Told
    <3> QED BY <1>0, <3>1, ToldMore
  <2> QED BY <1>3, <2>1, <2>2, <2>3, <2>4, <2>5 DEF Clicked
<1>4. ASSUME NEW j \in Job, Step(j)
      PROVE  More'
  BY <1>4, StepMore
<1>5. ASSUME NEW b \in DOMAIN batches, EndBatch(b)
      PROVE  More'
  BY <1>0, <1>5, EndBatchMore
<1>6. CASE Shutdown
  <2>1. Told(Job, "shutdown") /\ closing' /\ "shutdown" \in Clicks /\ UNCHANGED erased
    BY <1>6 DEF Shutdown, Told
  <2> QED BY <1>0, <2>1, ToldMore
<1>7. CASE Restart
  BY <1>7, RestartMore
<1>8. ASSUME NEW j \in Job, Cut(j)
      PROVE  More'
  BY <1>8, CutMore
<1> QED BY <1>2, <1>3, <1>4, <1>5, <1>6, <1>7, <1>8 DEF Next

(* It holds in every reachable state. *)
LEMMA MoreInvariant == Spec => [](Inv /\ More)
<1>1. Inv /\ More /\ [Next]_vars => (Inv /\ More)'
  BY NextInv, NextMore
<1> QED BY <1>1, InitInv, InitMore, PTL DEF Spec

-----------------------------------------------------------------------------
(* What follows from it *)

(* Unless the application is shut down, a run that is over has installed or rejected every *)
(* result it was given: the loop over the papers ends early only for a token, and a run    *)
(* whose coordinator failed is not over.                                                   *)
THEOREM PaidForKept ==
  ASSUME "shutdown" \notin Clicks
  PROVE  Spec => []PaidResultsKept
<1>1. Inv /\ More => PaidResultsKept
  BY DEF More, RunMore, RunSettles, Settled, Closed, PaidResultsKept
<1> QED BY <1>1, MoreInvariant, PTL

(* Unless users cancel, no request is in two Batches under way: whoever lays claim to it   *)
(* keeps it until the results are there, and _reject_duplicate_targets sees every claim.   *)
THEOREM NeverPaidTwice ==
  ASSUME "cancel" \notin Clicks
  PROVE  Spec => []DisjointBatches
<1>1. ASSUME Inv, More, NEW b \in DOMAIN batches, NEW c \in DOMAIN batches, b # c,
             \A x \in {b, c} : ~batches[x].ended /\ batches[x].run \notin shared
      PROVE  batches[b].requests \cap batches[c].requests = {}
  <2>1. ASSUME NEW x \in {b, c}
        PROVE  /\ batches[x].run \in Run \ shared /\ batches[x].requests = Claim(batches[x].run)
               /\ \A y \in DOMAIN batches : batches[y].run = batches[x].run => y = x
    <3>1. PICK X, r, D : X = batches[x] /\ r = X.run /\ D = disk[r]
      OBVIOUS
    <3>2. x \in DOMAIN batches /\ ~X.ended /\ r \notin shared
      BY <1>1, <2>1, <3>1
    <3>3. X \in Batch /\ r \in Run
      <4>1. X \in Batch
        BY <1>1, <3>1, <3>2 DEF Inv, TypeOK
      <4> QED BY <3>1, <4>1 DEF Batch
    <3>4. D \in RunState /\ DirFits(r, D) /\ Single(r, D) /\ StateFits(r, D)
      BY <1>1, <3>1, <3>2, <3>3 DEF Inv, TypeOK, RunFits, More, RunMore
    <3>5. \A y \in DOMAIN batches : batches[y].run = r => y = x
      <4>1. r \notin erased
        BY <1>1 DEF More, TokensFit
      <4> QED BY <3>1, <3>2, <3>4, <4>1 DEF Single, BatchesOf
    <3>6. ~Collected(D)
      <4> SUFFICES ASSUME Collected(D) PROVE FALSE
        OBVIOUS
      <4>1. D.batch # 0 /\ D.batch \in DOMAIN batches
        BY <1>1, <3>4, BoundsNat DEF DirFits, Sound, RunState, Inv, TypeOK
      <4>2. batches[D.batch].run = r /\ batches[D.batch].ended
        BY <3>4, <4>1 DEF StateFits, IdFits
      <4> QED BY <3>1, <3>2, <3>5, <4>1, <4>2
    <3>7. X.requests = manifest[r] /\ manifest[r] # {} /\ manifest[r] \subseteq Request
      <4>1. manifest[r] \subseteq Request
        BY <1>1, <3>3 DEF Inv, TypeOK
      <4> QED BY <1>1, <3>1, <3>2, <4>1 DEF More, BatchesFit
    <3>8. Claim(r) = manifest[r]
      BY <3>1, <3>6, <3>7 DEF Claim
    <3> QED BY <3>1, <3>2, <3>3, <3>5, <3>7, <3>8
  <2>2. PICK r, s : r = batches[b].run /\ s = batches[c].run
    OBVIOUS
  <2>3. /\ r \in Run \ shared /\ s \in Run \ shared
        /\ batches[b].requests = Claim(r) /\ batches[c].requests = Claim(s)
    BY <2>1, <2>2
  <2>4. r # s
    BY <1>1, <2>1, <2>2
  <2> QED BY <1>1, <2>3, <2>4 DEF More, ClaimsApart
<1>2. Inv /\ More => DisjointBatches
  BY <1>1 DEF DisjointBatches
<1> QED BY <1>2, MoreInvariant, PTL

\* What every step has to keep of the files of the runs that nobody shares.
Remembers == \A r \in Stored \ shared' : ToDelete(r) \cap files' \subseteq ToDelete(r)'

(* A step of a coordinator: others of its run have nothing to delete. *)
LEMMA StepRemembers ==
  ASSUME Inv, More, NEW j \in Job, Step(j)
  PROVE  Remembers
<1> SUFFICES ASSUME NEW r \in Stored \ shared', NEW f \in ToDelete(r) \cap files'
             PROVE  f \in ToDelete(r)'
  BY DEF Remembers
<1>1. Frame(j) /\ Proper(j)
  BY StepFrame, StepProper
<1>2. PICK d, t : /\ disk' = [disk EXCEPT ![run[j]] = d] /\ todo' = [todo EXCEPT ![j] = t]
                  /\ Retains(j, d, t)
  BY <1>1 DEF Proper, Leaves, Carries
<1>3. /\ run[j] \in Run /\ run' = run /\ shared' = shared /\ r \in Run \ shared
      /\ disk'[run[j]] = d /\ todo'[j] = t
      /\ \A i \in Job \ {j} : todo'[i] = todo[i]
      /\ r # run[j] => disk'[r] = disk[r]
  BY <1>1, <1>2 DEF Frame, Stored, Inv, TypeOK
<1>4. ASSUME NEW i \in Job, i # j, run[i] = run[j], run[j] \notin shared
      PROVE  todo[i] = {}
  <2>1. i \notin Live
    BY <1>1, <1>3, <1>4 DEF Inv, Apart, Frame
  <2>2. pc[i] \notin Working
    BY <2>1 DEF Inv, JobFits, Live
  <2> QED BY <2>2 DEF More, JobMore, PlaceFits, Working, Place
<1>5. CASE r = run[j]
  <2>1. f \in disk[r].cleanup \cup todo[j]
    BY <1>3, <1>4, <1>5 DEF ToDelete
  <2>2. f \in d.cleanup \cup t
    BY <1>2, <1>3, <1>5, <2>1 DEF Retains
  <2> QED BY <1>3, <1>5, <2>2 DEF ToDelete
<1>6. CASE r # run[j]
  <2>1. \A i \in Job : run[i] = r => todo'[i] = todo[i]
    BY <1>3, <1>6
  <2> QED BY <1>3, <1>6, <2>1 DEF ToDelete
<1> QED BY <1>5, <1>6

(* A job that is queued had no files to delete, and no stored run is blanked. *)
LEMMA EnqueueRemembers ==
  ASSUME Inv, More, NEW k \in Job, NEW r \in Run, NEW Q, Enqueue(k, r, Q),
         UNCHANGED disk \/ (r \notin Stored /\ disk' = [disk EXCEPT ![r] = NewState])
  PROVE  Remembers
<1> SUFFICES ASSUME NEW t \in Stored, NEW f \in ToDelete(t)
             PROVE  f \in ToDelete(t)'
  BY DEF Remembers
<1>1. todo' = todo /\ state[k] = "absent" /\ \A i \in Job \ {k} : run'[i] = run[i]
  BY DEF Enqueue, Inv, TypeOK
<1>2. todo[k] = {}
  <2>1. pc[k] \notin Working
    BY <1>1 DEF Inv, JobFits
  <2> QED BY <2>1 DEF More, JobMore, PlaceFits, Working, Place
<1>3. disk'[t] = disk[t]
  BY DEF Stored, Inv, TypeOK
<1> QED BY <1>1, <1>2, <1>3 DEF ToDelete

\* A coordinator of run r is cut.
CutShort(r) == \E j \in Job : run[j] = r /\ Cut(j)

(* A cut drops what its own coordinator had to delete and no more, and leaves the list on *)
(* record of every run.                                                                    *)
LEMMA CutRemembers ==
  ASSUME Inv, NEW j \in Job, Cut(j), NEW r \in Run
  PROVE  disk'[r].cleanup = disk[r].cleanup /\ (r # run[j] => ToDelete(r)' = ToDelete(r))
<1>1. PICK d : d = disk[run[j]]
  OBVIOUS
<1>2. PICK x : disk' = [disk EXCEPT ![run[j]] = [d EXCEPT !.phase = x]]
  BY <1>1, CutOff
<1>3. End(j, "cancelled") /\ pc[j] \in Working /\ UNCHANGED run
  BY <1>1, CutOff
<1>4. run[j] \in Run
  BY <1>3, Own DEF Working
<1>5. d \in RunState
  BY <1>1, <1>4 DEF Inv, TypeOK
<1>6. disk'[r].cleanup = disk[r].cleanup
  <2>1. CASE r = run[j]
    BY <1>1, <1>2, <1>5, <2>1 DEF Inv, TypeOK, RunState
  <2>2. CASE r # run[j]
    BY <1>2, <2>2 DEF Inv, TypeOK
  <2> QED BY <2>1, <2>2
<1>7. ASSUME r # run[j]
      PROVE  ToDelete(r)' = ToDelete(r)
  <2>1. \A i \in Job : run[i] = r => todo'[i] = todo[i]
    BY <1>3, <1>7 DEF End, Inv, TypeOK
  <2> QED BY <1>3, <1>6, <2>1 DEF ToDelete
<1> QED BY <1>6, <1>7

(* Every step but a cut and the end of the process keeps them. *)
LEMMA NextRemembers ==
  ASSUME Inv, More, [Next]_vars, restarts' = restarts, \A j \in Job : ~Cut(j)
  PROVE  Remembers
<1>1. ASSUME UNCHANGED <<disk, run, todo>>
      PROVE  Remembers
  BY <1>1 DEF Remembers, ToDelete
<1>2. CASE UNCHANGED vars
  BY <1>1, <1>2 DEF vars, dirVars, jobVars
<1>3. CASE Clicked
  <2>1. ASSUME NEW k \in Job, NEW Q, QueueRun(k, Q)
        PROVE  Remembers
    BY <2>1, EnqueueRemembers DEF QueueRun
  <2>2. ASSUME NEW j \in Job, NEW k \in Job, Retry(j, k)
        PROVE  Remembers
    <3>1. run[j] \in Run
      BY <2>2 DEF Retry, Stored
    <3> QED BY <2>1, <2>2, <3>1, EnqueueRemembers DEF Retry, RetryFailed, RetrySame
  <2>3. ASSUME NEW j \in Job, NEW r \in Run, Resume(j, r)
        PROVE  Remembers
    BY <2>3, EnqueueRemembers DEF Resume
  <2>4. ASSUME NEW r \in Run, PruneOld(r)
        PROVE  Remembers
    BY <1>1, <2>4 DEF PruneOld, jobVars
  <2>5. ASSUME NEW j \in Job, Cancel(j)
        PROVE  Remembers
    BY <1>1, <2>5 DEF Cancel, Told, dirVars, jobVars
  <2> QED BY <1>3, <2>1, <2>2, <2>3, <2>4, <2>5 DEF Clicked
<1>4. ASSUME NEW j \in Job, Step(j)
      PROVE  Remembers
  BY <1>4, StepRemembers
<1>5. ASSUME NEW b \in DOMAIN batches, EndBatch(b)
      PROVE  Remembers
  BY <1>1, <1>5 DEF EndBatch, dirVars, jobVars
<1>6. CASE Shutdown
  BY <1>1, <1>6 DEF Shutdown, Told, dirVars, jobVars
<1>7. ~Restart
  BY BoundsNat DEF Restart, Inv, TypeOK
<1> QED BY <1>2, <1>3, <1>4, <1>5, <1>6, <1>7 DEF Next

(* These two leave at least what is on record, and a cut leaves the other runs alone. *)
LEMMA NextOnRecord ==
  ASSUME Inv, More, [Next]_vars, NEW r \in Stored \ shared'
  PROVE  /\ disk[r].cleanup \cap files' \subseteq ToDelete(r)'
         /\ restarts' = restarts /\ ~CutShort(r) => ToDelete(r) \cap files' \subseteq ToDelete(r)'
<1>1. r \in Run
  BY DEF Stored
<1>2. CASE restarts' = restarts /\ \A j \in Job : ~Cut(j)
  BY <1>2, NextRemembers DEF Remembers, ToDelete
<1>3. ASSUME NEW j \in Job, Cut(j)
      PROVE  /\ disk[r].cleanup \cap files' \subseteq ToDelete(r)'
             /\ ~CutShort(r) => ToDelete(r) \cap files' \subseteq ToDelete(r)'
  <2>1. disk'[r].cleanup = disk[r].cleanup /\ (r # run[j] => ToDelete(r)' = ToDelete(r))
    BY <1>1, <1>3, CutRemembers
  <2>2. disk'[r].cleanup \subseteq ToDelete(r)'
    BY DEF ToDelete
  <2>3. ~CutShort(r) => r # run[j]
    BY <1>3 DEF CutShort
  <2> QED BY <2>1, <2>2, <2>3
<1>4. CASE restarts' # restarts
  <2>1. Restart \/ \E j \in Job : Cut(j)
    <3>1. ASSUME NEW j \in Job, Step(j)
          PROVE  FALSE
      BY <1>4, <3>1, StepFrame DEF Frame
    <3>2. ASSUME NEW k \in Job, NEW t, NEW Q, Enqueue(k, t, Q)
          PROVE  FALSE
      BY <1>4, <3>2 DEF Enqueue
    <3>3. ~Clicked
      <4>1. ASSUME NEW k \in Job, NEW Q, QueueRun(k, Q)
            PROVE  FALSE
        BY <3>2, <4>1 DEF QueueRun
      <4>2. ASSUME NEW j \in Job, NEW k \in Job, Retry(j, k)
            PROVE  FALSE
        BY <3>2, <4>1, <4>2 DEF Retry, RetryFailed, RetrySame
      <4>3. ASSUME NEW j \in Job, NEW t \in Run, Resume(j, t)
            PROVE  FALSE
        BY <3>2, <4>3 DEF Resume
      <4>4. ASSUME NEW t \in Run, PruneOld(t)
            PROVE  FALSE
        BY <1>4, <4>4 DEF PruneOld, envVars
      <4>5. ASSUME NEW j \in Job, Cancel(j)
            PROVE  FALSE
        BY <1>4, <4>5 DEF Cancel, Told
      <4> QED BY <4>1, <4>2, <4>3, <4>4, <4>5 DEF Clicked
    <3>4. ASSUME NEW b \in DOMAIN batches, EndBatch(b)
          PROVE  FALSE
      BY <1>4, <3>4 DEF EndBatch, envVars
    <3>5. ~Shutdown
      BY <1>4 DEF Shutdown, Told
    <3>6. ~(UNCHANGED vars)
      BY <1>4 DEF vars, envVars
    <3> QED BY <3>1, <3>3, <3>4, <3>5, <3>6 DEF Next
  <2>2. CASE Restart
    BY <1>4, <2>2 DEF Restart, dirVars, ToDelete
  <2> QED BY <1>3, <1>4, <2>1, <2>2
<1> QED BY <1>2, <1>3, <1>4

(* A file at the provider whose ID a run has stored stays on its list until it is deleted, *)
(* whatever fails and whoever takes the run up again; when the process ends or the forced  *)
(* phase of shutdown cuts its coordinator in between, the list in state.json stays.  A run *)
(* that two coordinators of one process worked on is excluded.                             *)
THEOREM NoFileForgotten == Spec => FilesRemembered
<1>1. Inv /\ More /\ [Next]_vars =>
        [\A r \in Stored \ shared' :
           LET over == restarts' # restarts \/ \E j \in Job : run[j] = r /\ Cut(j) IN
           \A f \in files' \cap (IF over THEN disk[r].cleanup ELSE ToDelete(r)) :
             f \in ToDelete(r)']_vars
  <2> SUFFICES ASSUME Inv, More, [Next]_vars, NEW r \in Stored \ shared'
               PROVE  LET over == restarts' # restarts \/ \E j \in Job : run[j] = r /\ Cut(j) IN
                      \A f \in files' \cap (IF over THEN disk[r].cleanup ELSE ToDelete(r)) :
                        f \in ToDelete(r)'
    OBVIOUS
  <2> QED BY NextOnRecord DEF CutShort
<1> QED BY <1>1, MoreInvariant, PTL DEF Spec, FilesRemembered

-----------------------------------------------------------------------------
(* Nothing that the provider accepted is out of reach *)

\* A run's directory tells of its Batch: by the ID, or, when the call that made
\* it raised, by the intent to submit and an input file no other Batch has, by
\* which Reconcile finds it.
AcceptedFound ==
  \A r \in Run \ (shared \cup erased) : \A b \in BatchesOf(r) :
    \/ disk[r].batch = b
    \/ /\ disk[r].batch = 0
       /\ disk[r].phase \in {"attempted", "uncertain"}
       /\ {c \in DOMAIN batches : batches[c].input = disk[r].input} = {b}

\* A Batch was made from the input file on record.
FromInput(r) ==
  \A b \in BatchesOf(r) : batches[b].input # 0 /\ batches[b].input = disk[r].input

InputsMatch == \A r \in Run \ (shared \cup erased) : FromInput(r)

(* Batches keep their run and input, come from the two ends of a submission, and a run *)
(* once shared, or cut so that its directory forgot its submission, counts as such.    *)
LEMMA NextBatches ==
  ASSUME Inv, More, [Next]_vars
  PROVE  /\ shared \subseteq shared' /\ erased \subseteq erased'
         /\ \A b \in DOMAIN batches :
              b \in DOMAIN batches' /\ batches'[b].run = batches[b].run
                                    /\ batches'[b].input = batches[b].input
         /\ \/ DOMAIN batches' = DOMAIN batches
            \/ \E j \in Job : pc[j] = "create" /\ Accept(j) /\ UNCHANGED <<shared, run>>
<1> DEFINE Goal == /\ shared \subseteq shared' /\ erased \subseteq erased'
                   /\ \A b \in DOMAIN batches :
                        b \in DOMAIN batches' /\ batches'[b].run = batches[b].run
                                              /\ batches'[b].input = batches[b].input
                   /\ \/ DOMAIN batches' = DOMAIN batches
                      \/ \E j \in Job : pc[j] = "create" /\ Accept(j) /\ UNCHANGED <<shared, run>>
<1>1. ASSUME UNCHANGED <<batches, shared, erased>>
      PROVE  Goal
  BY <1>1
<1>2. CASE UNCHANGED vars
  BY <1>1, <1>2 DEF vars, remVars, envVars
<1>3. ASSUME NEW k \in Job, NEW r, NEW Q, Enqueue(k, r, Q)
      PROVE  shared \subseteq shared'
  BY <1>3 DEF Enqueue
<1>4. CASE Clicked
  <2>1. ASSUME NEW k \in Job, NEW Q, QueueRun(k, Q)
        PROVE  shared \subseteq shared' /\ UNCHANGED <<batches, erased>>
    BY <1>3, <2>1 DEF QueueRun, Enqueue, remVars
  <2>2. ASSUME NEW j \in Job, NEW k \in Job, Retry(j, k)
        PROVE  shared \subseteq shared' /\ UNCHANGED <<batches, erased>>
    BY <1>3, <2>1, <2>2 DEF Retry, RetryFailed, RetrySame, Enqueue, remVars
  <2>3. ASSUME NEW j \in Job, NEW r \in Run, Resume(j, r)
        PROVE  shared \subseteq shared' /\ UNCHANGED <<batches, erased>>
    BY <1>3, <2>3 DEF Resume, Enqueue, remVars
  <2>4. ASSUME NEW r \in Run, PruneOld(r)
        PROVE  shared \subseteq shared' /\ UNCHANGED <<batches, erased>>
    BY <2>4 DEF PruneOld, remVars, envVars
  <2>5. ASSUME NEW j \in Job, Cancel(j)
        PROVE  shared \subseteq shared' /\ UNCHANGED <<batches, erased>>
    BY <2>5 DEF Cancel, Told, remVars
  <2>6. shared \subseteq shared' /\ UNCHANGED <<batches, erased>>
    BY <1>4, <2>1, <2>2, <2>3, <2>4, <2>5 DEF Clicked
  <2> QED BY <2>6
<1>5. ASSUME NEW j \in Job, Frame(j), Grows, Joins(j), erased \subseteq erased'
      PROVE  Goal
  BY <1>5 DEF Frame, Grows, Joins
<1>6. ASSUME NEW b \in DOMAIN batches, EndBatch(b)
      PROVE  Goal
  <2>1. Grows /\ DOMAIN batches' = DOMAIN batches
    BY <1>6, EndBatchGrows
  <2>2. UNCHANGED <<shared, erased>>
    BY <1>6 DEF EndBatch, envVars
  <2> QED BY <2>1, <2>2 DEF Grows
<1>7. CASE Shutdown
  BY <1>1, <1>7 DEF Shutdown, Told, remVars
<1>8. CASE Restart
  BY <1>1, <1>8 DEF Restart, remVars
<1>9. ASSUME NEW j \in Job, Step(j)
      PROVE  Goal
  <2>1. Frame(j) /\ Grows /\ Joins(j)
    BY <1>9, StepFrame, StepJoins
  <2>2. UNCHANGED erased
    BY <1>9, StepTells
  <2> QED BY <1>5, <2>1, <2>2
<1>10. ASSUME NEW j \in Job, Cut(j)
       PROVE  Goal
  <2>1. Frame(j) /\ Grows /\ Joins(j)
    BY <1>10, CutTurn
  <2>2. erased \subseteq erased'
    BY <1>10 DEF Cut, CutWait, CutCreate, CutDelete, CutEnd
  <2> QED BY <1>5, <2>1, <2>2
<1> QED BY <1>2, <1>4, <1>6, <1>7, <1>8, <1>9, <1>10 DEF Next

(* A coordinator that submits has on disk the input file of its copy. *)
LEMMA SubmitsInput ==
  ASSUME Inv, More, NEW j \in Job, pc[j] = "create", run[j] \notin shared, run[j] \notin erased
  PROVE  /\ run[j] \in Run /\ manifest[run[j]] # {} /\ manifest[run[j]] \subseteq Request
         /\ mem[j].input \in File /\ disk[run[j]].input = mem[j].input
         /\ BatchesOf(run[j]) = {}
<1>1. PICK r, D, M : r = run[j] /\ D = disk[r] /\ M = mem[j]
  OBVIOUS
<1>2. r \in Run /\ JobFits(j) /\ RunFits(r)
  BY <1>1 DEF Inv, JobFits
<1>3. D \in RunState /\ M \in RunState /\ manifest[r] \subseteq Request
  BY <1>1, <1>2 DEF Inv, TypeOK
<1>4. manifest[r] # {} /\ M.batch = 0 /\ M.input # 0
  BY <1>1, <1>2 DEF JobFits, CopyFits, Later, Working, Place, Preparing
<1>5. Keeps(r, D, M) /\ BatchesOf(r) = {} /\ Submitted(D)
  BY <1>1, <1>2 DEF JobFits, Owns, Later, Working, Place, Preparing
<1>6. D.input # 0 /\ D.input = M.input
  BY <1>4, <1>5 DEF Submitted, Keeps
<1> QED BY <1>1, <1>2, <1>3, <1>4, <1>5, <1>6 DEF RunState

(* Every step keeps InputsMatch: what is on record stays, and a new Batch is of a run that *)
(* has none, from the file on record.                                                      *)
LEMMA NextInputs == Inv /\ More /\ InputsMatch /\ [Next]_vars => InputsMatch'
<1> SUFFICES ASSUME Inv, More, InputsMatch, [Next]_vars,
                    NEW r \in Run, r \notin shared', r \notin erased',
                    NEW b \in DOMAIN batches', batches'[b].run = r
             PROVE  batches'[b].input # 0 /\ batches'[b].input = disk'[r].input
  BY DEF InputsMatch, FromInput, BatchesOf
<1>1. r \notin shared /\ r \notin erased
  BY NextBatches
<1>2. Kept
  BY NextKept
<1>3. CASE b \in DOMAIN batches
  <2>1. batches[b].run = r /\ batches'[b].input = batches[b].input
    BY <1>3, NextBatches
  <2>2. batches[b].input # 0 /\ batches[b].input = disk[r].input
    BY <1>1, <1>3, <2>1 DEF InputsMatch, FromInput, BatchesOf
  <2>3. r \in Stored
    BY <1>3, <2>1 DEF More, BatchesFit, Stored
  <2>4. disk'[r].input = disk[r].input
    BY <1>2, <2>2, <2>3 DEF Kept, Keeps
  <2> QED BY <2>1, <2>2, <2>4
<1>4. CASE b \notin DOMAIN batches
  <2>1. PICK j \in Job : pc[j] = "create" /\ Accept(j)
    BY <1>4, NextBatches
  <2>2. run[j] \in Run /\ mem[j].input \in File /\ manifest[run[j]] \subseteq Request
    <3>1. JobFits(j) /\ mem[j] \in RunState
      BY DEF Inv, TypeOK
    <3>2. run[j] \in Run /\ mem[j].input # 0
      BY <2>1, <3>1 DEF JobFits, CopyFits
    <3>3. manifest[run[j]] \subseteq Request
      BY <3>2 DEF Inv, TypeOK
    <3> QED BY <3>1, <3>2, <3>3 DEF RunState
  <2>3. batches'[b].run = run[j] /\ batches'[b].input = mem[j].input
    BY <1>4, <2>1, <2>2, AcceptedMore
  <2>4. run[j] = r
    BY <2>3
  <2>5. manifest[r] # {} /\ mem[j].input \in File /\ disk[r].input = mem[j].input
    BY <1>1, <2>1, <2>4, SubmitsInput
  <2>6. mem[j].input # 0
    BY <2>5 DEF File
  <2>7. r \in Stored
    BY <2>5 DEF Stored
  <2>8. disk'[r].input = disk[r].input
    BY <1>2, <2>5, <2>6, <2>7 DEF Kept, Keeps
  <2> QED BY <2>3, <2>5, <2>6, <2>8
<1> QED BY <1>3, <1>4

(* What it says of a Batch, with the invariants: the run tells of it. *)
LEMMA Reachable == Inv /\ More /\ InputsMatch => AcceptedFound
<1> SUFFICES ASSUME Inv, More, InputsMatch, NEW r \in Run, r \notin shared, r \notin erased,
                    NEW b \in BatchesOf(r)
             PROVE  \/ disk[r].batch = b
                    \/ /\ disk[r].batch = 0
                       /\ disk[r].phase \in {"attempted", "uncertain"}
                       /\ {c \in DOMAIN batches : batches[c].input = disk[r].input} = {b}
  BY DEF AcceptedFound
<1>1. b \in DOMAIN batches /\ batches[b].run = r
  BY DEF BatchesOf
<1>2. PICK f : f = disk[r].input /\ f = batches[b].input /\ f # 0
  BY DEF InputsMatch, FromInput
<1>3. Single(r, disk[r]) /\ Sound(disk[r]) /\ disk[r] \in RunState
  BY DEF Inv, RunFits, DirFits, TypeOK
<1>4. CASE disk[r].batch # 0
  <2>1. PICK n : n = disk[r].batch /\ n # 0
    BY <1>4
  <2>2. n \in DOMAIN batches
    <3>1. n \in Nat /\ n <= Len(batches)
      BY <1>3, <2>1, BoundsNat DEF Sound, RunState
    <3>2. batches \in Seq(Batch)
      BY DEF Inv, TypeOK
    <3> QED BY <2>1, <3>1, <3>2
  <2>3. batches[n].run = r
    BY <2>1 DEF More, RunMore, StateFits, IdFits
  <2> QED BY <1>3, <2>1, <2>2, <2>3 DEF Single, BatchesOf
<1>5. CASE disk[r].batch = 0
  <2>1. disk[r].phase \in {"attempted", "uncertain"}
    BY <1>3, <1>5 DEF Single, Submitted
  <2>2. PICK own \in [File -> Run \cup {NoRun}] : InputsOwned(own)
    BY DEF More, Owned
  <2>3. ASSUME NEW c \in DOMAIN batches, batches[c].input = f
        PROVE  c = b
    <3>1. own[f] = r /\ own[f] = batches[c].run
      BY <1>1, <1>2, <2>2, <2>3 DEF InputsOwned, OwnedBy
    <3> QED BY <1>3, <2>3, <3>1 DEF Single, BatchesOf
  <2> QED BY <1>1, <1>2, <1>5, <2>1, <2>3
<1> QED BY <1>4, <1>5

(* A Batch that was accepted is never out of reach of its run, whatever call raised and    *)
(* wherever the process ended: the run's directory has its ID, or says that a submission   *)
(* was attempted and names the input file, which leads _reconcile to this Batch and to no  *)
(* other.  Two kinds of runs are excluded: one that two coordinators of one process worked *)
(* on, and one that a user cancelled and that the forced phase of shutdown cut while it    *)
(* was submitted or reconciled, whose directory says cancelled and no more.                *)
THEOREM BatchesInReach == Spec => []AcceptedFound
<1>1. Init => InputsMatch
  BY DEF Init, InputsMatch, FromInput, BatchesOf
<1>2. Inv /\ More /\ InputsMatch /\ [Next]_vars => InputsMatch'
  BY NextInputs
<1> QED BY <1>1, <1>2, MoreInvariant, Reachable, PTL DEF Spec

=============================================================================
