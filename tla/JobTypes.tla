------------------------------ MODULE JobTypes ------------------------------
(***************************************************************************)
(* The vocabulary of the job queue (jobs/model.py and the scheduling rules *)
(* of jobs/queue.py): job definitions, their states, and which of them may *)
(* not run at the same time.                                               *)
(***************************************************************************)
EXTENDS Naturals, FiniteSets

CONSTANTS
  Job,            \* identities that jobs are given when they are enqueued
  NoJob,          \* no job
  Library,        \* open library roots
  Citekey,        \* papers of a library
  Definition,     \* the job definitions callers enqueue
  NoDefinition,   \* the definition of an identity not yet used
  Faults          \* the durable writes that may raise

Scope == {"paper", "library_read", "library_write", "remote"}

Kind == {"conversion", "page_render", "recipe_batch", "recipe_finalize",
         "import", "maintenance"}

Outcome == {"succeeded", "failed", "cancelled", "partial"}

(***************************************************************************)
(* "absent": not created.  "interrupted": its marker survived a restart.   *)
(* "lost": it belonged to an earlier process and nothing is left of it.    *)
(***************************************************************************)
State == {"absent", "queued", "running", "interrupted", "lost"} \cup Outcome

SlotKind == {"conversion", "page_render"}

\* Conversions are serialized, page renders run at most two at a time,
\* over all libraries.
SlotLimit == [k \in SlotKind |-> IF k = "conversion" THEN 1 ELSE 2]

Lane(d) == <<d.library, d.citekey>>

UsesSlot(d) == d.scope = "paper" /\ d.kind \in SlotKind

\* Two jobs that must never run at the same time.
Conflict(d, e) ==
  /\ d.library = e.library
  /\ \/ /\ d.scope = "paper" /\ e.scope = "paper"
        /\ d.citekey = e.citekey
     \/ d.scope = "library_write" /\ e.scope # "remote"
     \/ e.scope = "library_write" /\ d.scope # "remote"

(***************************************************************************)
(* How a worker protects the artifacts it installs: not at all ("none": it *)
(* installs nothing), without begin_commit ("unguarded"), after            *)
(* begin_commit and before its next suspension ("guarded"), or with a      *)
(* suspension between begin_commit and the end ("slow").                   *)
(***************************************************************************)
Commit == {"none", "unguarded", "guarded", "slow"}

\* One enqueued unit of work: _JobDefinition, with the worker abstracted to
\* how it commits, the recovery hooks to whether there are any, and the kill
\* hook to whether one that may raise is given.
JobDefinition ==
  [scope: Scope, library: Library, citekey: Citekey, kind: Kind,
   commit: Commit, tracked: BOOLEAN, hook: BOOLEAN]

Fault == {"marker", "record", "clear"}

ASSUME DefinitionsTyped == Definition \subseteq JobDefinition
ASSUME JobsFinite == IsFiniteSet(Job)
ASSUME NoJobIsNoJob == NoJob \notin Job
ASSUME NoDefinitionIsNone == NoDefinition \notin Definition
ASSUME FaultsTyped == Faults \subseteq Fault

(***************************************************************************)
(* LibraryRuntime gives recovery hooks to paper jobs only, and those that  *)
(* ask for them, conversions and renders, install artifacts.  A session of *)
(* enqueue_library_read is not writable and a coordinator has none.        *)
(***************************************************************************)
ASSUME TrackedInstall ==
  \A d \in Definition : d.tracked => d.scope = "paper" /\ d.commit # "none"
ASSUME InstallersHold ==
  \A d \in Definition : d.commit # "none" => d.scope \in {"paper", "library_write"}

\* The artifact slot of one paper that a job of some kind writes.
Target(d) == <<d.library, d.citekey, d.kind>>

AllTargets == Library \X Citekey \X Kind
=============================================================================
