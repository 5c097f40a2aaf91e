----------------------------- MODULE MCJobQueue -----------------------------
(* Small instances of JobQueue for TLC. *)
EXTENDS JobQueue, TLC

CONSTANTS L1, L2, p1, p2

Def(s, l, p, k, c, t, h) ==
  [scope |-> s, library |-> l, citekey |-> p, kind |-> k, commit |-> c,
   tracked |-> t, hook |-> h]

\* queue_conversion, queue_page_render, the recipe finalizer
Convert(l, p)  == Def("paper", l, p, "conversion", "guarded", TRUE, FALSE)
Render(l, p)   == Def("paper", l, p, "page_render", "guarded", TRUE, FALSE)
Finalize(l, p) == Def("paper", l, p, "recipe_finalize", "unguarded", FALSE, FALSE)
Rebuild(l)     == Def("library_write", l, p1, "maintenance", "none", FALSE, FALSE)
Select(l)      == Def("library_read", l, p1, "maintenance", "none", FALSE, FALSE)
Batch(l)       == Def("remote", l, p1, "recipe_batch", "none", FALSE, FALSE)
\* Workers the queue admits and its tests use.
SlowCommit(l, p) == Def("paper", l, p, "conversion", "slow", TRUE, FALSE)
Hooked(l, p)     == Def("paper", l, p, "import", "none", FALSE, TRUE)

LaneDefs     == {Convert(L1, p1), Rebuild(L1), Select(L1)}
RecoveryDefs == {Convert(L1, p1), Render(L1, p1)}
SlowDefs     == {Convert(L1, p1), SlowCommit(L1, p1), Hooked(L1, p1)}
Conversions  == {Convert(L1, p1), Convert(L2, p2)}
Renders      == {Render(L1, p1), Render(L1, p2), Render(L2, p1)}
WriterDefs   == {Convert(L1, p1), Rebuild(L1)}
BatchDefs    == {Batch(L1), Finalize(L1, p1), Rebuild(L1)}

SafetyDefs == LaneDefs \cup RecoveryDefs \cup SlowDefs
              \cup Conversions \cup Renders
LiveDefs   == WriterDefs \cup BatchDefs

Only(S) == \A j \in Job : def[j] \in S \cup {NoDefinition}

AtMost(n) == Cardinality({j \in Job : state[j] # "absent"}) <= n

Once == \A j, k \in Job : j # k /\ state[j] # "absent" => def[j] # def[k]

(***************************************************************************)
(* What one behaviour of the safety run consists of: three papers, readers *)
(* and writers of one library, and shutdown; or attempts at two slots of   *)
(* one paper and a crash; or a worker that suspends after its commit, or   *)
(* has a kill hook, with both; or two conversions, or three renders, of    *)
(* different papers, in two libraries.                                     *)
(***************************************************************************)
SafetyScenario ==
  \/ Only(LaneDefs) /\ restarts = 0
  \/ Only(RecoveryDefs) /\ phase = "open"
  \/ Only(SlowDefs) /\ AtMost(2)
  \/ Only(Conversions) /\ AtMost(2) /\ restarts = 0
  \/ Only(Renders) /\ Once /\ restarts = 0 /\ phase = "open"

JobSymmetry == Permutations(Job)

\* For liveness, where symmetry is not sound: identities 1, 2, ... are used in
\* this order.  Only requests create jobs and neither a request nor the start
\* of a shutdown is under fairness: this removes renamings of behaviours.
InOrder == \A i, j \in Job : i < j /\ state[i] = "absent" => state[j] = "absent"

\* For the same reason they may be left out: three papers and writers with
\* their retries; or a coordinator, the paper job it waits for and a writer;
\* or two of them, with shutdown at any time.
LiveScenario ==
  /\ InOrder
  /\ \/ Only(WriterDefs) /\ phase = "open"
     \/ Only(BatchDefs) /\ Once /\ phase = "open"
     \/ Only(BatchDefs) /\ Once /\ AtMost(2)
=============================================================================
