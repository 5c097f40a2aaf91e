----------------------------- MODULE JobSystem -----------------------------
(***************************************************************************)
(* What the job queue promises to the rest of the program, without saying  *)
(* how: a job is queued, runs beside jobs it does not conflict with only,  *)
(* and ends once.  Lanes, barriers, semaphores, tokens, tasks and markers  *)
(* belong to module JobQueue, which implements this one.                   *)
(***************************************************************************)
EXTENDS JobTypes

VARIABLES
  def,    \* the definition each job was created with
  state   \* the state the job list shows

vars == <<def, state>>

Running == {j \in Job : state[j] = "running"}

InSlot(k) == {j \in Running : UsesSlot(def[j]) /\ def[j].kind = k}

Init ==
  /\ def = [j \in Job |-> NoDefinition]
  /\ state = [j \in Job |-> "absent"]

Enqueue(j, d) ==
  /\ state[j] = "absent"
  /\ def' = [def EXCEPT ![j] = d]
  /\ state' = [state EXCEPT ![j] = "queued"]

CancelQueued(j) ==
  /\ state[j] = "queued"
  /\ state' = [state EXCEPT ![j] = "cancelled"]
  /\ UNCHANGED def

Start(j) ==
  /\ state[j] = "queued"
  /\ \A k \in Running : ~Conflict(def[j], def[k])
  /\ UsesSlot(def[j]) =>
       Cardinality(InSlot(def[j].kind)) < SlotLimit[def[j].kind]
  /\ state' = [state EXCEPT ![j] = "running"]
  /\ UNCHANGED def

End(j, o) ==
  /\ state[j] = "running"
  /\ state' = [state EXCEPT ![j] = o]
  /\ UNCHANGED def

\* A new process shows as interrupted only work that was running, or whose
\* outcome or marker could not be written when it failed.
MayBeInterrupted(j) ==
  \/ state[j] \in {"running", "interrupted"}
  \/ state[j] = "failed" /\ Faults \cap {"record", "clear"} # {}

Restart ==
  /\ \E I \in SUBSET {j \in Job : MayBeInterrupted(j)} :
       state' = [j \in Job |-> IF j \in I THEN "interrupted"
                               ELSE IF state[j] = "absent" THEN "absent"
                               ELSE "lost"]
  /\ UNCHANGED def

\* Retrying an interrupted attempt replaces it by a fresh job.
Replace(j, k) ==
  /\ state[j] = "interrupted"
  /\ state[k] = "absent"
  /\ state' = [state EXCEPT ![j] = "lost", ![k] = "queued"]
  /\ def' = [def EXCEPT ![k] = def[j]]

Next ==
  \/ \E j \in Job, d \in Definition : Enqueue(j, d)
  \/ \E j \in Job : CancelQueued(j) \/ Start(j)
  \/ \E j \in Job, o \in Outcome : End(j, o)
  \/ \E j, k \in Job : Replace(j, k)
  \/ Restart

Spec == Init /\ [][Next]_vars
=============================================================================
