------------------------------ MODULE Catalog ------------------------------
(***************************************************************************)
(* The catalog of an open library (services/library_catalog.py): what the  *)
(* pages show of paper.json, kept up to date by the program's own writes   *)
(* (PaperSession.write_record), by rescans, and by nothing else; and the   *)
(* fingerprint by which changes of other programs are noticed.             *)
(*                                                                         *)
(* The program's steps are sections of its event loop; other programs come *)
(* between the write of a record and the update of the catalog too.  A     *)
(* record is the number of the change that made or removed it, so no two   *)
(* are equal, and neither are their stats.                                 *)
(***************************************************************************)
EXTENDS Naturals

CONSTANTS
  Paper,
  NoPaper,
  Refresher,  \* pages that ask for a refresh
  MaxWrites,  \* bound: changes of a paper.json, whoever makes them
  MaxGeneration \* bound: no refresh is asked for after as many installations

ASSUME NoPaperFresh == NoPaper \notin Paper
ASSUME BoundsNat == MaxWrites \in Nat \ {0} /\ MaxGeneration \in Nat

VARIABLES
  disk,          \* paper.json: its last change, and whether it is there
  view,          \* what the snapshot has of it
  fingerprint,   \* its row in _fingerprint
  generation,
  stale, recent, \* _stale; _last_stale_check is less than an interval ago
  writing,       \* write_record between its two steps
  refresh,       \* per refresher: a run of refresh_catalog
  changes,       \* counts what was done to the disk
  own,           \* history: papers the program wrote last, and told the catalog
  missed         \* history: changed after they were read and before the stat

vars == <<disk, view, fingerprint, generation, stale, recent, writing, refresh, changes, own, missed>>

Attempts == 3  \* range(3) in refresh_catalog

Entry(n, there) == [at |-> n, there |-> there]

NoWrite == [paper |-> NoPaper, at |-> 0]

Resting == [pc |-> "idle", attempt |-> 1, expected |-> 0, records |-> [p \in Paper |-> Entry(0, FALSE)]]

\* _stat_signature: nothing where there is no file.
Stat(p) == IF disk[p].there THEN disk[p].at ELSE 0

Init ==
  /\ \E there \in SUBSET Paper : disk = [p \in Paper |-> Entry(1, p \in there)]
  /\ view = disk /\ fingerprint = [p \in Paper |-> Stat(p)]
  /\ generation = 1 /\ stale = FALSE /\ recent = TRUE
  /\ writing = NoWrite /\ refresh = [r \in Refresher |-> Resting]
  /\ changes = 1 /\ own = {} /\ missed = {}

OnLoop == writing = NoWrite

Change(p, there) ==
  /\ changes < MaxWrites
  /\ changes' = changes + 1
  /\ disk' = [disk EXCEPT ![p] = Entry(changes', there)]

-----------------------------------------------------------------------------
(* Writes *)

\* paper.json is replaced.
WriteRecord(p) ==
  /\ OnLoop
  /\ Change(p, TRUE)
  /\ writing' = [paper |-> p, at |-> changes']
  /\ own' = own \cup {p}
  /\ UNCHANGED <<view, fingerprint, generation, stale, recent, refresh, missed>>

Changed(entry, p) == entry.there # disk[p].there \/ (entry.there /\ entry # disk[p])

Told(p) == [view EXCEPT ![p] = Entry(writing.at, TRUE)]

MissedBy(p) == IF Changed(Told(p)[p], p) THEN missed \cup {p} ELSE missed \ {p}

\* Mutant: the fingerprint is taken of the whole library.
UpsertAllRows(p) ==
  /\ writing.paper = p
  /\ view' = Told(p)
  /\ fingerprint' = [q \in Paper |-> Stat(q)]
  /\ generation' = generation + 1
  /\ stale' = FALSE /\ recent' = TRUE
  /\ missed' = MissedBy(p)
  /\ writing' = NoWrite
  /\ UNCHANGED <<disk, refresh, changes, own>>

\* Mutant: only a rescan makes a generation.
UpsertQuietly(p) ==
  /\ writing.paper = p
  /\ view' = Told(p)
  /\ fingerprint' = [fingerprint EXCEPT ![p] = Stat(p)]
  /\ stale' = FALSE /\ recent' = TRUE
  /\ missed' = MissedBy(p)
  /\ writing' = NoWrite
  /\ UNCHANGED <<disk, generation, refresh, changes, own>>

\* The catalog has the record that was written, and takes the stat of the file
\* that is there now.
Upsert(p) ==
  /\ writing.paper = p
  /\ view' = Told(p)
  /\ fingerprint' = [fingerprint EXCEPT ![p] = Stat(p)]
  /\ generation' = generation + 1
  /\ stale' = FALSE /\ recent' = TRUE
  /\ missed' = MissedBy(p)
  /\ writing' = NoWrite
  /\ UNCHANGED <<disk, refresh, changes, own>>

\* The projection raises: a source that pypdf cannot cope with.
UpsertFails(p) ==
  /\ writing.paper = p
  /\ writing' = NoWrite /\ own' = own \ {p}
  /\ UNCHANGED <<disk, view, fingerprint, generation, stale, recent, refresh, changes, missed>>

\* Another program writes or removes a paper.
Elsewhere(p) ==
  /\ \E there \in BOOLEAN : (disk[p].there \/ there) /\ Change(p, there)
  /\ own' = own \ {p}
  /\ UNCHANGED <<view, fingerprint, generation, stale, recent, writing, refresh, missed>>

-----------------------------------------------------------------------------
(* Rescans: a read job that competes with paper jobs, under no lane *)

\* The generation is read and the job enqueued.
Ask(r) ==
  /\ OnLoop /\ refresh[r].pc = "idle" /\ generation < MaxGeneration
  /\ refresh' = [refresh EXCEPT ![r].pc = "queued", ![r].attempt = 1, ![r].expected = generation]
  /\ UNCHANGED <<disk, view, fingerprint, generation, stale, recent, writing, changes, own, missed>>

\* list_papers in the job.
Scan(r) ==
  /\ OnLoop /\ refresh[r].pc = "queued"
  /\ refresh' = [refresh EXCEPT ![r].pc = "scanned", ![r].records = disk]
  /\ UNCHANGED <<disk, view, fingerprint, generation, stale, recent, writing, changes, own, missed>>

\* The job was cancelled or failed.
ScanFails(r) ==
  /\ OnLoop /\ refresh[r].pc \in {"queued", "scanned"}
  /\ refresh' = [refresh EXCEPT ![r] = Resting]
  /\ UNCHANGED <<disk, view, fingerprint, generation, stale, recent, writing, changes, own, missed>>

Install(records) ==
  /\ view' = records
  /\ fingerprint' = [p \in Paper |-> Stat(p)]
  /\ generation' = generation + 1
  /\ stale' = FALSE /\ recent' = TRUE
  /\ missed' = {p \in Paper : Changed(records[p], p)}

\* Mutant: what was read is installed whatever came in between.
ReplaceAnyway(r) ==
  /\ OnLoop /\ refresh[r].pc = "scanned"
  /\ Install(refresh[r].records)
  /\ refresh' = [refresh EXCEPT ![r] = Resting]
  /\ UNCHANGED <<disk, writing, changes, own>>

\* replace_if_generation.
Replace(r) ==
  /\ OnLoop /\ refresh[r].pc = "scanned" /\ refresh[r].expected = generation
  /\ Install(refresh[r].records)
  /\ refresh' = [refresh EXCEPT ![r] = Resting]
  /\ UNCHANGED <<disk, writing, changes, own>>

\* The catalog was updated since.
Overtaken(r) == OnLoop /\ refresh[r].pc = "scanned" /\ refresh[r].expected # generation

TryAgain(r) ==
  refresh' = [refresh EXCEPT ![r].pc = "queued", ![r].attempt = refresh[r].attempt + 1,
                             ![r].expected = generation]

\* Mutant: one attempt more.
OnceMore(r) ==
  /\ Overtaken(r) /\ refresh[r].attempt <= Attempts
  /\ TryAgain(r)
  /\ UNCHANGED <<disk, view, fingerprint, generation, stale, recent, writing, changes, own, missed>>

\* Another attempt, with the generation read anew.
Again(r) ==
  /\ Overtaken(r) /\ refresh[r].attempt < Attempts
  /\ TryAgain(r)
  /\ UNCHANGED <<disk, view, fingerprint, generation, stale, recent, writing, changes, own, missed>>

\* "library kept changing while its catalog was refreshed"
GiveUp(r) ==
  /\ Overtaken(r) /\ refresh[r].attempt = Attempts
  /\ refresh' = [refresh EXCEPT ![r] = Resting]
  /\ UNCHANGED <<disk, view, fingerprint, generation, stale, recent, writing, changes, own, missed>>

-----------------------------------------------------------------------------
(* The warning *)

\* is_stale, asked for by each page of papers.
IsStale ==
  /\ OnLoop /\ ~recent
  /\ recent' = TRUE
  /\ stale' = (fingerprint # [p \in Paper |-> Stat(p)])
  /\ UNCHANGED <<disk, view, fingerprint, generation, writing, refresh, changes, own, missed>>

\* _STALE_CHECK_INTERVAL_SECONDS have passed.
IntervalPasses ==
  /\ recent
  /\ recent' = FALSE
  /\ UNCHANGED <<disk, view, fingerprint, generation, stale, writing, refresh, changes, own, missed>>

Next ==
  \/ \E p \in Paper : WriteRecord(p) \/ Upsert(p) \/ UpsertFails(p) \/ Elsewhere(p)
  \/ \E r \in Refresher : Ask(r) \/ Scan(r) \/ ScanFails(r) \/ Replace(r) \/ Again(r) \/ GiveUp(r)
  \/ IsStale \/ IntervalPasses

Spec == Init /\ [][Next]_vars

-----------------------------------------------------------------------------
(* Properties *)

Entries == [at : 0..MaxWrites, there : BOOLEAN]

Runs ==
  [pc : {"idle", "queued", "scanned"}, attempt : 1..Attempts, expected : Nat, records : [Paper -> Entries]]

TypeOK ==
  /\ disk \in [Paper -> Entries] /\ view \in [Paper -> Entries]
  /\ fingerprint \in [Paper -> 0..MaxWrites]
  /\ generation \in Nat /\ stale \in BOOLEAN /\ recent \in BOOLEAN
  /\ writing \in [paper : Paper \cup {NoPaper}, at : 0..MaxWrites]
  /\ refresh \in [Refresher -> Runs]
  /\ changes \in 0..MaxWrites
  /\ own \subseteq Paper /\ missed \subseteq Paper

\* "Paper Pipeline writes update it immediately", and no rescan that read the
\* disk before takes them back: what the program wrote last is what pages show.
OwnWritesShown == \A p \in own : writing.paper # p => view[p] = disk[p]

\* A snapshot never goes back to an older record, whichever of several rescans
\* ends last.
ViewNeverOlder == [][\A p \in Paper : view'[p].at >= view[p].at]_vars

\* Where pages show something else than the disk has, the next look at the
\* fingerprint finds it, whoever wrote and whatever updates of other papers came
\* since. Left out are changes between the reading of a record and its stat.
ChangesSeen ==
  \A p \in Paper \ missed : Changed(view[p], p) => fingerprint[p] # Stat(p)
=============================================================================
