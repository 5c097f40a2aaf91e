--------------------------- MODULE CatalogProofs ---------------------------
(***************************************************************************)
(* Theorems about the catalog, for all papers, refreshers and bounds.      *)
(***************************************************************************)
EXTENDS Catalog, TLAPS

\* What is there was made by some change; 0 is the stat of what is not there.
Numbered(entries) == \A p \in Paper : entries[p].there => entries[p].at >= 1

\* A record is at most as new as the file.
NotAfter(entries, later) == \A p \in Paper : entries[p].at <= later[p].at

\* A rescan that may still be installed.
Current(r) == refresh[r].pc = "scanned" /\ refresh[r].expected = generation

\* Generations only grow, and every number is of a change that was made.
Counted ==
  /\ \A r \in Refresher : refresh[r].expected <= generation
  /\ \A p \in Paper : disk[p].at <= changes
  /\ Numbered(disk) /\ Numbered(view)
  /\ \A r \in Refresher : Numbered(refresh[r].records)

\* Where nothing was missed the fingerprint is that of what is shown.
Matches ==
  \A p \in Paper \ missed : fingerprint[p] = IF view[p].there THEN view[p].at ELSE 0

\* The write under way is one of a paper; unless another program came since, it
\* is what the disk has.
WriteUnderWay ==
  writing # NoWrite =>
    /\ writing.paper \in Paper /\ writing.at >= 1
    /\ view[writing.paper].at <= writing.at /\ writing.at <= disk[writing.paper].at
    /\ writing.paper \in own => disk[writing.paper] = Entry(writing.at, TRUE)

\* What a rescan holds lies between what is shown and the disk, and has every
\* write of the program.
RescansFit ==
  /\ NotAfter(view, disk)
  /\ \A r \in Refresher : refresh[r].pc = "scanned" => NotAfter(refresh[r].records, disk)
  /\ \A r \in Refresher : Current(r) =>
       /\ NotAfter(view, refresh[r].records)
       /\ \A p \in own : writing.paper # p => refresh[r].records[p] = disk[p]

Inv == TypeOK /\ Counted /\ Matches /\ WriteUnderWay /\ OwnWritesShown /\ RescansFit

-----------------------------------------------------------------------------
(* Initial states and steps *)

USE BoundsNat, NoPaperFresh DEF Entries, Entry

\* A refresh at rest is typed.
LEMMA RestingRuns == Resting \in Runs
  BY DEF Resting, Runs, Attempts

Writings == [paper : Paper \cup {NoPaper}, at : 0..MaxWrites]

\* So is a write that is not under way.
LEMMA NoWriteTyped == NoWrite \in Writings
  BY DEF NoWrite, Writings

\* An opened catalog (LibraryCatalog.__init__) satisfies the invariant.
THEOREM InitInv == Init => Inv
<1>1. SUFFICES ASSUME Init PROVE Inv
  OBVIOUS
<1>2. TypeOK
  <2>1. disk \in [Paper -> Entries]
    BY <1>1 DEF Init
  <2>2. fingerprint \in [Paper -> 0..MaxWrites]
    BY <1>1, <2>1 DEF Init, Stat
  <2>3. refresh \in [Refresher -> Runs]
    BY <1>1, RestingRuns DEF Init
  <2>4. generation \in Nat /\ changes \in 0..MaxWrites
    BY <1>1 DEF Init
  <2>5. stale \in BOOLEAN /\ recent \in BOOLEAN /\ own \subseteq Paper /\ missed \subseteq Paper
    BY <1>1, Zenon DEF Init
  <2>6. writing \in Writings
    BY <1>1, NoWriteTyped DEF Init
  <2>. QED
    BY <1>1, <2>1, <2>2, <2>3, <2>4, <2>5, <2>6, Zenon DEF Init, TypeOK, Writings
<1>3. Counted /\ Matches
  BY <1>1 DEF Init, Counted, Matches, Numbered, Resting, Stat
<1>4. WriteUnderWay /\ OwnWritesShown /\ RescansFit
  BY <1>1 DEF Init, WriteUnderWay, OwnWritesShown, RescansFit, NotAfter, Current, Resting
<1>. QED
  BY <1>2, <1>3, <1>4 DEF Inv

\* A write of paper.json keeps it: rescans that lack the record being
\* written are excused until the update that makes them outdated.
LEMMA WriteRecordKeeps == ASSUME Inv, NEW p \in Paper, WriteRecord(p) PROVE Inv'
<1>1. TypeOK'
  BY DEF Inv, TypeOK, WriteRecord, Change, OnLoop, NoWrite
<1>2. Counted'
  BY DEF Inv, TypeOK, Runs, Counted, Numbered, WriteUnderWay, WriteRecord, Change, OnLoop, NoWrite
<1>3. Matches'
  BY DEF Inv, TypeOK, Matches, WriteRecord, Change, OnLoop, NoWrite
<1>4. WriteUnderWay'
  BY DEF Inv, TypeOK, Runs, Counted, WriteUnderWay, RescansFit, NotAfter, WriteRecord, Change, OnLoop, NoWrite
<1>5. OwnWritesShown'
  BY DEF Inv, TypeOK, Runs, WriteUnderWay, OwnWritesShown, RescansFit, Current, WriteRecord, Change, OnLoop, NoWrite
<1>6. RescansFit'
  <2>1. /\ disk' = [disk EXCEPT ![p] = Entry(changes + 1, TRUE)]
        /\ writing' = [paper |-> p, at |-> changes + 1] /\ own' = own \cup {p}
        /\ UNCHANGED <<view, refresh, generation>>
    BY DEF WriteRecord, Change
  <2>2. writing.paper = NoPaper
    BY DEF WriteRecord, OnLoop, NoWrite
  <2>3. \A q \in Paper : disk[q].at <= disk'[q].at
    BY <2>1 DEF Inv, TypeOK, Counted
  <2>4. \A q \in Paper \ {p} : disk'[q] = disk[q]
    BY <2>1 DEF Inv, TypeOK
  <2>5. \A q \in Paper : disk[q].at \in Nat /\ disk'[q].at \in Nat /\ view[q].at \in Nat
    BY <2>1 DEF Inv, TypeOK
  <2>6. NotAfter(view, disk)'
    BY <2>1, <2>3, <2>5 DEF Inv, RescansFit, NotAfter
  <2>7. ASSUME NEW r \in Refresher, refresh[r].pc = "scanned"
        PROVE  NotAfter(refresh[r].records, disk')
    <3>1. \A q \in Paper : refresh[r].records[q].at \in Nat
      BY DEF Inv, TypeOK, Runs
    <3>. QED
      BY <2>3, <2>5, <2>7, <3>1 DEF Inv, RescansFit, NotAfter
  <2>8. ASSUME NEW r \in Refresher, Current(r)
        PROVE  /\ NotAfter(view, refresh[r].records)
               /\ \A q \in own' : writing'.paper # q => refresh[r].records[q] = disk'[q]
    BY <2>1, <2>2, <2>4, <2>8 DEF Inv, TypeOK, RescansFit
  <2>. QED
    BY <2>1, <2>6, <2>7, <2>8 DEF RescansFit, NotAfter, Current
<1>. QED
  BY <1>1, <1>2, <1>3, <1>4, <1>5, <1>6 DEF Inv

\* The update of the catalog keeps it: no rescan is current afterwards.
LEMMA UpsertKeeps == ASSUME Inv, NEW p \in Paper, Upsert(p) PROVE Inv'
<1>1. TypeOK'
  <2>1. view' \in [Paper -> Entries]
    BY DEF Inv, TypeOK, Upsert, Told
  <2>2. fingerprint' \in [Paper -> 0..MaxWrites]
    BY DEF Inv, TypeOK, Upsert, Stat
  <2>3. generation' \in Nat
    BY DEF Inv, TypeOK, Upsert
  <2>4. stale' \in BOOLEAN /\ recent' \in BOOLEAN /\ missed' \subseteq Paper
    BY Zenon DEF Inv, TypeOK, Upsert, MissedBy
  <2>5. writing' \in Writings
    BY NoWriteTyped DEF Upsert
  <2>. QED
    BY <2>1, <2>2, <2>3, <2>4, <2>5, Zenon DEF Inv, TypeOK, Upsert, Writings
<1>2. Counted'
  BY DEF Inv, TypeOK, Runs, Counted, Numbered, WriteUnderWay, Upsert, Told, MissedBy, Changed, Stat, NoWrite
<1>3. Matches'
  BY DEF Inv, TypeOK, Matches, Upsert, Told, MissedBy, Changed, Stat, NoWrite
<1>4. WriteUnderWay'
  BY DEF Inv, TypeOK, Runs, Counted, WriteUnderWay, RescansFit, NotAfter, Upsert, Told, MissedBy, Changed, Stat, NoWrite
<1>5. OwnWritesShown'
  BY DEF Inv, TypeOK, Runs, WriteUnderWay, OwnWritesShown, RescansFit, Current, Upsert, Told, MissedBy, Changed, Stat, NoWrite
<1>6. RescansFit'
  BY DEF Inv, TypeOK, Runs, Counted, WriteUnderWay, RescansFit, NotAfter, Current, Upsert, Told, MissedBy, Changed, Stat, NoWrite
<1>. QED
  BY <1>1, <1>2, <1>3, <1>4, <1>5, <1>6 DEF Inv

\* An update that raises keeps it: the write is not claimed to be shown.
LEMMA UpsertFailsKeeps == ASSUME Inv, NEW p \in Paper, UpsertFails(p) PROVE Inv'
<1>1. TypeOK'
  BY DEF Inv, TypeOK, UpsertFails, NoWrite
<1>2. Counted'
  BY DEF Inv, TypeOK, Runs, Counted, Numbered, WriteUnderWay, UpsertFails, NoWrite
<1>3. Matches'
  BY DEF Inv, TypeOK, Matches, UpsertFails, NoWrite
<1>4. WriteUnderWay'
  BY DEF Inv, TypeOK, Runs, Counted, WriteUnderWay, RescansFit, NotAfter, UpsertFails, NoWrite
<1>5. OwnWritesShown'
  BY DEF Inv, TypeOK, Runs, WriteUnderWay, OwnWritesShown, RescansFit, Current, UpsertFails, NoWrite
<1>6. RescansFit'
  BY DEF Inv, TypeOK, Runs, Counted, WriteUnderWay, RescansFit, NotAfter, Current, UpsertFails, NoWrite
<1>. QED
  BY <1>1, <1>2, <1>3, <1>4, <1>5, <1>6 DEF Inv

\* Another program keeps it: it only makes the disk newer.
LEMMA ElsewhereKeeps == ASSUME Inv, NEW p \in Paper, Elsewhere(p) PROVE Inv'
<1>1. TypeOK'
  BY DEF Inv, TypeOK, Elsewhere, Change
<1>2. Counted'
  BY DEF Inv, TypeOK, Runs, Counted, Numbered, WriteUnderWay, Elsewhere, Change
<1>3. Matches'
  BY DEF Inv, TypeOK, Matches, Elsewhere, Change
<1>4. WriteUnderWay'
  <2>1. PICK there \in BOOLEAN : Change(p, there)
    BY DEF Elsewhere
  <2>2. CASE writing.paper = p
    BY <2>1, <2>2 DEF Inv, TypeOK, Counted, WriteUnderWay, Elsewhere, Change
  <2>3. CASE writing.paper # p
    BY <2>1, <2>3 DEF Inv, TypeOK, WriteUnderWay, Elsewhere, Change
  <2>. QED
    BY <2>2, <2>3
<1>5. OwnWritesShown'
  BY DEF Inv, TypeOK, Runs, WriteUnderWay, OwnWritesShown, RescansFit, Current, Elsewhere, Change
<1>6. RescansFit'
  BY DEF Inv, TypeOK, Runs, Counted, WriteUnderWay, RescansFit, NotAfter, Current, Elsewhere, Change
<1>. QED
  BY <1>1, <1>2, <1>3, <1>4, <1>5, <1>6 DEF Inv

\* The start of a refresh keeps it: nothing is read yet.
LEMMA AskKeeps == ASSUME Inv, NEW r \in Refresher, Ask(r) PROVE Inv'
<1>1. TypeOK'
  <2>1. refresh \in [Refresher -> Runs]
    BY DEF Inv, TypeOK
  <2>2. refresh'[r] \in Runs
    <3>1. refresh'[r] = [pc |-> "queued", attempt |-> 1,
                       expected |-> generation, records |-> refresh[r].records]
      BY <2>1 DEF Ask, OnLoop, Runs
    <3>2. refresh[r] \in Runs /\ generation \in Nat /\ 1 \in 1..Attempts
      BY <2>1 DEF Inv, TypeOK, Runs, Ask, OnLoop, Attempts
    <3>. QED
      BY <3>1, <3>2 DEF Runs
  <2>3. refresh' \in [Refresher -> Runs]
    BY <2>1, <2>2 DEF Ask, OnLoop
  <2>. QED
    BY <2>3 DEF Inv, TypeOK, Ask
<1>2. Counted'
  BY DEF Inv, TypeOK, Runs, Counted, Numbered, WriteUnderWay, Ask, OnLoop
<1>3. Matches'
  BY DEF Inv, TypeOK, Matches, Ask, OnLoop
<1>4. WriteUnderWay'
  BY DEF Inv, TypeOK, Runs, Counted, WriteUnderWay, RescansFit, NotAfter, Ask, OnLoop
<1>5. OwnWritesShown'
  BY DEF Inv, TypeOK, Runs, WriteUnderWay, OwnWritesShown, RescansFit, Current, Ask, OnLoop
<1>6. RescansFit'
  BY DEF Inv, TypeOK, Runs, Counted, WriteUnderWay, RescansFit, NotAfter, Current, Ask, OnLoop
<1>. QED
  BY <1>1, <1>2, <1>3, <1>4, <1>5, <1>6 DEF Inv

\* The scan keeps it: what it holds is what the disk has.
LEMMA ScanKeeps == ASSUME Inv, NEW r \in Refresher, Scan(r) PROVE Inv'
<1>1. TypeOK'
  <2>1. refresh \in [Refresher -> Runs]
    BY DEF Inv, TypeOK
  <2>2. refresh'[r] \in Runs
    BY <2>1, RestingRuns DEF Inv, TypeOK, Scan, Runs, Attempts
  <2>3. refresh' \in [Refresher -> Runs]
    BY <2>1, <2>2 DEF Scan, OnLoop
  <2>. QED
    BY <2>3 DEF Inv, TypeOK, Scan
<1>2. Counted'
  BY DEF Inv, TypeOK, Runs, Counted, Numbered, WriteUnderWay, Scan, OnLoop
<1>3. Matches'
  BY DEF Inv, TypeOK, Matches, Scan, OnLoop
<1>4. WriteUnderWay'
  BY DEF Inv, TypeOK, Runs, Counted, WriteUnderWay, RescansFit, NotAfter, Scan, OnLoop
<1>5. OwnWritesShown'
  BY DEF Inv, TypeOK, Runs, WriteUnderWay, OwnWritesShown, RescansFit, Current, Scan, OnLoop
<1>6. RescansFit'
  BY DEF Inv, TypeOK, Runs, Counted, WriteUnderWay, RescansFit, NotAfter, Current, Scan, OnLoop
<1>. QED
  BY <1>1, <1>2, <1>3, <1>4, <1>5, <1>6 DEF Inv

\* A failed scan keeps it.
LEMMA ScanFailsKeeps == ASSUME Inv, NEW r \in Refresher, ScanFails(r) PROVE Inv'
<1>1. TypeOK'
  <2>1. refresh \in [Refresher -> Runs]
    BY DEF Inv, TypeOK
  <2>2. refresh'[r] \in Runs
    BY <2>1, RestingRuns DEF Inv, TypeOK, ScanFails, Runs, Attempts
  <2>3. refresh' \in [Refresher -> Runs]
    BY <2>1, <2>2 DEF ScanFails, OnLoop, Resting
  <2>. QED
    BY <2>3 DEF Inv, TypeOK, ScanFails
<1>2. Counted'
  BY DEF Inv, TypeOK, Runs, Counted, Numbered, WriteUnderWay, ScanFails, OnLoop, Resting
<1>3. Matches'
  BY DEF Inv, TypeOK, Matches, ScanFails, OnLoop, Resting
<1>4. WriteUnderWay'
  BY DEF Inv, TypeOK, Runs, Counted, WriteUnderWay, RescansFit, NotAfter, ScanFails, OnLoop, Resting
<1>5. OwnWritesShown'
  BY DEF Inv, TypeOK, Runs, WriteUnderWay, OwnWritesShown, RescansFit, Current, ScanFails, OnLoop, Resting
<1>6. RescansFit'
  BY DEF Inv, TypeOK, Runs, Counted, WriteUnderWay, RescansFit, NotAfter, Current, ScanFails, OnLoop, Resting
<1>. QED
  BY <1>1, <1>2, <1>3, <1>4, <1>5, <1>6 DEF Inv

\* An installed rescan keeps it: it was current, so it has every own write.
LEMMA ReplaceKeeps == ASSUME Inv, NEW r \in Refresher, Replace(r) PROVE Inv'
<1>1. TypeOK'
  <2>1. refresh \in [Refresher -> Runs]
    BY DEF Inv, TypeOK
  <2>2. refresh'[r] \in Runs
    BY <2>1, RestingRuns DEF Inv, TypeOK, Replace, Runs, Attempts
  <2>3. refresh' \in [Refresher -> Runs]
    BY <2>1, <2>2 DEF Replace, Install, Changed, Stat, OnLoop, NoWrite, Resting
  <2>4. view' \in [Paper -> Entries]
    BY <2>1 DEF Replace, Install, Runs
  <2>5. fingerprint' \in [Paper -> 0..MaxWrites]
    BY DEF Inv, TypeOK, Replace, Install, Stat
  <2>6. generation' \in Nat
    BY DEF Inv, TypeOK, Replace, Install
  <2>7. stale' \in BOOLEAN /\ recent' \in BOOLEAN /\ missed' \subseteq Paper
    BY Zenon DEF Replace, Install
  <2>. QED
    BY <2>3, <2>4, <2>5, <2>6, <2>7, Zenon DEF Inv, TypeOK, Replace, Install
<1>2. Counted'
  BY DEF Inv, TypeOK, Runs, Counted, Numbered, WriteUnderWay, Replace, Install, Changed, Stat, OnLoop, NoWrite, Resting
<1>3. Matches'
  BY DEF Inv, TypeOK, Matches, Replace, Install, Changed, Stat, OnLoop, NoWrite, Resting
<1>4. WriteUnderWay'
  BY DEF Inv, TypeOK, Runs, Counted, WriteUnderWay, RescansFit, NotAfter, Replace, Install, Changed, Stat, OnLoop, NoWrite, Resting
<1>5. OwnWritesShown'
  BY DEF Inv, TypeOK, Runs, WriteUnderWay, OwnWritesShown, RescansFit, Current, Replace, Install, Changed, Stat, OnLoop, NoWrite, Resting
<1>6. RescansFit'
  BY DEF Inv, TypeOK, Runs, Counted, WriteUnderWay, RescansFit, NotAfter, Current, Replace, Install, Changed, Stat, OnLoop, NoWrite, Resting
<1>. QED
  BY <1>1, <1>2, <1>3, <1>4, <1>5, <1>6 DEF Inv

\* A refresh that gives up keeps it.
LEMMA GiveUpKeeps == ASSUME Inv, NEW r \in Refresher, GiveUp(r) PROVE Inv'
<1>1. TypeOK'
  <2>1. refresh \in [Refresher -> Runs]
    BY DEF Inv, TypeOK
  <2>2. refresh'[r] \in Runs
    BY <2>1, RestingRuns DEF Inv, TypeOK, GiveUp, Runs, Attempts
  <2>3. refresh' \in [Refresher -> Runs]
    BY <2>1, <2>2 DEF GiveUp, Overtaken, OnLoop, Resting
  <2>. QED
    BY <2>3 DEF Inv, TypeOK, GiveUp
<1>2. Counted'
  BY DEF Inv, TypeOK, Runs, Counted, Numbered, WriteUnderWay, GiveUp, Overtaken, OnLoop, Resting
<1>3. Matches'
  BY DEF Inv, TypeOK, Matches, GiveUp, Overtaken, OnLoop, Resting
<1>4. WriteUnderWay'
  BY DEF Inv, TypeOK, Runs, Counted, WriteUnderWay, RescansFit, NotAfter, GiveUp, Overtaken, OnLoop, Resting
<1>5. OwnWritesShown'
  BY DEF Inv, TypeOK, Runs, WriteUnderWay, OwnWritesShown, RescansFit, Current, GiveUp, Overtaken, OnLoop, Resting
<1>6. RescansFit'
  BY DEF Inv, TypeOK, Runs, Counted, WriteUnderWay, RescansFit, NotAfter, Current, GiveUp, Overtaken, OnLoop, Resting
<1>. QED
  BY <1>1, <1>2, <1>3, <1>4, <1>5, <1>6 DEF Inv

\* Another attempt keeps it, and there are three at most.
LEMMA AgainKeeps == ASSUME Inv, NEW r \in Refresher, Again(r) PROVE Inv'
<1>1. TypeOK'
  <2>1. refresh \in [Refresher -> Runs]
    BY DEF Inv, TypeOK
  <2>2. refresh'[r] \in Runs
    <3>1. refresh'[r] = [pc |-> "queued", attempt |-> refresh[r].attempt + 1,
                       expected |-> generation, records |-> refresh[r].records]
      BY <2>1 DEF Again, Overtaken, TryAgain, OnLoop, Runs
    <3>2. refresh[r] \in Runs /\ generation \in Nat /\ refresh[r].attempt + 1 \in 1..Attempts
      BY <2>1 DEF Inv, TypeOK, Runs, Again, Overtaken, TryAgain, OnLoop, Attempts
    <3>. QED
      BY <3>1, <3>2 DEF Runs
  <2>3. refresh' \in [Refresher -> Runs]
    BY <2>1, <2>2 DEF Again, Overtaken, TryAgain, OnLoop
  <2>. QED
    BY <2>3 DEF Inv, TypeOK, Again
<1>2. Counted'
  BY DEF Inv, TypeOK, Runs, Counted, Numbered, WriteUnderWay, Again, Overtaken, TryAgain, OnLoop
<1>3. Matches'
  BY DEF Inv, TypeOK, Matches, Again, Overtaken, TryAgain, OnLoop
<1>4. WriteUnderWay'
  BY DEF Inv, TypeOK, Runs, Counted, WriteUnderWay, RescansFit, NotAfter, Again, Overtaken, TryAgain, OnLoop
<1>5. OwnWritesShown'
  BY DEF Inv, TypeOK, Runs, WriteUnderWay, OwnWritesShown, RescansFit, Current, Again, Overtaken, TryAgain, OnLoop
<1>6. RescansFit'
  BY DEF Inv, TypeOK, Runs, Counted, WriteUnderWay, RescansFit, NotAfter, Current, Again, Overtaken, TryAgain, OnLoop
<1>. QED
  BY <1>1, <1>2, <1>3, <1>4, <1>5, <1>6 DEF Inv

\* Every step keeps the invariant.
LEMMA NextKeeps == Inv /\ [Next]_vars => Inv'
<1>. SUFFICES ASSUME Inv, [Next]_vars PROVE Inv'
  OBVIOUS
<1>1. CASE \E p \in Paper : WriteRecord(p) \/ Upsert(p) \/ UpsertFails(p) \/ Elsewhere(p)
  BY <1>1, WriteRecordKeeps, UpsertKeeps, UpsertFailsKeeps, ElsewhereKeeps
<1>2. CASE \E r \in Refresher : Ask(r) \/ Scan(r) \/ ScanFails(r) \/ Replace(r) \/ Again(r) \/ GiveUp(r)
  BY <1>2, AskKeeps, ScanKeeps, ScanFailsKeeps, ReplaceKeeps, AgainKeeps, GiveUpKeeps
<1>3. CASE IsStale \/ IntervalPasses \/ UNCHANGED vars
  <2>1. /\ UNCHANGED <<disk, view, fingerprint, generation, writing, refresh, changes, own, missed>>
        /\ stale' \in BOOLEAN /\ recent' \in BOOLEAN
    BY <1>3 DEF Inv, TypeOK, IsStale, IntervalPasses, vars
  <2>2. TypeOK'
    BY <2>1 DEF Inv, TypeOK
  <2>3. (Counted /\ Matches /\ WriteUnderWay)'
    BY <2>1 DEF Inv, Counted, Numbered, Matches, WriteUnderWay
  <2>4. (OwnWritesShown /\ RescansFit)'
    BY <2>1 DEF Inv, OwnWritesShown, RescansFit, NotAfter, Current
  <2>. QED
    BY <2>2, <2>3, <2>4 DEF Inv
<1>. QED
  BY <1>1, <1>2, <1>3 DEF Next

\* The invariant holds in every behaviour.
LEMMA Invariant == Spec => []Inv
  BY InitInv, NextKeeps, PTL DEF Spec

-----------------------------------------------------------------------------
(* What follows *)

\* Every variable keeps its type, and a refresh makes no more than its three
\* attempts.
THEOREM TypeCorrect == Spec => []TypeOK
  BY Invariant, PTL DEF Inv

\* No rescan takes a record back that the program has written
\* (LibraryCatalog.replace_if_generation).
THEOREM WritesStay == Spec => []OwnWritesShown
  BY Invariant, PTL DEF Inv

\* A difference between page and disk shows in the fingerprint, unless the disk
\* changed between a read and the stat after it (LibraryCatalog.is_stale).
THEOREM DifferencesSeen == Spec => []ChangesSeen
<1>1. Inv => ChangesSeen
  BY DEF Inv, TypeOK, Counted, Numbered, Matches, ChangesSeen, Changed, Stat
<1>. QED
  BY <1>1, Invariant, PTL

\* No page goes back to an older record, whatever rescans and writes overtake
\* each other.
THEOREM NeverOlder == Spec => ViewNeverOlder
<1>1. Inv /\ [Next]_vars => [\A p \in Paper : view'[p].at >= view[p].at]_vars
  <2>. SUFFICES ASSUME Inv, Next PROVE \A p \in Paper : view'[p].at >= view[p].at
    OBVIOUS
  <2>1. ASSUME NEW q \in Paper, Upsert(q) PROVE \A p \in Paper : view'[p].at >= view[p].at
    BY <2>1 DEF Inv, TypeOK, WriteUnderWay, Upsert, Told, NoWrite
  <2>2. ASSUME NEW r \in Refresher, Replace(r) PROVE \A p \in Paper : view'[p].at >= view[p].at
    <3>1. view' = refresh[r].records /\ NotAfter(view, refresh[r].records)
      BY <2>2 DEF Inv, RescansFit, Current, Replace, Install
    <3>. QED
      BY <3>1 DEF Inv, TypeOK, NotAfter
  <2>3. CASE UNCHANGED view
    BY <2>3 DEF Inv, TypeOK
  <2>. QED
    BY <2>1, <2>2, <2>3 DEF Next, WriteRecord, UpsertFails, Elsewhere, Ask, Scan, ScanFails,
       Again, GiveUp, IsStale, IntervalPasses
<1>. QED
  BY <1>1, Invariant, PTL DEF Spec, ViewNeverOlder
=============================================================================
