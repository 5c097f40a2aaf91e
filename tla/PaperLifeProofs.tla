-------------------------- MODULE PaperLifeProofs --------------------------
(***************************************************************************)
(* Proofs about PaperLife and Validation, for every set of PDF contents,   *)
(* exports and runs, every bound and every choice of faults.               *)
(*                                                                         *)
(* The inductive invariant IInv says, beside the types, what a job may     *)
(* count on while it holds the lane (JobHolds), what a recorded output was *)
(* made of (ProvenanceTrue, RequestsTrue), and where the older bundle is   *)
(* while a new one is put in its place (OlderHeld): still in the artifact, *)
(* or in the job's backup.                                                 *)
(***************************************************************************)
EXTENDS Validation, TLAPS

\* The kinds of content a part of the paper may hold, a foreign hand included.
KindOf(part) == IF part = "out" THEN Answer \cup {Spoilt, None} ELSE Made \cup {Spoilt, None}

\* What a recipe may have read.
Readable == Source \cup Made \cup {Spoilt}

PartsOf(k) == IF k = "text" THEN {"text", "figs"} ELSE {k}

\* What the record says of an output, and of each part of its bundle.
Recorded(k) == IF paper = None THEN None ELSE paper.prov[k].is

Older(part) == IF part = "figs" THEN FiguresOf(Recorded("text")) ELSE Recorded(part)

Kept(k) == \A part \in PartsOf(k) : art[part] = Older(part)

\* A name of a source never stands for the bytes of another, and parts hold
\* what their jobs make.
BytesTrue ==
  /\ \A s \in Source : file[s] \in {s, Spoilt, None}
  /\ \A part \in Part : art[part] \in KindOf(part)

\* A recorded output was made of what the record says it was made of.
ProvenanceTrue ==
  paper # None =>
    /\ \A k \in {"text", "pages"} :
         \/ paper.prov[k].of = None /\ paper.prov[k].is = None
         \/ paper.prov[k].of \in Source /\ paper.prov[k].is \in Made
            /\ paper.prov[k].is.src = paper.prov[k].of
    /\ \/ paper.prov["out"].of = None /\ paper.prov["out"].is = None
       \/ paper.prov["out"].of \in Readable /\ paper.prov["out"].is \in Answer
          /\ paper.prov["out"].is.inp = paper.prov["out"].of

\* What was sent to the provider is what was hashed, and a PDF was the
\* recorded one.
RequestsTrue ==
  \A r \in Run : runs[r].phase # "new" =>
    /\ runs[r].inp \in Readable /\ runs[r].sent = runs[r].inp
    /\ RecipeInput = "pdf" => runs[r].inp \in Source

AdditionsExpectNothing == \A p \in plans : p.action = "addition" => p.expected = None

IsSaved(part) == \E i \in DOMAIN job.saved : job.saved[i].part = part

\* A conversion or rendering at work, and while it installs.
MakingHolds ==
  /\ paper # None /\ paper.src = job.src
  /\ job.pc = "make" =>
       job.left = Parts(job.op) /\ job.saved = <<>> /\ job.placed = {}
  /\ job.pc \in {"install", "undo"} =>
       /\ job.made \in Made /\ job.made.src = job.src
       /\ job.placed \subseteq PartsOf(job.op)
       /\ \A i \in DOMAIN job.saved :
            job.saved[i].part \in PartsOf(job.op) /\ job.saved[i].was \in Made \cup {Spoilt}
  /\ job.pc = "install" =>
       /\ job.left \in IF job.op = "text" THEN {<<"text", "figs">>, <<"figs">>, <<>>}
                       ELSE {<<"pages">>, <<>>}
       /\ \A i \in DOMAIN job.left :
            /\ job.left[i] \notin job.placed
            /\ IsSaved(job.left[i]) => i = 1 /\ art[job.left[i]] = None
       /\ Len(job.saved) + Len(job.left) <= Len(Parts(job.op)) +
            IF job.left # <<>> /\ art[Head(job.left)] = None THEN 1 ELSE 0

ImportHolds ==
  /\ job.plan.action # "refresh" /\ Accepts(job.plan, paper)
  /\ job.plan.action = "addition" => job.plan.expected = None
  /\ cut = None
  /\ job.pc = "copy" => job.fresh = (paper = None)
  /\ job.pc = "create" => paper = None
  /\ job.pc \in {"source", "record"} => paper # None
  /\ job.pc = "record" => job.plan.att \in torn \/ file[job.plan.att] = job.plan.att

SnapshotHolds ==
  job.pc = "copy" => job.inp \in Readable /\ (RecipeInput = "pdf" => job.inp \in Source)

FinalizeHolds ==
  /\ paper # None
  /\ job.pc \in {"hash", "write"} => job.copy = paper
  /\ runs[job.run].phase = "ready"
  /\ job.pc = "write" =>
       /\ "text" \in torn \cup late \/ runs[job.run].inp = RecipeSource(paper)
       /\ RecipeInput = "pdf" => runs[job.run].inp = paper.src
       /\ "out" \in torn \/ art["out"] = [inp |-> runs[job.run].sent, run |-> job.run]

\* What a job may count on while it holds the lane of the paper.
JobHolds ==
  /\ job \in MakingJob => MakingHolds
  /\ job \in ImportJob => ImportHolds
  /\ job \in SnapshotJob => SnapshotHolds
  /\ job \in FinalizeJob => FinalizeHolds

Installing(k) == job \in MakingJob /\ job.op = k /\ job.pc \in {"install", "undo"}

Writing(k) == k = "out" /\ job \in FinalizeJob /\ job.pc = "write"

\* Where the parts of the older bundle are while a new one is installed or
\* withdrawn: in the backup, or still there, or there never was one.
Behind ==
  \A part \in PartsOf(job.op) :
    /\ \A i \in DOMAIN job.saved :
         job.saved[i].part = part => job.saved[i].was = Older(part)
    /\ ~IsSaved(part) =>
         IF part \in job.placed THEN Older(part) = None ELSE art[part] = Older(part)

OlderHeld ==
  \A k \in Output \ (torn \cup late) :
    IF Installing(k) THEN Behind ELSE Writing(k) \/ Kept(k)

\* The recorded source is there unless a foreign hand had it last.
SourceHeld ==
  paper # None /\ paper.src # None /\ paper.src \notin torn => file[paper.src] = paper.src

IInv ==
  /\ TypeOK /\ BytesTrue /\ ProvenanceTrue /\ RequestsTrue /\ AdditionsExpectNothing
  /\ JobHolds /\ Resumable /\ OlderHeld /\ SourceHeld

-----------------------------------------------------------------------------
(* Which steps change which variable *)

\* The steps that write paper.json.
LEMMA PaperSteps ==
  ASSUME Next
  PROVE  \/ UNCHANGED paper
         \/ RecordMade \/ (\E p \in plans : Refresh(p)) \/ CreateRecord \/ RecordSource
         \/ WriteAnswer
  BY DEF Next, Making, Importing, Answering, Outside, StartMaking, Make, MakeFails, BackUp,
     Place, InstallFails, Withdraw, PutBack, RolledBack, UndoFails, RecordFails, Preview,
     Forget, StartImport, CopyFails, Copied, InstallSource, ImportFails, StartSnapshot,
     StartFinalize, HashInput, CopyInput, SnapshotFails, InstallAnswer, SkipAnswer,
     AnswerFails, WriteAnswerFails, SettleRun, Crash, SpoilSource, SpoilPart

\* The steps that write a source file.
LEMMA FileSteps ==
  ASSUME Next
  PROVE  \/ UNCHANGED file
         \/ InstallSource
         \/ \E bytes \in {Spoilt, None}, s \in Source : SpoilSource(s, bytes)
  BY DEF Next, Making, Importing, Answering, Outside, StartMaking, Make, MakeFails, BackUp,
     Place, InstallFails, Withdraw, PutBack, RolledBack, UndoFails, RecordMade, RecordFails,
     Preview, Forget, Refresh, StartImport, CopyFails, Copied, CreateRecord, RecordSource,
     ImportFails, StartSnapshot, StartFinalize, HashInput, CopyInput, SnapshotFails,
     InstallAnswer, SkipAnswer, AnswerFails, WriteAnswer, WriteAnswerFails, SettleRun,
     Crash, SpoilPart

\* The steps that write, move or remove an artifact.
LEMMA ArtSteps ==
  ASSUME Next
  PROVE  \/ UNCHANGED art
         \/ BackUp \/ Place \/ Withdraw \/ PutBack \/ InstallAnswer
         \/ \E bytes \in {Spoilt, None}, part \in Part : SpoilPart(part, bytes)
  BY DEF Next, Making, Importing, Answering, Outside, StartMaking, Make, MakeFails,
     InstallFails, RolledBack, UndoFails, RecordMade, RecordFails, Preview, Forget, Refresh,
     StartImport, CopyFails, Copied, CreateRecord, InstallSource, RecordSource, ImportFails,
     StartSnapshot, StartFinalize, HashInput, CopyInput, SnapshotFails, SkipAnswer,
     AnswerFails, WriteAnswer, WriteAnswerFails, SettleRun, Crash, SpoilSource

\* The steps that write the state of a run.
LEMMA RunSteps ==
  ASSUME Next
  PROVE  UNCHANGED runs \/ CopyInput \/ SettleRun
  BY DEF Next, Making, Importing, Answering, Outside, StartMaking, Make, MakeFails, BackUp,
     Place, InstallFails, Withdraw, PutBack, RolledBack, UndoFails, RecordMade, RecordFails,
     Preview, Forget, Refresh, StartImport, CopyFails, Copied, CreateRecord, InstallSource,
     RecordSource, ImportFails, StartSnapshot, StartFinalize, HashInput, SnapshotFails,
     InstallAnswer, SkipAnswer, AnswerFails, WriteAnswer, WriteAnswerFails, Crash,
     SpoilSource, SpoilPart

\* The steps that cut an application of a plan short, or begin one.
LEMMA CutSteps ==
  ASSUME Next
  PROVE  UNCHANGED cut \/ (\E p \in plans : StartImport(p)) \/ ImportFails \/ Crash
  BY DEF Next, Making, Importing, Answering, Outside, StartMaking, Make, MakeFails, BackUp,
     Place, InstallFails, Withdraw, PutBack, RolledBack, UndoFails, RecordMade, RecordFails,
     Preview, Forget, Refresh, CopyFails, Copied, CreateRecord, InstallSource, RecordSource,
     StartSnapshot, StartFinalize, HashInput, CopyInput, SnapshotFails, InstallAnswer,
     SkipAnswer, AnswerFails, WriteAnswer, WriteAnswerFails, SettleRun, SpoilSource, SpoilPart

\* The steps that add or drop a preview.
LEMMA PlanSteps ==
  ASSUME Next
  PROVE  UNCHANGED plans \/ (\E e \in Export : Preview(e)) \/ \E p \in plans : Forget(p)
  BY DEF Next, Making, Importing, Answering, Outside, StartMaking, Make, MakeFails, BackUp,
     Place, InstallFails, Withdraw, PutBack, RolledBack, UndoFails, RecordMade, RecordFails,
     Refresh, StartImport, CopyFails, Copied, CreateRecord, InstallSource, RecordSource,
     ImportFails, StartSnapshot, StartFinalize, HashInput, CopyInput, SnapshotFails,
     InstallAnswer, SkipAnswer, AnswerFails, WriteAnswer, WriteAnswerFails, SettleRun,
     Crash, SpoilSource, SpoilPart

-----------------------------------------------------------------------------
(* The kinds of job *)

\* What a job is doing tells its kind, and no job is of two kinds.
LEMMA KindOfJob ==
  ASSUME TypeOK
  PROVE  /\ job.pc \in {"make", "install", "undo"} => job \in MakingJob
         /\ job.pc \in {"create", "source", "record"} => job \in ImportJob
         /\ job.pc \in {"write", "state"} => job \in FinalizeJob
         /\ job.op = "import" => job \in ImportJob
         /\ job.op = "snapshot" => job \in SnapshotJob
         /\ job.op = "finalize" => job \in FinalizeJob
         /\ job = Idle => job.op = "none" /\ job.pc = "idle"
         /\ job = Idle \/ job \in MakingJob \/ job \in ImportJob \/ job \in SnapshotJob
            \/ job \in FinalizeJob
  BY DEF TypeOK, Job, MakingJob, ImportJob, SnapshotJob, FinalizeJob, Idle

\* The same of a job that has not begun yet.
LEMMA KindsApart ==
  ASSUME NEW j
  PROVE  /\ j \in MakingJob => /\ j.op \in {"text", "pages"}
                               /\ j.pc \in {"make", "install", "undo"}
                               /\ j \notin ImportJob \cup SnapshotJob \cup FinalizeJob
         /\ j \in ImportJob => /\ j.op = "import"
                               /\ j.pc \in {"copy", "create", "source", "record"}
                               /\ j \notin MakingJob \cup SnapshotJob \cup FinalizeJob
         /\ j \in SnapshotJob => /\ j.op = "snapshot" /\ j.pc \in {"hash", "copy"}
                                 /\ j \notin MakingJob \cup ImportJob \cup FinalizeJob
         /\ j \in FinalizeJob => /\ j.op = "finalize" /\ j.pc \in {"hash", "write", "state"}
                                 /\ j \notin MakingJob \cup ImportJob \cup SnapshotJob
         /\ j = Idle => j \notin MakingJob \cup ImportJob \cup SnapshotJob \cup FinalizeJob
  BY DEF MakingJob, ImportJob, SnapshotJob, FinalizeJob, Idle

-----------------------------------------------------------------------------
(* Records *)

\* A record with a new provenance of one output, a new source, new metadata.
WithProv(p, k, o, i) == [p EXCEPT !.prov[k] = [of |-> o, is |-> i]]

WithSource(p, m, s) == [p EXCEPT !.meta = m, !.src = s]

WithMeta(p, m) == [p EXCEPT !.meta = m]

\* What a record with a new provenance of one output says.
LEMMA ProvReplaced ==
  ASSUME NEW p \in PaperRecord, NEW k \in Output, NEW o \in Content, NEW i \in Content,
         NEW q, q = WithProv(p, k, o, i)
  PROVE  /\ q \in PaperRecord
         /\ q.meta = p.meta /\ q.src = p.src
         /\ q.prov[k].of = o /\ q.prov[k].is = i
         /\ \A l \in Output : l # k => q.prov[l] = p.prov[l]
  <1>1. p = [meta |-> p.meta, src |-> p.src, prov |-> p.prov]
        /\ p.meta \in Export /\ p.src \in Source \cup {None}
        /\ p.prov \in [Output -> [of : Content, is : Content]]
    BY DEF PaperRecord
  <1>2. PICK n : n = [of |-> o, is |-> i]
    OBVIOUS
  <1>3. n \in [of : Content, is : Content] /\ n.of = o /\ n.is = i
    BY <1>2
  <1>4. PICK v : v = [p.prov EXCEPT ![k] = n]
    OBVIOUS
  <1>5. v \in [Output -> [of : Content, is : Content]] /\ v[k] = n
        /\ \A l \in Output : l # k => v[l] = p.prov[l]
    BY <1>1, <1>3, <1>4
  <1>6. q = [meta |-> p.meta, src |-> p.src, prov |-> v]
    BY <1>1, <1>2, <1>4 DEF WithProv
  <1>7. q.meta = p.meta /\ q.src = p.src /\ q.prov = v
    BY <1>6
  <1>8. q \in PaperRecord
    BY <1>1, <1>5, <1>6 DEF PaperRecord
  <1>. QED
    BY <1>3, <1>5, <1>7, <1>8

\* What a record says whose metadata or source was replaced.
LEMMA SourceReplaced ==
  ASSUME NEW p \in PaperRecord, NEW m \in Export, NEW s \in Source \cup {None},
         NEW q, q = WithSource(p, m, s)
  PROVE  q \in PaperRecord /\ q.meta = m /\ q.src = s /\ q.prov = p.prov
  BY DEF PaperRecord, WithSource

\* A refresh of the metadata keeps the source and what was made of it.
LEMMA MetaReplaced ==
  ASSUME NEW p \in PaperRecord, NEW m \in Export, NEW q, q = WithMeta(p, m)
  PROVE  q \in PaperRecord /\ q.src = p.src /\ q.prov = p.prov
  BY DEF PaperRecord, WithMeta

\* What the first record of a paper says.
LEMMA NewRecordSays ==
  ASSUME NEW e \in Export
  PROVE  /\ NewRecord(e) \in PaperRecord /\ NewRecord(e).src = None
         /\ \A k \in Output : NewRecord(e).prov[k].of = None /\ NewRecord(e).prov[k].is = None
  <1>1. PICK n : n = [of |-> None, is |-> None]
    OBVIOUS
  <1>2. n \in [of : Content, is : Content] /\ n.of = None /\ n.is = None
    BY <1>1 DEF Content
  <1>3. PICK v : v = [k \in Output |-> n]
    OBVIOUS
  <1>4. v \in [Output -> [of : Content, is : Content]] /\ \A k \in Output : v[k] = n
    BY <1>2, <1>3
  <1>5. NewRecord(e) = [meta |-> e, src |-> None, prov |-> v]
    BY <1>1, <1>3 DEF NewRecord
  <1>. QED
    BY <1>2, <1>4, <1>5 DEF PaperRecord

\* The fields of the record of a paper.
LEMMA RecordFields ==
  ASSUME NEW p \in PaperRecord
  PROVE  /\ p # None /\ p.meta \in Export /\ p.src \in Source \cup {None}
         /\ \A k \in Output : p.prov[k].of \in Content /\ p.prov[k].is \in Content
  BY KindsDiffer DEF PaperRecord

\* The kinds of content.
LEMMA Kinds ==
  /\ None \notin Made \cup Answer \cup Source \cup {Spoilt}
  /\ Spoilt \notin Made \cup Answer \cup Source
  /\ Readable \subseteq Content \ {None}
  /\ \A s \in Source : s \notin Made /\ s \notin Output
  /\ \A part \in Part : KindOf(part) \subseteq Content
  BY NoneIsNoContent, KindsDiffer DEF Readable, Content, KindOf, Part, Output

-----------------------------------------------------------------------------
(* The first state *)

\* The invariant holds before the first import.
LEMMA InitHolds == Init => IInv
  <1> SUFFICES ASSUME Init PROVE IInv
    OBVIOUS
  <1>1. job = Idle /\ paper = None /\ cut = None /\ torn = {} /\ late = {} /\ plans = {}
    BY DEF Init
  <1>2. \A k \in Part : art[k] = None
    BY DEF Init
  <1>3. TypeOK
    <2>1. [phase |-> "new", inp |-> None, sent |-> None] \in Request
      BY DEF Request, Content
    <2>2. runs \in [Run -> Request]
      BY <2>1 DEF Init
    <2>3. art \in [Part -> Content] /\ file \in [Source -> Source \cup {Spoilt, None}]
      BY DEF Init, Content
    <2>4. upsets \in 0..MaxUpsets
      BY BoundsNatural DEF Init
    <2>. QED
      BY <1>1, <2>2, <2>3, <2>4 DEF TypeOK, Job
  <1>4. BytesTrue
    BY <1>2 DEF Init, BytesTrue, KindOf
  <1>5. ProvenanceTrue /\ SourceHeld /\ Resumable /\ AdditionsExpectNothing
    BY <1>1 DEF ProvenanceTrue, SourceHeld, Resumable, AdditionsExpectNothing
  <1>6. RequestsTrue
    BY DEF Init, RequestsTrue
  <1>7. JobHolds
    BY <1>1, KindsApart DEF JobHolds
  <1>8. OlderHeld
    <2>1. FiguresOf(None) = None
      BY Kinds DEF FiguresOf
    <2>2. \A k \in Output : Kept(k)
      BY <1>1, <1>2, <2>1 DEF Kept, Older, Recorded, PartsOf, Part, Output
    <2>. QED
      BY <1>1, <2>2, KindsApart DEF OlderHeld, Installing, Writing
  <1>. QED
    BY <1>3, <1>4, <1>5, <1>6, <1>7, <1>8 DEF IInv

-----------------------------------------------------------------------------
(* What jobs record *)

\* A job that ends its installation has staged what it recorded as its input,
\* and records it.
LEMMA RecordMadeSays ==
  ASSUME IInv, RecordMade
  PROVE  /\ job \in MakingJob /\ job.op \in {"text", "pages"} /\ paper \in PaperRecord
         /\ paper' \in PaperRecord /\ paper'.src = paper.src /\ paper.src = job.src
         /\ paper'.prov[job.op].of = job.src /\ paper'.prov[job.op].is = job.made
         /\ job.made \in Made /\ job.made.src = job.src /\ job.src \in Source
         /\ \A k \in Output : k # job.op => paper'.prov[k] = paper.prov[k]
         /\ art[job.op] = job.made
         /\ job.op = "text" => art["figs"] = FiguresOf(job.made)
  <1>1. job \in MakingJob /\ job.pc = "install"
    BY KindOfJob DEF IInv, RecordMade
  <1>2. job.op \in {"text", "pages"} /\ job.src \in Source
    BY <1>1 DEF MakingJob
  <1>3. paper \in PaperRecord /\ paper.src = job.src /\ job.made \in Made /\ job.made.src = job.src
    BY <1>1 DEF IInv, TypeOK, JobHolds, MakingHolds
  <1>4. art[job.op] = job.made /\ (job.op = "text" => art["figs"] = FiguresOf(job.made))
    <2>1. CASE job.op = "text"
      <3>1. Parts(job.op) = <<"text", "figs">>
        BY <2>1 DEF Parts
      <3>2. art[<<"text", "figs">>[1]] = Staged(job.made, <<"text", "figs">>[1])
            /\ art[<<"text", "figs">>[2]] = Staged(job.made, <<"text", "figs">>[2])
        BY <3>1 DEF RecordMade, Validated
      <3>. QED
        BY <2>1, <3>2 DEF Staged
    <2>2. CASE job.op = "pages"
      <3>1. Parts(job.op) = <<"pages">>
        BY <2>2 DEF Parts
      <3>2. art[<<"pages">>[1]] = Staged(job.made, <<"pages">>[1])
        BY <3>1 DEF RecordMade, Validated
      <3>. QED
        BY <2>2, <3>2 DEF Staged
    <2>. QED
      BY <1>2, <2>1, <2>2
  <1>5. job.op \in Output /\ job.src \in Content /\ art[job.op] \in Content
    BY <1>2, <1>3, <1>4 DEF Output, Content
  <1>6. paper' = WithProv(paper, job.op, job.src, art[job.op])
    BY DEF RecordMade, WithProv
  <1>7. /\ paper' \in PaperRecord /\ paper'.src = paper.src
        /\ paper'.prov[job.op].of = job.src /\ paper'.prov[job.op].is = art[job.op]
        /\ \A k \in Output : k # job.op => paper'.prov[k] = paper.prov[k]
    BY <1>3, <1>5, <1>6, ProvReplaced
  <1>. QED
    BY <1>1, <1>2, <1>3, <1>4, <1>7

\* A finalize job writes back the record it has read, with the provenance of
\* the answer it installed.
LEMMA WriteAnswerSays ==
  ASSUME IInv, WriteAnswer
  PROVE  /\ job \in FinalizeJob /\ job.run \in Run /\ paper \in PaperRecord
         /\ paper' \in PaperRecord /\ paper'.src = paper.src
         /\ runs[job.run].inp \in Readable /\ runs[job.run].sent = runs[job.run].inp
         /\ paper'.prov["out"].of = runs[job.run].inp
         /\ paper'.prov["out"].is = [inp |-> runs[job.run].sent, run |-> job.run]
         /\ [inp |-> runs[job.run].sent, run |-> job.run] \in Answer
         /\ \A k \in Output : k # "out" => paper'.prov[k] = paper.prov[k]
  <1>1. job \in FinalizeJob /\ job.pc = "write"
    BY KindOfJob DEF IInv, WriteAnswer
  <1>2. job.run \in Run
    BY <1>1 DEF FinalizeJob
  <1>3. paper \in PaperRecord /\ job.copy = paper /\ runs[job.run].phase = "ready"
    BY <1>1 DEF IInv, TypeOK, JobHolds, FinalizeHolds
  <1>4. runs[job.run].inp \in Readable /\ runs[job.run].sent = runs[job.run].inp
    BY <1>2, <1>3 DEF IInv, RequestsTrue
  <1>5. PICK a : a = [inp |-> runs[job.run].sent, run |-> job.run]
    OBVIOUS
  <1>6. a \in Answer
    BY <1>2, <1>4, <1>5 DEF Answer, Readable
  <1>7. paper' = WithProv(paper, "out", runs[job.run].inp, a)
    BY <1>1, <1>3, <1>5 DEF WriteAnswer, WithProv, JobHolds, FinalizeHolds
  <1>8. runs[job.run].inp \in Content /\ a \in Content /\ "out" \in Output
    BY <1>4, <1>6, Kinds DEF Content, Output
  <1>9. /\ paper' \in PaperRecord /\ paper'.src = paper.src
        /\ paper'.prov["out"].of = runs[job.run].inp /\ paper'.prov["out"].is = a
        /\ \A k \in Output : k # "out" => paper'.prov[k] = paper.prov[k]
    BY <1>3, <1>7, <1>8, ProvReplaced
  <1>. QED
    BY <1>1, <1>2, <1>3, <1>4, <1>5, <1>6, <1>9

\* An import job creates the record of a paper that has none, or names the
\* source it has installed.
LEMMA ImportSays ==
  ASSUME IInv, CreateRecord \/ RecordSource
  PROVE  /\ job \in ImportJob /\ job.plan \in Plan /\ paper' \in PaperRecord
         /\ CreateRecord => /\ paper = None /\ paper' = NewRecord(job.plan.meta)
                            /\ job.plan.action = "addition"
         /\ RecordSource => /\ paper \in PaperRecord /\ job.pc = "record"
                            /\ paper'.src = job.plan.att /\ paper'.prov = paper.prov
  <1>1. job \in ImportJob /\ job.pc \in {"create", "record"}
    BY KindOfJob DEF IInv, CreateRecord, RecordSource
  <1>2. job.plan \in Plan
    BY <1>1 DEF ImportJob
  <1>3. job.plan.meta \in Export /\ job.plan.att \in Source
    BY <1>2 DEF Plan
  <1>4. ImportHolds
    BY <1>1 DEF IInv, JobHolds
  <1>5. CASE CreateRecord
    <2>1. paper = None /\ Accepts(job.plan, paper) /\ job.pc = "create"
      BY <1>4, <1>5 DEF ImportHolds, CreateRecord
    <2>2. job.plan.action = "addition"
      BY <1>2, <2>1, <1>4 DEF Accepts, ImportHolds, Plan
    <2>. QED
      BY <1>1, <1>2, <1>3, <1>5, <2>1, <2>2, NewRecordSays DEF CreateRecord, RecordSource
  <1>6. CASE RecordSource
    <2>1. paper # None /\ job.pc = "record"
      BY <1>4, <1>6 DEF ImportHolds, RecordSource
    <2>2. paper \in PaperRecord
      BY <2>1 DEF IInv, TypeOK
    <2>3. paper' = WithSource(paper, job.plan.meta, job.plan.att)
      BY <1>6 DEF RecordSource, WithSource
    <2>4. paper' \in PaperRecord /\ paper'.src = job.plan.att /\ paper'.prov = paper.prov
      BY <1>3, <2>2, <2>3, SourceReplaced
    <2>. QED
      BY <1>1, <1>2, <2>1, <2>2, <2>4 DEF CreateRecord
  <1>. QED
    BY <1>5, <1>6

\* A refresh leaves the source and the provenance of a paper alone.
LEMMA RefreshSays ==
  ASSUME IInv, NEW p \in plans, Refresh(p)
  PROVE  /\ paper \in PaperRecord /\ paper' \in PaperRecord
         /\ paper'.src = paper.src /\ paper'.prov = paper.prov
  <1>1. p \in Plan /\ p.meta \in Export
    BY DEF IInv, TypeOK, Plan
  <1>2. paper # None
    BY DEF Refresh, Accepts
  <1>3. paper \in PaperRecord /\ paper' = WithMeta(paper, p.meta)
    BY <1>2 DEF IInv, TypeOK, Refresh, WithMeta
  <1>. QED
    BY <1>1, <1>3, MetaReplaced

\* What a step can do to paper.json: nothing, a provenance, the first record,
\* a source, or metadata.
LEMMA PaperChanges ==
  ASSUME IInv, Next
  PROVE  /\ paper' \in PaperRecord \cup {None}
         /\ ProvenanceTrue'
  <1>1. CASE UNCHANGED paper
    BY <1>1 DEF IInv, TypeOK, ProvenanceTrue
  <1>2. CASE RecordMade
    <2>1. job.op \in {"text", "pages"} /\ paper' \in PaperRecord
          /\ paper'.prov[job.op].of = job.src /\ paper'.prov[job.op].is = job.made
          /\ job.made \in Made /\ job.made.src = job.src /\ job.src \in Source
          /\ paper # None
      BY <1>2, RecordMadeSays, RecordFields
    <2>2. \A k \in Output : k # job.op => paper'.prov[k] = paper.prov[k]
      BY <1>2, RecordMadeSays
    <2>. QED
      BY <2>1, <2>2 DEF IInv, ProvenanceTrue, Output
  <1>3. ASSUME NEW p \in plans, Refresh(p) PROVE paper' \in PaperRecord /\ ProvenanceTrue'
    BY <1>3, RefreshSays, RecordFields DEF IInv, ProvenanceTrue
  <1>4. CASE CreateRecord
    <2>1. job.plan.meta \in Export /\ paper' = NewRecord(job.plan.meta)
      BY <1>4, ImportSays DEF Plan
    <2>. QED
      BY <1>4, <2>1, ImportSays, NewRecordSays DEF ProvenanceTrue, Output
  <1>5. CASE RecordSource
    BY <1>5, ImportSays, RecordFields DEF IInv, ProvenanceTrue
  <1>6. CASE WriteAnswer
    <2>1. PICK a : a = [inp |-> runs[job.run].sent, run |-> job.run]
      OBVIOUS
    <2>2. a.inp = runs[job.run].sent
      BY <2>1
    <2>. QED
      BY <1>6, <2>1, <2>2, WriteAnswerSays, RecordFields DEF IInv, ProvenanceTrue, Output
  <1>. QED
    BY <1>1, <1>2, <1>3, <1>4, <1>5, <1>6, PaperSteps

-----------------------------------------------------------------------------
(* Bytes, runs and previews *)

\* The sequences of a bounded length.
LEMMA BoundedSequences ==
  ASSUME NEW S, NEW n \in Nat, NEW s
  PROVE  s \in BoundedSeq(S, n) <=> s \in Seq(S) /\ Len(s) <= n
  <1>1. ASSUME s \in BoundedSeq(S, n) PROVE s \in Seq(S) /\ Len(s) <= n
    <2>1. PICK m \in 0..n : s \in [1..m -> S]
      BY <1>1 DEF BoundedSeq, SeqOf
    <2>2. m \in Nat /\ s \in Seq(S) /\ Len(s) = m
      BY <2>1
    <2>. QED
      BY <2>1, <2>2
  <1>2. ASSUME s \in Seq(S), Len(s) <= n PROVE s \in BoundedSeq(S, n)
    <2>1. Len(s) \in 0..n /\ s \in [1..Len(s) -> S]
      BY <1>2
    <2>. QED
      BY <2>1 DEF BoundedSeq, SeqOf
  <1>. QED
    BY <1>1, <1>2

\* What a job saves of an older part, and puts back, is of the kind of that part.
LEMMA SavedKinds ==
  ASSUME IInv, job \in MakingJob, job.pc \in {"install", "undo"}
  PROVE  /\ job.op \in {"text", "pages"}
         /\ job.saved \in Seq([part : Part, was : Content]) /\ Len(job.saved) <= 2
         /\ job.placed \subseteq Part /\ "out" \notin job.placed
         /\ \A i \in 1..Len(job.saved) :
              /\ job.saved[i].part \in Part /\ job.saved[i].part # "out"
              /\ job.saved[i].was \in Made \cup {Spoilt}
  <1>1. job.op \in {"text", "pages"} /\ job.placed \subseteq Part
        /\ job.saved \in BoundedSeq([part : Part, was : Content], 2)
    BY DEF MakingJob
  <1>2. job.saved \in Seq([part : Part, was : Content]) /\ Len(job.saved) <= 2
    BY <1>1, BoundedSequences
  <1>3. MakingHolds
    BY DEF IInv, JobHolds
  <1>4. "out" \notin PartsOf(job.op) /\ PartsOf(job.op) \subseteq Part
    BY <1>1 DEF PartsOf, Part, Output
  <1>. QED
    BY <1>1, <1>2, <1>3, <1>4 DEF MakingHolds

\* What a job puts in place is of the kind of its part.
LEMMA StagedKind ==
  ASSUME NEW made \in Made, NEW part \in Part, part # "out"
  PROVE  Staged(made, part) \in Made \cup {None}
  BY DEF Staged, FiguresOf

\* The parts still to be installed.
LEMMA LeftParts ==
  ASSUME IInv, job \in MakingJob, job.pc = "install", job.left # <<>>
  PROVE  /\ Head(job.left) \in PartsOf(job.op) /\ Head(job.left) \in Part \ {"out"}
         /\ \/ job.op = "text" /\ job.left = <<"text", "figs">> /\ Head(job.left) = "text"
               /\ Tail(job.left) = <<"figs">> /\ Len(job.left) = 2
            \/ job.op = "text" /\ job.left = <<"figs">> /\ Head(job.left) = "figs"
               /\ Tail(job.left) = <<>> /\ Len(job.left) = 1
            \/ job.op = "pages" /\ job.left = <<"pages">> /\ Head(job.left) = "pages"
               /\ Tail(job.left) = <<>> /\ Len(job.left) = 1
         /\ Len(job.left) \in {1, 2} /\ Len(Parts(job.op)) \in {1, 2}
  <1>1. job.op \in {"text", "pages"}
    BY DEF MakingJob
  <1>2. \/ job.op = "text" /\ job.left = <<"text", "figs">>
        \/ job.op = "text" /\ job.left = <<"figs">>
        \/ job.op = "pages" /\ job.left = <<"pages">>
    BY <1>1 DEF IInv, JobHolds, MakingHolds
  <1>3. /\ Head(<<"text", "figs">>) = "text" /\ Tail(<<"text", "figs">>) = <<"figs">>
        /\ Len(<<"text", "figs">>) = 2
        /\ Head(<<"figs">>) = "figs" /\ Tail(<<"figs">>) = <<>> /\ Len(<<"figs">>) = 1
        /\ Head(<<"pages">>) = "pages" /\ Tail(<<"pages">>) = <<>> /\ Len(<<"pages">>) = 1
    OBVIOUS
  <1>4. Head(job.left) \in PartsOf(job.op) /\ Head(job.left) \in Part \ {"out"}
    BY <1>2, <1>3 DEF PartsOf, Part, Output
  <1>5. Len(Parts(job.op)) \in {1, 2}
    <2>1. Len(<<"text", "figs">>) = 2 /\ Len(<<"pages">>) = 1
      OBVIOUS
    <2>2. Parts(job.op) \in {<<"text", "figs">>, <<"pages">>}
      BY <1>1 DEF Parts
    <2>. QED
      BY <2>1, <2>2
  <1>. QED
    BY <1>2, <1>3, <1>4, <1>5

\* Artifacts hold what their jobs make, or what a foreign hand has put there.
LEMMA ArtChanges ==
  ASSUME IInv, Next
  PROVE  art' \in [Part -> Content] /\ \A part \in Part : art'[part] \in KindOf(part)
  <1>1. art \in [Part -> Content] /\ \A part \in Part : art[part] \in KindOf(part)
    BY DEF IInv, TypeOK, BytesTrue
  <1>2. \A part \in Part : None \in KindOf(part) /\ Spoilt \in KindOf(part)
    BY DEF KindOf
  <1>3. \A part \in Part : part # "out" => KindOf(part) = Made \cup {Spoilt, None}
    BY DEF KindOf
  <1>4. \A part \in Part : KindOf(part) \subseteq Content
    BY Kinds
  <1>5. CASE UNCHANGED art
    BY <1>1, <1>5
  <1>6. ASSUME NEW part \in Part, NEW new \in KindOf(part), art' = [art EXCEPT ![part] = new]
        PROVE  art' \in [Part -> Content] /\ \A p \in Part : art'[p] \in KindOf(p)
    BY <1>1, <1>4, <1>6
  <1>7. CASE BackUp
    <2>1. Head(job.left) \in Part
      BY <1>7, LeftParts, KindOfJob DEF IInv, BackUp
    <2>. QED
      BY <1>2, <1>6, <1>7, <2>1 DEF BackUp
  <1>8. CASE Place
    <2>1. job \in MakingJob /\ job.pc = "install" /\ job.left # <<>>
      BY <1>8, KindOfJob DEF IInv, Place
    <2>2. Head(job.left) \in Part /\ Head(job.left) # "out" /\ job.made \in Made
      BY <2>1, LeftParts DEF IInv, JobHolds, MakingHolds
    <2>3. Staged(job.made, Head(job.left)) \in KindOf(Head(job.left))
      BY <1>3, <2>2, StagedKind
    <2>. QED
      BY <1>6, <1>8, <2>2, <2>3 DEF Place
  <1>9. CASE Withdraw
    <2>1. art' = [k \in Part |-> IF k \in job.placed THEN None ELSE art[k]]
      BY <1>9 DEF Withdraw
    <2>. QED
      BY <1>1, <1>2, <1>4, <2>1
  <1>10. CASE PutBack
    <2>1. job \in MakingJob /\ job.pc = "undo" /\ job.saved # <<>>
      BY <1>10, KindOfJob DEF IInv, PutBack
    <2>2. job.saved \in Seq([part : Part, was : Content]) /\ Len(job.saved) \in 1..Len(job.saved)
      BY <2>1, SavedKinds
    <2>3. Last(job.saved) = job.saved[Len(job.saved)]
      BY DEF Last
    <2>4. Last(job.saved).part \in Part /\ Last(job.saved).was \in KindOf(Last(job.saved).part)
      BY <1>3, <2>1, <2>2, <2>3, SavedKinds
    <2>. QED
      BY <1>6, <1>10, <2>4 DEF PutBack
  <1>11. CASE InstallAnswer
    <2>1. job \in FinalizeJob /\ job.run \in Run
      BY <1>11, KindOfJob DEF IInv, InstallAnswer, FinalizeJob
    <2>2. runs[job.run].sent \in Readable
      BY <2>1 DEF IInv, JobHolds, FinalizeHolds, RequestsTrue
    <2>3. PICK a : a = [inp |-> runs[job.run].sent, run |-> job.run]
      OBVIOUS
    <2>4. a \in Answer
      BY <2>1, <2>2, <2>3 DEF Answer, Readable
    <2>5. "out" \in Part /\ a \in KindOf("out") /\ art' = [art EXCEPT !["out"] = a]
      BY <1>11, <2>3, <2>4 DEF KindOf, Part, Output, InstallAnswer
    <2>. QED
      BY <1>6, <2>5
  <1>12. ASSUME NEW bytes \in {Spoilt, None}, NEW part \in Part, SpoilPart(part, bytes)
         PROVE  art' \in [Part -> Content] /\ \A p \in Part : art'[p] \in KindOf(p)
    BY <1>2, <1>6, <1>12 DEF SpoilPart
  <1>. QED
    BY <1>5, <1>7, <1>8, <1>9, <1>10, <1>11, <1>12, ArtSteps

\* A source file holds the bytes it is named by, or was changed by others.
LEMMA FileChanges ==
  ASSUME IInv, Next
  PROVE  /\ file' \in [Source -> Source \cup {Spoilt, None}]
         /\ \A s \in Source : file'[s] \in {s, Spoilt, None}
  <1>1. /\ file \in [Source -> Source \cup {Spoilt, None}]
        /\ \A s \in Source : file[s] \in {s, Spoilt, None}
    BY DEF IInv, TypeOK, BytesTrue
  <1>2. CASE InstallSource
    <2>1. job.plan.att \in Source
      BY <1>2, KindOfJob DEF IInv, InstallSource, ImportJob, Plan
    <2>. QED
      BY <1>1, <1>2, <2>1 DEF InstallSource
  <1>3. ASSUME NEW bytes \in {Spoilt, None}, NEW s \in Source, SpoilSource(s, bytes)
        PROVE  /\ file' \in [Source -> Source \cup {Spoilt, None}]
               /\ \A t \in Source : file'[t] \in {t, Spoilt, None}
    BY <1>1, <1>3 DEF SpoilSource
  <1>. QED
    BY <1>1, <1>2, <1>3, FileSteps

\* A run is given the input its snapshot has hashed and copied.
LEMMA RunChanges ==
  ASSUME IInv, Next
  PROVE  runs' \in [Run -> Request] /\ RequestsTrue'
  <1>1. runs \in [Run -> Request] /\ RequestsTrue
    BY DEF IInv, TypeOK
  <1>2. CASE UNCHANGED runs
    BY <1>1, <1>2 DEF RequestsTrue
  <1>3. CASE CopyInput
    <2>1. job \in SnapshotJob /\ job.pc = "copy" /\ job.run \in Run
      BY <1>3, KindOfJob DEF IInv, CopyInput, SnapshotJob
    <2>2. job.inp \in Readable /\ (RecipeInput = "pdf" => job.inp \in Source)
      BY <2>1 DEF IInv, JobHolds, SnapshotHolds
    <2>3. PICK n : n = [phase |-> "ready", inp |-> job.inp, sent |-> job.inp]
      OBVIOUS
    <2>4. n.inp = job.inp /\ n.sent = job.inp /\ n \in Request
      BY <2>2, <2>3, Kinds DEF Request
    <2>5. runs' = [runs EXCEPT ![job.run] = n]
      BY <1>3, <2>3 DEF CopyInput
    <2>. QED
      BY <1>1, <2>1, <2>2, <2>4, <2>5 DEF RequestsTrue
  <1>4. CASE SettleRun
    <2>1. job.run \in Run /\ runs[job.run].phase = "ready"
      BY <1>4, KindOfJob DEF IInv, SettleRun, FinalizeJob, JobHolds, FinalizeHolds
    <2>2. PICK m : m = runs[job.run]
      OBVIOUS
    <2>3. PICK n : n = [m EXCEPT !.phase = "done"]
      OBVIOUS
    <2>4. m \in Request
      BY <1>1, <2>1, <2>2
    <2>5. n \in Request /\ n.inp = m.inp /\ n.sent = m.sent
      BY <2>3, <2>4 DEF Request
    <2>6. runs' = [runs EXCEPT ![job.run] = n]
      BY <1>4, <2>2, <2>3 DEF SettleRun
    <2>. QED
      BY <1>1, <2>1, <2>2, <2>5, <2>6 DEF RequestsTrue
  <1>. QED
    BY <1>2, <1>3, <1>4, RunSteps

\* A preview shows what the paper is at that moment.
LEMMA PlanChanges ==
  ASSUME IInv, Next
  PROVE  plans' \subseteq Plan /\ AdditionsExpectNothing'
  <1>1. plans \subseteq Plan /\ AdditionsExpectNothing
    BY DEF IInv, TypeOK
  <1>2. ASSUME NEW e \in Export, Preview(e)
        PROVE  plans' \subseteq Plan /\ AdditionsExpectNothing'
    <2>1. SourceOf(paper) \in Source \cup {None} /\ (paper = None => SourceOf(paper) = None)
      BY RecordFields DEF IInv, TypeOK, SourceOf
    <2>2. PICK act : act = CASE paper = None -> "addition"
                             [] SourceOf(paper) = AttachmentOf[e] -> "refresh"
                             [] OTHER -> "source_replacement"
      OBVIOUS
    <2>3. act \in {"addition", "refresh", "source_replacement"}
          /\ (act = "addition" => paper = None)
      BY <2>2
    <2>4. PICK p : p = [action |-> act, meta |-> e, att |-> AttachmentOf[e],
                        expected |-> SourceOf(paper)]
      OBVIOUS
    <2>5. p \in Plan /\ p.action = act /\ p.expected = SourceOf(paper)
      BY <2>1, <2>3, <2>4, ExportsAttach DEF Plan
    <2>6. plans' = plans \cup {p}
      BY <1>2, <2>2, <2>4 DEF Preview
    <2>. QED
      BY <1>1, <2>1, <2>3, <2>5, <2>6 DEF AdditionsExpectNothing
  <1>3. ASSUME NEW p \in plans, Forget(p)
        PROVE  plans' \subseteq Plan /\ AdditionsExpectNothing'
    BY <1>1, <1>3 DEF Forget, AdditionsExpectNothing
  <1>. QED
    BY <1>1, <1>2, <1>3, PlanSteps DEF AdditionsExpectNothing

\* The two parts of BytesTrue.
LEMMA BytesStayTrue ==
  ASSUME IInv, Next
  PROVE  BytesTrue'
  BY ArtChanges, FileChanges DEF BytesTrue

-----------------------------------------------------------------------------
(* The steps of a job, and what it may count on after each *)

\* A step that leaves the lane.
LEMMA LeaveHolds ==
  ASSUME job' = Idle
  PROVE  job' \in Job /\ JobHolds'
  BY KindsApart DEF Job, JobHolds

\* A conversion or a page rendering begins with the recorded source.
LEMMA StartMakingHolds ==
  ASSUME IInv, NEW op \in Ops, StartMaking(op)
  PROVE  /\ job' \in MakingJob /\ job'.op = op /\ job'.pc = "make" /\ JobHolds'
  <1>1. op \in {"text", "pages"}
    BY OperationsKnown
  <1>2. paper.src \in Source /\ file[paper.src] = paper.src /\ paper # None
    BY RecordFields DEF IInv, TypeOK, StartMaking
  <1>3. Parts(op) \in {<<"text", "figs">>, <<"figs">>, <<"pages">>, <<>>}
    BY <1>1 DEF Parts
  <1>4. <<>> \in BoundedSeq([part : Part, was : Content], 2)
    <2>1. <<>> \in Seq([part : Part, was : Content]) /\ Len(<<>>) <= 2
      OBVIOUS
    <2>. QED
      BY <2>1, BoundedSequences
  <1>5. job' = [op |-> op, pc |-> "make", src |-> paper.src, left |-> Parts(op),
                made |-> None, saved |-> <<>>, placed |-> {}]
    BY <1>2 DEF StartMaking
  <1>6. job' \in MakingJob /\ job'.op = op /\ job'.pc = "make" /\ job'.src = paper.src
        /\ job'.left = Parts(op) /\ job'.saved = <<>> /\ job'.placed = {}
    BY <1>1, <1>2, <1>3, <1>4, <1>5 DEF MakingJob
  <1>7. UNCHANGED paper
    BY DEF StartMaking
  <1>8. MakingHolds'
    BY <1>2, <1>6, <1>7 DEF MakingHolds
  <1>. QED
    BY <1>6, <1>8, KindsApart DEF JobHolds

\* The installation begins with nothing saved and nothing placed.
LEMMA MakeHolds ==
  ASSUME IInv, NEW ver \in Version, Make(ver)
  PROVE  /\ job \in MakingJob /\ job' \in MakingJob /\ job'.op = job.op /\ job'.pc = "install"
         /\ job'.saved = <<>> /\ job'.placed = {} /\ JobHolds'
  <1>1. job \in MakingJob /\ job.pc = "make"
    BY KindOfJob DEF IInv, Make
  <1>2. job.op \in {"text", "pages"} /\ job.src \in Source
    BY <1>1 DEF MakingJob
  <1>3. PICK m : m = [src |-> job.src, ver |-> ver]
    OBVIOUS
  <1>4. m \in Made /\ m.src = job.src
    BY <1>2, <1>3 DEF Made
  <1>5. job' = [job EXCEPT !.pc = "install", !.made = m]
    BY <1>3 DEF Make
  <1>6. job' \in MakingJob /\ job'.op = job.op /\ job'.pc = "install" /\ job'.src = job.src
        /\ job'.made = m /\ job'.left = job.left /\ job'.saved = job.saved
        /\ job'.placed = job.placed
    BY <1>1, <1>4, <1>5 DEF MakingJob
  <1>7. /\ paper # None /\ paper.src = job.src /\ job.left = Parts(job.op) /\ job.saved = <<>>
        /\ job.placed = {}
    BY <1>1 DEF IInv, JobHolds, MakingHolds
  <1>8. UNCHANGED <<paper, art>>
    BY DEF Make
  <1>9. job'.left \in IF job'.op = "text" THEN {<<"text", "figs">>, <<"figs">>, <<>>}
                      ELSE {<<"pages">>, <<>>}
    BY <1>2, <1>6, <1>7 DEF Parts
  <1>10. Len(job'.saved) + Len(job'.left) <= Len(Parts(job'.op))
    BY <1>2, <1>6, <1>7 DEF Parts
  <1>11. Len(job'.saved) + Len(job'.left) <= Len(Parts(job'.op)) +
           IF job'.left # <<>> /\ art'[Head(job'.left)] = None THEN 1 ELSE 0
    BY <1>2, <1>6, <1>7, <1>10 DEF Parts
  <1>12. DOMAIN job'.saved = {}
    BY <1>6, <1>7
  <1>13. MakingHolds'
    BY <1>4, <1>6, <1>7, <1>8, <1>9, <1>11, <1>12 DEF MakingHolds, IsSaved
  <1>. QED
    BY <1>1, <1>6, <1>7, <1>13, KindsApart DEF JobHolds

\* The older part is in the backup, and no longer in its place.
LEMMA BackUpHolds ==
  ASSUME IInv, BackUp
  PROVE  /\ job \in MakingJob /\ job.pc = "install" /\ job.left # <<>>
         /\ job' \in MakingJob /\ job'.op = job.op /\ job'.pc = "install"
         /\ job'.left = job.left /\ job'.placed = job.placed
         /\ Len(job'.saved) = Len(job.saved) + 1
         /\ \A i \in 1..Len(job.saved) : job'.saved[i] = job.saved[i]
         /\ job'.saved[Len(job.saved) + 1].part = Head(job.left)
         /\ job'.saved[Len(job.saved) + 1].was = art[Head(job.left)]
         /\ ~IsSaved(Head(job.left)) /\ Head(job.left) \notin job.placed
         /\ art' = [art EXCEPT ![Head(job.left)] = None]
         /\ JobHolds'
  <1>1. job \in MakingJob /\ job.pc = "install" /\ job.left # <<>> /\ art[Head(job.left)] # None
    BY KindOfJob DEF IInv, BackUp
  <1>2. PICK part : part = Head(job.left)
    OBVIOUS
  <1>3. part \in PartsOf(job.op) /\ part \in Part \ {"out"} /\ job.left[1] = part
        /\ 1 \in DOMAIN job.left
    BY <1>1, <1>2, LeftParts
  <1>4. PICK rec : rec = [part |-> part, was |-> art[part]]
    OBVIOUS
  <1>5. art \in [Part -> Content] /\ art[part] \in Made \cup {Spoilt} /\ art[part] \in Content
    BY <1>1, <1>2, <1>3 DEF IInv, TypeOK, BytesTrue, KindOf
  <1>6. rec \in [part : Part, was : Content] /\ rec.part = part /\ rec.was = art[part]
    BY <1>3, <1>4, <1>5
  <1>7. job' = [job EXCEPT !.saved = Append(job.saved, rec)]
    BY <1>2, <1>4 DEF BackUp
  <1>8. MakingHolds /\ job.saved \in Seq([part : Part, was : Content])
    BY <1>1, SavedKinds DEF IInv, JobHolds
  <1>9. PICK new : new = Append(job.saved, rec)
    OBVIOUS
  <1>10. /\ new \in Seq([part : Part, was : Content]) /\ Len(new) = Len(job.saved) + 1
         /\ \A i \in 1..Len(job.saved) : new[i] = job.saved[i]
         /\ new[Len(job.saved) + 1] = rec
    BY <1>6, <1>8, <1>9
  <1>11. Len(job.saved) + Len(job.left) <= Len(Parts(job.op))
    <2>1. Len(job.saved) + Len(job.left) <= Len(Parts(job.op)) +
            IF job.left # <<>> /\ art[Head(job.left)] = None THEN 1 ELSE 0
      BY <1>1, <1>8 DEF MakingHolds
    <2>2. Len(Parts(job.op)) \in Nat /\ Len(Parts(job.op)) + 0 = Len(Parts(job.op))
      BY <1>1, LeftParts
    <2>. QED
      BY <1>1, <2>1, <2>2
  <1>12. Len(new) <= 2
    <2>1. Len(job.saved) \in Nat
      BY <1>8
    <2>2. Len(job.left) \in {1, 2} /\ Len(Parts(job.op)) \in {1, 2}
      BY <1>1, LeftParts
    <2>3. Len(new) = Len(job.saved) + 1
      BY <1>10
    <2>4. PICK a \in Nat, b \in {1, 2}, c \in {1, 2} :
            a = Len(job.saved) /\ b = Len(job.left) /\ c = Len(Parts(job.op))
      BY <2>1, <2>2
    <2>5. a + b <= c
      BY <1>11, <2>4
    <2>6. a + 1 <= 2
      BY <2>5
    <2>. QED
      BY <2>3, <2>4, <2>6
  <1>13. new \in BoundedSeq([part : Part, was : Content], 2)
    BY <1>10, <1>12, BoundedSequences
  <1>14. job' \in MakingJob /\ job'.op = job.op /\ job'.pc = "install" /\ job'.left = job.left
         /\ job'.placed = job.placed /\ job'.saved = new /\ job'.src = job.src
         /\ job'.made = job.made
    BY <1>1, <1>7, <1>9, <1>13 DEF MakingJob
  <1>15. ~IsSaved(part) /\ part \notin job.placed
    BY <1>1, <1>2, <1>3, <1>8 DEF MakingHolds
  <1>16. art' = [art EXCEPT ![part] = None]
    BY <1>2 DEF BackUp
  <1>17. UNCHANGED paper
    BY DEF BackUp
  <1>18. DOMAIN new = 1..(Len(job.saved) + 1) /\ DOMAIN job.saved = 1..Len(job.saved)
         /\ Len(job.saved) \in Nat
    BY <1>8, <1>10
  <1>19. \A i \in DOMAIN new : new[i].part \in PartsOf(job.op) /\ new[i].was \in Made \cup {Spoilt}
    <2> SUFFICES ASSUME NEW i \in DOMAIN new
                 PROVE  new[i].part \in PartsOf(job.op) /\ new[i].was \in Made \cup {Spoilt}
      OBVIOUS
    <2>1. CASE i = Len(job.saved) + 1
      BY <1>3, <1>5, <1>6, <1>10, <2>1
    <2>2. CASE i \in 1..Len(job.saved)
      BY <1>1, <1>8, <1>10, <1>18, <2>2 DEF MakingHolds
    <2>. QED
      BY <1>18, <2>1, <2>2
  <1>20. \A i \in DOMAIN job.left : IsSaved(job.left[i])' => i = 1 /\ art'[job.left[i]] = None
    <2> SUFFICES ASSUME NEW i \in DOMAIN job.left,
                        NEW n \in DOMAIN new, new[n].part = job.left[i]
                 PROVE  i = 1 /\ art'[job.left[i]] = None
      BY <1>14 DEF IsSaved
    <2>1. CASE n = Len(job.saved) + 1
      <3>1. job.left[i] = part
        BY <1>6, <1>10, <2>1
      <3>2. i = 1
        BY <1>1, <1>2, <3>1, LeftParts
      <3>. QED
        BY <1>3, <1>5, <1>16, <3>1, <3>2
    <2>2. CASE n \in 1..Len(job.saved)
      <3>1. IsSaved(job.left[i])
        BY <1>10, <1>18, <2>2 DEF IsSaved
      <3>. QED
        BY <1>1, <1>8, <1>3, <1>5, <1>16, <3>1 DEF MakingHolds
    <2>. QED
      BY <1>18, <2>1, <2>2
  <1>21. art'[Head(job.left)] = None
    BY <1>2, <1>3, <1>5, <1>16
  <1>22. MakingHolds'
    <2>1. Len(job'.saved) + Len(job'.left) <= Len(Parts(job'.op)) +
             IF job'.left # <<>> /\ art'[Head(job'.left)] = None THEN 1 ELSE 0
      <3>1. Len(job.left) \in Nat /\ Len(Parts(job.op)) \in Nat
        BY <1>1, LeftParts
      <3>2. Len(new) + Len(job.left) <= Len(Parts(job.op)) + 1
        <4>1. Len(new) = Len(job.saved) + 1 /\ Len(job.saved) \in Nat
          BY <1>10, <1>18
        <4>2. PICK a \in Nat, b \in Nat, c \in Nat :
                a = Len(job.saved) /\ b = Len(job.left) /\ c = Len(Parts(job.op))
          BY <3>1, <4>1
        <4>3. a + b <= c
          BY <1>11, <4>2
        <4>4. a + 1 + b <= c + 1
          BY <4>3
        <4>. QED
          BY <4>1, <4>2, <4>4
      <3>3. job'.saved = new /\ job'.left = job.left /\ job'.op = job.op /\ job.left # <<>>
        BY <1>1, <1>14
      <3>. QED
        BY <1>21, <3>2, <3>3
    <2>. QED
      BY <1>1, <1>8, <1>14, <1>17, <1>19, <1>20, <2>1 DEF MakingHolds
  <1>. QED
    BY <1>1, <1>2, <1>6, <1>10, <1>14, <1>15, <1>16, <1>22, KindsApart DEF JobHolds

\* The new part is in place, if the bundle has it, and nothing of the backup is lost.
LEMMA PlaceHolds ==
  ASSUME IInv, Place
  PROVE  /\ job \in MakingJob /\ job.pc = "install" /\ job.left # <<>>
         /\ job' \in MakingJob /\ job'.op = job.op /\ job'.pc = "install"
         /\ job'.saved = job.saved
         /\ Head(job.left) \in PartsOf(job.op) /\ Head(job.left) \notin job.placed
         /\ art[Head(job.left)] = None
         /\ job'.placed = IF Staged(job.made, Head(job.left)) = None THEN job.placed
                          ELSE job.placed \cup {Head(job.left)}
         /\ art' = [art EXCEPT ![Head(job.left)] = Staged(job.made, Head(job.left))]
         /\ JobHolds'
  <1>1. job \in MakingJob /\ job.pc = "install" /\ job.left # <<>>
    BY KindOfJob DEF IInv, Place
  <1>2. PICK part : part = Head(job.left)
    OBVIOUS
  <1>3. part \in PartsOf(job.op) /\ part \in Part \ {"out"} /\ job.left[1] = part
        /\ 1 \in DOMAIN job.left
    BY <1>1, <1>2, LeftParts
  <1>4. MakingHolds
    BY <1>1 DEF IInv, JobHolds
  <1>5. PICK new : new = Staged(job.made, part)
    OBVIOUS
  <1>6. art[part] = None /\ art' = [art EXCEPT ![part] = new]
    BY <1>2, <1>5 DEF Place
  <1>7. part \notin job.placed
    BY <1>1, <1>3, <1>4 DEF MakingHolds
  <1>8. PICK placed : placed = IF new = None THEN job.placed ELSE job.placed \cup {part}
    OBVIOUS
  <1>9. PICK left : left = Tail(job.left)
    OBVIOUS
  <1>10. job' = [job EXCEPT !.left = left, !.placed = placed]
    BY <1>2, <1>5, <1>8, <1>9 DEF Place
  <1>11. left \in {<<"figs">>, <<>>} /\ (job.op = "pages" => left = <<>>)
    BY <1>1, <1>9, LeftParts
  <1>12. placed \subseteq Part /\ placed \subseteq PartsOf(job.op)
    BY <1>1, <1>3, <1>4, <1>8 DEF MakingHolds, MakingJob
  <1>13. job' \in MakingJob /\ job'.op = job.op /\ job'.pc = "install" /\ job'.left = left
         /\ job'.placed = placed /\ job'.saved = job.saved /\ job'.src = job.src
         /\ job'.made = job.made
    BY <1>1, <1>10, <1>11, <1>12 DEF MakingJob
  <1>14. UNCHANGED paper
    BY DEF Place
  <1>15. \A i \in DOMAIN left : left[i] \notin placed /\ ~IsSaved(left[i])'
    <2> SUFFICES ASSUME NEW i \in DOMAIN left
                 PROVE  left[i] \notin placed /\ ~IsSaved(left[i])'
      OBVIOUS
    <2>1. left = <<"figs">> /\ i = 1 /\ left[i] = "figs"
      BY <1>11
    <2>2. job.left = <<"text", "figs">> /\ part = "text"
      BY <1>1, <1>2, <1>9, <2>1, LeftParts
    <2>3. 2 \in DOMAIN job.left /\ job.left[2] = "figs"
      BY <2>2
    <2>4. "figs" \notin job.placed /\ ~IsSaved("figs")
      BY <1>1, <1>4, <2>3 DEF MakingHolds
    <2>5. ~IsSaved("figs")'
      BY <1>13, <2>4 DEF IsSaved
    <2>. QED
      BY <1>8, <2>1, <2>2, <2>4, <2>5
  <1>16. job'.left \in IF job'.op = "text" THEN {<<"text", "figs">>, <<"figs">>, <<>>}
                       ELSE {<<"pages">>, <<>>}
    BY <1>1, <1>11, <1>13 DEF MakingJob
  <1>17. Len(job.saved) + Len(left) <= Len(Parts(job.op))
    <2>1. Len(job.left) = Len(left) + 1 /\ Len(left) \in Nat
      BY <1>1, <1>9, LeftParts
    <2>2. Len(job.saved) \in Nat /\ Len(Parts(job.op)) \in Nat
      BY <1>1, SavedKinds, LeftParts
    <2>3. PICK a \in Nat, b \in Nat, c \in Nat :
            a = Len(job.saved) /\ b = Len(left) /\ c = Len(Parts(job.op))
      BY <2>1, <2>2
    <2>4. Len(job.saved) + Len(job.left) <= Len(Parts(job.op)) + 1
      <3>1. job.left # <<>> /\ art[Head(job.left)] = None
        BY <1>1, <1>2, <1>6
      <3>. QED
        BY <1>1, <1>4, <3>1 DEF MakingHolds
    <2>5. a + (b + 1) <= c + 1
      BY <2>1, <2>3, <2>4
    <2>6. a + b <= c
      BY <2>5
    <2>. QED
      BY <2>3, <2>6
  <1>18. Len(job'.saved) + Len(job'.left) <= Len(Parts(job'.op)) +
           IF job'.left # <<>> /\ art'[Head(job'.left)] = None THEN 1 ELSE 0
    <2>1. Len(job.saved) \in Nat /\ Len(Parts(job.op)) \in Nat /\ Len(left) \in Nat
      BY <1>1, <1>11, SavedKinds, LeftParts
    <2>2. PICK a \in Nat, b \in Nat, c \in Nat :
            a = Len(job.saved) /\ b = Len(left) /\ c = Len(Parts(job.op))
      BY <2>1
    <2>3. a + b <= c
      BY <1>17, <2>2
    <2>4. a + b <= c + 1 /\ a + b <= c + 0
      BY <2>3
    <2>. QED
      BY <1>13, <2>2, <2>4
  <1>19. MakingHolds'
    BY <1>1, <1>4, <1>12, <1>13, <1>14, <1>15, <1>16, <1>18 DEF MakingHolds
  <1>20. job'.placed = IF Staged(job.made, Head(job.left)) = None THEN job.placed
                       ELSE job.placed \cup {Head(job.left)}
    BY <1>2, <1>5, <1>8, <1>13
  <1>21. art' = [art EXCEPT ![Head(job.left)] = Staged(job.made, Head(job.left))]
    BY <1>2, <1>5, <1>6
  <1>. QED
    BY <1>1, <1>2, <1>3, <1>6, <1>7, <1>13, <1>19, <1>20, <1>21, KindsApart DEF JobHolds

\* An installation that fails is withdrawn as it is.
LEMMA InstallFailsHolds ==
  ASSUME IInv, InstallFails
  PROVE  /\ job \in MakingJob /\ job.pc = "install"
         /\ job' \in MakingJob /\ job'.op = job.op /\ job'.pc = "undo"
         /\ job'.saved = job.saved /\ job'.placed = job.placed
         /\ JobHolds'
  <1>1. job \in MakingJob /\ job.pc = "install"
    BY KindOfJob DEF IInv, InstallFails
  <1>2. job' = [job EXCEPT !.pc = "undo"]
    BY DEF InstallFails
  <1>3. job' \in MakingJob /\ job'.op = job.op /\ job'.pc = "undo" /\ job'.saved = job.saved
        /\ job'.placed = job.placed /\ job'.src = job.src /\ job'.made = job.made
    BY <1>1, <1>2 DEF MakingJob
  <1>4. MakingHolds /\ UNCHANGED paper
    BY <1>1 DEF IInv, JobHolds, InstallFails
  <1>5. MakingHolds'
    BY <1>1, <1>3, <1>4 DEF MakingHolds
  <1>. QED
    BY <1>1, <1>3, <1>5, KindsApart DEF JobHolds

\* The new parts go before the older ones come back.
LEMMA WithdrawHolds ==
  ASSUME IInv, Withdraw
  PROVE  /\ job \in MakingJob /\ job.pc = "undo"
         /\ job' \in MakingJob /\ job'.op = job.op /\ job'.pc = "undo"
         /\ job'.saved = job.saved /\ job'.placed = {}
         /\ JobHolds'
  <1>1. job \in MakingJob /\ job.pc = "undo"
    BY KindOfJob DEF IInv, Withdraw
  <1>2. job' = [job EXCEPT !.placed = {}]
    BY DEF Withdraw
  <1>3. job' \in MakingJob /\ job'.op = job.op /\ job'.pc = "undo" /\ job'.saved = job.saved
        /\ job'.placed = {} /\ job'.src = job.src /\ job'.made = job.made
    BY <1>1, <1>2 DEF MakingJob
  <1>4. MakingHolds /\ UNCHANGED paper
    BY <1>1 DEF IInv, JobHolds, Withdraw
  <1>5. MakingHolds'
    BY <1>1, <1>3, <1>4 DEF MakingHolds
  <1>. QED
    BY <1>1, <1>3, <1>5, KindsApart DEF JobHolds

\* The part saved last comes back first.
LEMMA PutBackHolds ==
  ASSUME IInv, PutBack
  PROVE  /\ job \in MakingJob /\ job.pc = "undo" /\ job.placed = {}
         /\ job' \in MakingJob /\ job'.op = job.op /\ job'.pc = "undo" /\ job'.placed = {}
         /\ Len(job.saved) \in Nat /\ Len(job.saved) > 0
         /\ Len(job'.saved) = Len(job.saved) - 1
         /\ \A i \in 1..(Len(job.saved) - 1) : job'.saved[i] = job.saved[i]
         /\ job.saved[Len(job.saved)].part \in Part
         /\ art' = [art EXCEPT ![job.saved[Len(job.saved)].part] = job.saved[Len(job.saved)].was]
         /\ JobHolds'
  <1>1. job \in MakingJob /\ job.pc = "undo" /\ job.saved # <<>> /\ job.placed = {}
    BY KindOfJob DEF IInv, PutBack
  <1>2. MakingHolds /\ job.saved \in Seq([part : Part, was : Content]) /\ Len(job.saved) <= 2
    BY <1>1, SavedKinds DEF IInv, JobHolds
  <1>3. PICK n : n = Len(job.saved)
    OBVIOUS
  <1>4. n \in Nat /\ n > 0 /\ n <= 2
    BY <1>1, <1>2, <1>3
  <1>5. PICK rest : rest = Front(job.saved)
    OBVIOUS
  <1>6. rest \in Seq([part : Part, was : Content]) /\ Len(rest) = n - 1
        /\ \A i \in 1..(n - 1) : rest[i] = job.saved[i]
    <2>1. rest = SubSeq(job.saved, 1, n - 1)
      BY <1>3, <1>5 DEF Front
    <2>2. ASSUME NEW S, NEW s \in Seq(S), NEW m \in Nat, m > 0, m = Len(s)
          PROVE  /\ SubSeq(s, 1, m - 1) \in Seq(S) /\ Len(SubSeq(s, 1, m - 1)) = m - 1
                 /\ \A i \in 1..(m - 1) : SubSeq(s, 1, m - 1)[i] = s[i]
      BY <2>2
    <2>. QED
      BY <1>2, <1>3, <1>4, <2>1, <2>2
  <1>7. Len(rest) <= 2
    BY <1>4, <1>6
  <1>8. rest \in BoundedSeq([part : Part, was : Content], 2)
    BY <1>6, <1>7, BoundedSequences
  <1>9. job' = [job EXCEPT !.saved = rest]
    BY <1>5 DEF PutBack
  <1>10. job' \in MakingJob /\ job'.op = job.op /\ job'.pc = "undo" /\ job'.saved = rest
         /\ job'.placed = {} /\ job'.src = job.src /\ job'.made = job.made
    BY <1>1, <1>8, <1>9 DEF MakingJob
  <1>11. DOMAIN rest \subseteq DOMAIN job.saved
         /\ \A i \in DOMAIN rest : rest[i] = job.saved[i]
    BY <1>2, <1>3, <1>4, <1>6
  <1>12. UNCHANGED paper
    BY DEF PutBack
  <1>13. MakingHolds'
    BY <1>1, <1>2, <1>10, <1>11, <1>12 DEF MakingHolds
  <1>14. job.saved[n].part \in Part
    <2>1. n \in 1..Len(job.saved)
      BY <1>3, <1>4
    <2>. QED
      BY <1>1, <2>1, SavedKinds
  <1>15. art' = [art EXCEPT ![job.saved[n].part] = job.saved[n].was]
    BY <1>3 DEF PutBack, Last
  <1>. QED
    BY <1>1, <1>3, <1>4, <1>6, <1>10, <1>13, <1>14, <1>15, KindsApart DEF JobHolds

\* An import begins with a plan that fits the paper.
LEMMA StartImportHolds ==
  ASSUME IInv, NEW p \in plans, StartImport(p)
  PROVE  job' \in ImportJob /\ job'.plan = p /\ job'.pc = "copy" /\ JobHolds'
  <1>1. p \in Plan /\ (p.action = "addition" => p.expected = None)
    BY DEF IInv, TypeOK, AdditionsExpectNothing
  <1>2. job' = [op |-> "import", pc |-> "copy", plan |-> p, fresh |-> (paper = None)]
    BY DEF StartImport
  <1>3. job' \in ImportJob /\ job'.plan = p /\ job'.pc = "copy" /\ job'.fresh = (paper = None)
    BY <1>1, <1>2 DEF ImportJob
  <1>4. p.action # "refresh" /\ Accepts(p, paper) /\ paper' = paper /\ cut' = None
    BY DEF StartImport
  <1>5. Accepts(p, paper)'
    BY <1>4 DEF Accepts, SourceOf
  <1>6. ImportHolds'
    BY <1>1, <1>3, <1>4, <1>5 DEF ImportHolds, Accepts, SourceOf
  <1>. QED
    BY <1>3, <1>6, KindsApart DEF JobHolds

\* The copy of the attachment changes nothing of the paper.
LEMMA CopiedHolds ==
  ASSUME IInv, Copied
  PROVE  job' \in ImportJob /\ JobHolds'
  <1>1. job \in ImportJob /\ job.pc = "copy"
    BY KindOfJob DEF IInv, Copied
  <1>2. ImportHolds
    BY <1>1 DEF IInv, JobHolds
  <1>3. PICK pc : pc = IF job.fresh THEN "create" ELSE "source"
    OBVIOUS
  <1>4. job' = [job EXCEPT !.pc = pc]
    BY <1>3 DEF Copied
  <1>5. pc \in {"create", "source"} /\ (pc = "create" => paper = None)
        /\ (pc = "source" => paper # None)
    BY <1>1, <1>2, <1>3 DEF ImportHolds
  <1>6. job' \in ImportJob /\ job'.plan = job.plan /\ job'.pc = pc
    BY <1>1, <1>4, <1>5 DEF ImportJob
  <1>7. paper' = paper /\ cut' = cut
    BY DEF Copied
  <1>8. ImportHolds'
    BY <1>2, <1>5, <1>6, <1>7 DEF ImportHolds, Accepts, SourceOf
  <1>. QED
    BY <1>6, <1>8, KindsApart DEF JobHolds

\* The plan of an addition still fits the record it has just created.
LEMMA CreateRecordHolds ==
  ASSUME IInv, CreateRecord
  PROVE  job' \in ImportJob /\ JobHolds'
  <1>1. job \in ImportJob /\ job.pc = "create"
    BY KindOfJob DEF IInv, CreateRecord
  <1>2. ImportHolds /\ job.plan.action = "addition"
    BY <1>1, ImportSays DEF IInv, JobHolds
  <1>3. job' = [job EXCEPT !.pc = "source"] /\ cut' = cut
    BY DEF CreateRecord
  <1>4. job' \in ImportJob /\ job'.plan = job.plan /\ job'.pc = "source"
    BY <1>1, <1>3 DEF ImportJob
  <1>5. paper' # None /\ paper'.src = None
    BY ImportSays, NewRecordSays, RecordFields DEF Plan
  <1>6. ImportHolds'
    BY <1>2, <1>3, <1>4, <1>5 DEF ImportHolds, Accepts, SourceOf
  <1>. QED
    BY <1>4, <1>6, KindsApart DEF JobHolds

\* The source is in place before the record names it.
LEMMA InstallSourceHolds ==
  ASSUME IInv, InstallSource
  PROVE  job' \in ImportJob /\ job.plan.att \in Source /\ JobHolds'
  <1>1. job \in ImportJob /\ job.pc = "source"
    BY KindOfJob DEF IInv, InstallSource
  <1>2. ImportHolds /\ job.plan.att \in Source /\ file \in [Source -> Source \cup {Spoilt, None}]
    BY <1>1 DEF IInv, TypeOK, JobHolds, ImportJob, Plan
  <1>3. job' = [job EXCEPT !.pc = "record"] /\ paper' = paper /\ cut' = cut
        /\ file' = [file EXCEPT ![job.plan.att] = job.plan.att]
    BY DEF InstallSource
  <1>4. job' \in ImportJob /\ job'.plan = job.plan /\ job'.pc = "record"
    BY <1>1, <1>3 DEF ImportJob
  <1>5. file'[job.plan.att] = job.plan.att
    BY <1>2, <1>3
  <1>6. ImportHolds'
    BY <1>1, <1>2, <1>3, <1>4, <1>5 DEF ImportHolds, Accepts, SourceOf
  <1>. QED
    BY <1>2, <1>4, <1>6, KindsApart DEF JobHolds

\* A snapshot keeps the record it has read.
LEMMA StartSnapshotHolds ==
  ASSUME IInv, NEW r \in Run, StartSnapshot(r)
  PROVE  job' \in SnapshotJob /\ JobHolds'
  <1>1. paper \in PaperRecord /\ None \in Content
    BY DEF IInv, TypeOK, StartSnapshot, Content
  <1>2. job' = [op |-> "snapshot", pc |-> "hash", run |-> r, copy |-> paper, inp |-> None]
    BY DEF StartSnapshot
  <1>3. job' \in SnapshotJob /\ job'.pc = "hash"
    BY <1>1, <1>2 DEF SnapshotJob
  <1>. QED
    BY <1>3, KindsApart DEF JobHolds, SnapshotHolds

\* What a recipe can read: bytes of a transcription or of a source.
LEMMA InputKind ==
  ASSUME BytesTrue, NEW p \in PaperRecord, InputBytes(p) # None
  PROVE  /\ InputBytes(p) \in Readable
         /\ RecipeInput = "pdf" => p.src \in Source /\ InputBytes(p) \in {p.src, Spoilt}
         /\ RecipeInput = "transcription" => InputBytes(p) = art["text"]
  <1>1. CASE RecipeInput = "transcription"
    <2>1. InputBytes(p) = art["text"] /\ "text" \in Part
      BY <1>1 DEF InputBytes, Part, Output
    <2>. QED
      BY <1>1, <2>1 DEF BytesTrue, KindOf, Readable
  <1>2. CASE RecipeInput = "pdf"
    <2>1. p.src \in Source \cup {None}
      BY RecordFields
    <2>2. p.src # None /\ InputBytes(p) = file[p.src]
      BY <1>2 DEF InputBytes
    <2>. QED
      BY <1>2, <2>1, <2>2 DEF BytesTrue, Readable
  <1>. QED
    BY <1>1, <1>2, RecipesDeclared

\* What was hashed of a PDF has the recorded hash.
LEMMA HashInputHolds ==
  ASSUME IInv, HashInput
  PROVE  job' \in SnapshotJob /\ JobHolds'
  <1>1. job \in SnapshotJob
    BY KindOfJob DEF IInv, HashInput
  <1>2. PICK bytes : bytes = InputBytes(job.copy)
    OBVIOUS
  <1>3. bytes # None /\ (RecipeInput = "pdf" => bytes = job.copy.src)
        /\ job' = [job EXCEPT !.pc = "copy", !.inp = bytes]
    BY <1>2 DEF HashInput
  <1>4. job.copy \in PaperRecord
    BY <1>1 DEF SnapshotJob
  <1>5. bytes \in Readable /\ (RecipeInput = "pdf" => bytes \in Source)
    BY <1>2, <1>3, <1>4, InputKind DEF IInv
  <1>6. bytes \in Content
    BY <1>5, Kinds
  <1>7. job' \in SnapshotJob /\ job'.inp = bytes
    BY <1>1, <1>3, <1>6 DEF SnapshotJob
  <1>. QED
    BY <1>5, <1>7, KindsApart DEF JobHolds, SnapshotHolds

\* A finalize job keeps the record it has read.
LEMMA StartFinalizeHolds ==
  ASSUME IInv, NEW r \in Run, StartFinalize(r)
  PROVE  job' \in FinalizeJob /\ job'.pc = "hash" /\ JobHolds'
  <1>1. paper \in PaperRecord /\ paper # None
    BY DEF IInv, TypeOK, StartFinalize
  <1>2. job' = [op |-> "finalize", pc |-> "hash", run |-> r, copy |-> paper]
        /\ UNCHANGED <<paper, runs>> /\ runs[r].phase = "ready"
    BY DEF StartFinalize
  <1>3. job' \in FinalizeJob /\ job'.pc = "hash" /\ job'.run = r /\ job'.copy = paper
    BY <1>1, <1>2 DEF FinalizeJob
  <1>4. FinalizeHolds'
    BY <1>1, <1>2, <1>3 DEF FinalizeHolds
  <1>. QED
    BY <1>3, <1>4, KindsApart DEF JobHolds

\* An artifact nobody has touched and no job works on is as it is recorded.
LEMMA UntouchedKept ==
  ASSUME IInv, NEW k \in Output, k \notin torn \cup late, ~Installing(k), ~Writing(k)
  PROVE  Kept(k)
  BY DEF IInv, OlderHeld

\* The answer is installed while its input is still the recorded one, unless a
\* foreign hand or a crash had the input last.
LEMMA InstallAnswerHolds ==
  ASSUME IInv, InstallAnswer
  PROVE  /\ job \in FinalizeJob /\ job.pc = "hash" /\ job' \in FinalizeJob /\ job'.pc = "write"
         /\ JobHolds'
  <1>1. job \in FinalizeJob /\ job.pc = "hash"
    BY KindOfJob DEF IInv, InstallAnswer
  <1>2. job.run \in Run /\ job.copy \in PaperRecord
    BY <1>1 DEF FinalizeJob
  <1>3. /\ paper # None /\ job.copy = paper /\ runs[job.run].phase = "ready"
    BY <1>1 DEF IInv, JobHolds, FinalizeHolds
  <1>4. PICK inp : inp = runs[job.run].inp
    OBVIOUS
  <1>5. inp \in Readable /\ inp # None /\ (RecipeInput = "pdf" => inp \in Source)
        /\ runs[job.run].sent = inp
    BY <1>2, <1>3, <1>4, Kinds DEF IInv, RequestsTrue
  <1>6. InputBytes(paper) = inp
    BY <1>3, <1>4 DEF InstallAnswer
  <1>7. RecipeInput = "pdf" => inp = paper.src
    BY <1>2, <1>3, <1>5, <1>6, InputKind, NoneIsNoContent DEF IInv
  <1>8. "text" \in torn \cup late \/ inp = RecipeSource(paper)
    <2>1. CASE RecipeInput = "pdf"
      BY <1>7, <2>1 DEF RecipeSource
    <2>2. CASE RecipeInput = "transcription"
      <3> SUFFICES ASSUME "text" \notin torn \cup late PROVE inp = RecipeSource(paper)
        OBVIOUS
      <3>1. Kept("text")
        BY <1>1, UntouchedKept, KindsApart DEF Output, Installing, Writing
      <3>2. art["text"] = paper.prov["text"].is
        BY <1>3, <3>1 DEF Kept, PartsOf, Older, Recorded
      <3>. QED
        BY <1>2, <1>3, <1>5, <1>6, <2>2, <3>2, InputKind DEF IInv, RecipeSource
    <2>. QED
      BY <2>1, <2>2, RecipesDeclared
  <1>9. job' = [job EXCEPT !.pc = "write"]
        /\ UNCHANGED <<paper, runs, torn, late>>
    BY DEF InstallAnswer
  <1>10. job' \in FinalizeJob /\ job'.pc = "write" /\ job'.run = job.run /\ job'.copy = job.copy
    BY <1>1, <1>9 DEF FinalizeJob
  <1>11. art'["out"] = [inp |-> runs[job.run].sent, run |-> job.run]
    <2>1. PICK a : a = [inp |-> runs[job.run].sent, run |-> job.run]
      OBVIOUS
    <2>2. art' = [art EXCEPT !["out"] = a] /\ art \in [Part -> Content] /\ "out" \in Part
      BY <2>1 DEF InstallAnswer, IInv, TypeOK, Part, Output
    <2>. QED
      BY <2>1, <2>2
  <1>12. RecipeSource(paper)' = RecipeSource(paper)
    BY <1>9 DEF RecipeSource
  <1>13. FinalizeHolds'
    BY <1>3, <1>4, <1>7, <1>8, <1>9, <1>10, <1>11, <1>12 DEF FinalizeHolds
  <1>. QED
    BY <1>1, <1>10, <1>13, KindsApart DEF JobHolds

\* An answer that is left out, or written down, is still the job's to settle.
LEMMA StateHolds ==
  ASSUME IInv, SkipAnswer \/ WriteAnswer
  PROVE  /\ job \in FinalizeJob /\ job' \in FinalizeJob /\ job'.pc = "state" /\ JobHolds'
  <1>1. job \in FinalizeJob
    BY KindOfJob DEF IInv, SkipAnswer, WriteAnswer
  <1>2. job' = [job EXCEPT !.pc = "state"] /\ runs' = runs
    BY DEF SkipAnswer, WriteAnswer
  <1>3. job' \in FinalizeJob /\ job'.pc = "state" /\ job'.run = job.run
    BY <1>1, <1>2 DEF FinalizeJob
  <1>4. paper' # None
    <2>1. CASE SkipAnswer
      BY <1>1, <2>1 DEF SkipAnswer, IInv, JobHolds, FinalizeHolds
    <2>2. CASE WriteAnswer
      BY <2>2, WriteAnswerSays, RecordFields
    <2>. QED
      BY <2>1, <2>2
  <1>5. runs[job.run].phase = "ready"
    BY <1>1 DEF IInv, JobHolds, FinalizeHolds
  <1>6. FinalizeHolds'
    BY <1>2, <1>3, <1>4, <1>5 DEF FinalizeHolds
  <1>. QED
    BY <1>1, <1>3, <1>6, KindsApart DEF JobHolds

\* Bytes changed by somebody else are known to be.
LEMMA SpoilSourceHolds ==
  ASSUME IInv, NEW bytes \in {Spoilt, None}, NEW s \in Source, SpoilSource(s, bytes)
  PROVE  JobHolds'
  <1>1. job' = job /\ UNCHANGED <<paper, art, runs, late, cut>> /\ torn' = torn \cup {s}
        /\ file' = [file EXCEPT ![s] = bytes] /\ file \in [Source -> Source \cup {Spoilt, None}]
    BY DEF SpoilSource, IInv, TypeOK
  <1>2. \A t \in Source : t \in torn' \/ file'[t] = file[t]
    BY <1>1
  <1>3. ASSUME job \in MakingJob PROVE MakingHolds'
    <2>1. MakingHolds
      BY <1>3 DEF IInv, JobHolds
    <2>. QED
      BY <1>1, <2>1 DEF MakingHolds, IsSaved
  <1>4. ASSUME job \in ImportJob PROVE ImportHolds'
    <2>1. ImportHolds /\ job.plan.att \in Source
      BY <1>4 DEF IInv, JobHolds, ImportJob, Plan
    <2>2. Accepts(job.plan, paper)' = Accepts(job.plan, paper)
      BY <1>1 DEF Accepts, SourceOf
    <2>3. job.pc = "record" => job.plan.att \in torn' \/ file'[job.plan.att] = job.plan.att
      BY <1>1, <1>2, <2>1 DEF ImportHolds
    <2>. QED
      BY <1>1, <2>1, <2>2, <2>3 DEF ImportHolds
  <1>5. ASSUME job \in SnapshotJob PROVE SnapshotHolds'
    BY <1>1, <1>5 DEF IInv, JobHolds, SnapshotHolds
  <1>6. ASSUME job \in FinalizeJob PROVE FinalizeHolds'
    BY <1>1, <1>6 DEF IInv, JobHolds, FinalizeHolds, RecipeSource
  <1>. QED
    BY <1>1, <1>3, <1>4, <1>5, <1>6 DEF JobHolds

\* Another program that changes an artifact does not touch what the job stands on.
LEMMA SpoilPartHolds ==
  ASSUME IInv, NEW bytes \in {Spoilt, None}, NEW part \in Part, SpoilPart(part, bytes)
  PROVE  JobHolds'
  <1>1. job' = job /\ UNCHANGED <<paper, file, runs, late, cut>> /\ torn \subseteq torn'
        /\ art[part] # None
        /\ art' = [art EXCEPT ![part] = bytes] /\ art \in [Part -> Content]
        /\ (part = "out" => "out" \in torn')
    BY DEF SpoilPart, IInv, TypeOK
  <1>2. \A p \in Part : art[p] = None => art'[p] = None
    BY <1>1
  <1>3. ASSUME job \in MakingJob PROVE MakingHolds'
    <2>1. MakingHolds
      BY <1>3 DEF IInv, JobHolds
    <2>2. job.pc = "install" => \A i \in DOMAIN job.left : job.left[i] \in Part
      BY <1>3, <2>1 DEF MakingHolds, MakingJob, Part, Output
    <2>3. job.pc = "install" =>
            /\ \A i \in DOMAIN job.left :
                 /\ job.left[i] \notin job.placed
                 /\ IsSaved(job.left[i]) => i = 1 /\ art'[job.left[i]] = None
      BY <1>2, <2>1, <2>2 DEF MakingHolds
    <2>4. job.pc = "install" =>
            Len(job.saved) + Len(job.left) <= Len(Parts(job.op)) +
              IF job.left # <<>> /\ art'[Head(job.left)] = None THEN 1 ELSE 0
      <3> SUFFICES ASSUME job.pc = "install"
                   PROVE  Len(job.saved) + Len(job.left) <= Len(Parts(job.op)) +
                            IF job.left # <<>> /\ art'[Head(job.left)] = None THEN 1 ELSE 0
        OBVIOUS
      <3>1. CASE job.left = <<>>
        BY <2>1, <3>1 DEF MakingHolds
      <3>2. CASE job.left # <<>>
        <4>1. Head(job.left) \in Part
          BY <1>3, <3>2, LeftParts
        <4>2. CASE art[Head(job.left)] = None
          BY <1>2, <2>1, <3>2, <4>1, <4>2 DEF MakingHolds
        <4>3. CASE art[Head(job.left)] # None
          <5>1. Len(job.saved) + Len(job.left) <= Len(Parts(job.op)) + 0
            BY <2>1, <4>3 DEF MakingHolds
          <5>2. PICK a \in Nat, b \in Nat, c \in Nat :
                  a = Len(job.saved) /\ b = Len(job.left) /\ c = Len(Parts(job.op))
            BY <1>3, <3>2, SavedKinds, LeftParts
          <5>3. a + b <= c + 0
            BY <5>1, <5>2
          <5>4. a + b <= c + 1
            BY <5>3
          <5>. QED
            BY <5>2, <5>3, <5>4
        <4>. QED
          BY <4>2, <4>3
      <3>. QED
        BY <3>1, <3>2
    <2>. QED
      BY <1>1, <2>1, <2>3, <2>4 DEF MakingHolds, IsSaved
  <1>4. ASSUME job \in ImportJob PROVE ImportHolds'
    <2>1. ImportHolds
      BY <1>4 DEF IInv, JobHolds
    <2>. QED
      BY <1>1, <2>1 DEF ImportHolds, Accepts, SourceOf
  <1>5. ASSUME job \in SnapshotJob PROVE SnapshotHolds'
    BY <1>1, <1>5 DEF IInv, JobHolds, SnapshotHolds
  <1>6. ASSUME job \in FinalizeJob PROVE FinalizeHolds'
    <2>1. FinalizeHolds
      BY <1>6 DEF IInv, JobHolds
    <2>2. "out" \in torn' \/ art'["out"] = art["out"]
      BY <1>1 DEF Part, Output
    <2>. QED
      BY <1>1, <2>1, <2>2 DEF FinalizeHolds, RecipeSource
  <1>. QED
    BY <1>1, <1>3, <1>4, <1>5, <1>6 DEF JobHolds

\* A step that leaves the job and all it counts on alone.
LEMMA BesideHolds ==
  ASSUME IInv, UNCHANGED <<paper, file, art, runs, job, torn, late, cut>>
  PROVE  job' \in Job /\ JobHolds'
  <1>1. ASSUME MakingHolds PROVE MakingHolds'
    BY <1>1 DEF MakingHolds, IsSaved
  <1>2. ASSUME ImportHolds PROVE ImportHolds'
    BY <1>2 DEF ImportHolds, Accepts, SourceOf
  <1>3. ASSUME SnapshotHolds PROVE SnapshotHolds'
    BY <1>3 DEF SnapshotHolds
  <1>4. ASSUME FinalizeHolds PROVE FinalizeHolds'
    BY <1>4 DEF FinalizeHolds, RecipeSource
  <1>. QED
    BY <1>1, <1>2, <1>3, <1>4 DEF IInv, TypeOK, JobHolds

\* What a job may count on, it may count on after every step.
LEMMA JobChanges ==
  ASSUME IInv, Next
  PROVE  job' \in Job /\ JobHolds'
  <1>1. CASE job' = Idle
    BY <1>1, LeaveHolds
  <1>2. ASSUME Making PROVE job' \in Job /\ JobHolds'
    BY <1>1, <1>2, StartMakingHolds, MakeHolds, BackUpHolds, PlaceHolds, InstallFailsHolds,
       WithdrawHolds, PutBackHolds
       DEF Making, Job, MakeFails, RolledBack, UndoFails, RecordMade, RecordFails, Leave
  <1>3. ASSUME Importing PROVE job' \in Job /\ JobHolds'
    <2>1. ASSUME NEW e \in Export, Preview(e) PROVE job' \in Job /\ JobHolds'
      BY <2>1, BesideHolds DEF Preview
    <2>2. ASSUME NEW p \in plans, Forget(p) PROVE job' \in Job /\ JobHolds'
      BY <2>2, BesideHolds DEF Forget
    <2>3. ASSUME NEW p \in plans, Refresh(p) PROVE job' \in Job /\ JobHolds'
      BY <1>1, <2>3 DEF Refresh
    <2>. QED
      BY <1>1, <1>3, <2>1, <2>2, <2>3, StartImportHolds, CopiedHolds, CreateRecordHolds,
         InstallSourceHolds
         DEF Importing, Job, CopyFails, RecordSource, ImportFails, Leave
  <1>4. ASSUME Answering PROVE job' \in Job /\ JobHolds'
    <2>1. ASSUME NEW r \in Run, StartSnapshot(r) \/ StartFinalize(r)
          PROVE  job' \in Job /\ JobHolds'
      BY <2>1, StartSnapshotHolds, StartFinalizeHolds DEF Job
    <2>2. CASE HashInput \/ InstallAnswer \/ SkipAnswer \/ WriteAnswer
      BY <2>2, HashInputHolds, InstallAnswerHolds, StateHolds DEF Job
    <2>3. CASE CopyInput \/ SnapshotFails \/ AnswerFails \/ WriteAnswerFails \/ SettleRun
      BY <1>1, <2>3 DEF CopyInput, SnapshotFails, AnswerFails, WriteAnswerFails, SettleRun, Leave
    <2>. QED
      BY <1>4, <2>1, <2>2, <2>3 DEF Answering
  <1>5. ASSUME Outside PROVE job' \in Job /\ JobHolds'
    <2>1. CASE Crash
      BY <1>1, <2>1 DEF Crash, Leave
    <2>2. ASSUME NEW bytes \in {Spoilt, None}, NEW s \in Source, SpoilSource(s, bytes)
          PROVE  job' \in Job /\ JobHolds'
      BY <2>2, SpoilSourceHolds DEF SpoilSource, IInv, TypeOK
    <2>3. ASSUME NEW bytes \in {Spoilt, None}, NEW part \in Part, SpoilPart(part, bytes)
          PROVE  job' \in Job /\ JobHolds'
      BY <2>3, SpoilPartHolds DEF SpoilPart, IInv, TypeOK
    <2>. QED
      BY <1>5, <2>1, <2>2, <2>3 DEF Outside
  <1>. QED
    BY <1>2, <1>3, <1>4, <1>5 DEF Next

-----------------------------------------------------------------------------
(* The histories, and a plan cut short *)

\* The histories are of their types after every step.
LEMMA HistoryChanges ==
  ASSUME IInv, Next
  PROVE  /\ torn' \subseteq Output \cup Source /\ late' \subseteq Output
         /\ cut' \in Plan \cup {None} /\ upsets' \in 0..MaxUpsets
  <1>1. /\ torn \subseteq Output \cup Source /\ late \subseteq Output
        /\ cut \in Plan \cup {None} /\ upsets \in 0..MaxUpsets
    BY DEF IInv, TypeOK
  <1>2. CASE UNCHANGED <<torn, late, cut, upsets>>
    BY <1>1, <1>2
  <1>3. job.pc \in {"install", "undo"} => job.op \in Output
    BY KindOfJob, KindsApart DEF IInv, Output
  <1>4. job.op = "import" => job.plan \in Plan
    BY KindOfJob DEF IInv, ImportJob
  <1>5. ASSUME Making PROVE torn' \subseteq Output \cup Source /\ late' \subseteq Output
                            /\ UNCHANGED <<cut, upsets>>
    BY <1>1, <1>3, <1>5
       DEF Making, StartMaking, Make, MakeFails, BackUp, Place, InstallFails, Withdraw, PutBack,
           RolledBack, UndoFails, RecordMade, RecordFails
  <1>6. ASSUME Importing PROVE torn' \subseteq Output \cup Source /\ UNCHANGED <<late, upsets>>
                               /\ cut' \in Plan \cup {None}
    BY <1>1, <1>4, <1>6
       DEF Importing, Preview, Forget, Refresh, StartImport, CopyFails, Copied, CreateRecord,
           InstallSource, RecordSource, ImportFails
  <1>7. ASSUME Answering PROVE torn' \subseteq Output \cup Source /\ late' \subseteq Output
                               /\ UNCHANGED <<cut, upsets>>
    BY <1>1, <1>7
       DEF Answering, StartSnapshot, StartFinalize, HashInput, CopyInput, SnapshotFails,
           InstallAnswer, SkipAnswer, AnswerFails, WriteAnswer, WriteAnswerFails, SettleRun, Output
  <1>8. ASSUME Outside PROVE torn' \subseteq Output \cup Source /\ late' = late
                             /\ cut' \in Plan \cup {None} /\ upsets' \in 0..MaxUpsets
    <2>1. CASE Crash
      <3>1. job.pc \in {"install", "undo", "write"} =>
              (IF job.op = "finalize" THEN "out" ELSE job.op) \in Output
        BY <1>3, KindOfJob, KindsApart DEF IInv, Output
      <3>2. upsets' \in 0..MaxUpsets
        BY <1>1, <2>1, BoundsNatural DEF Crash
      <3>. QED
        BY <1>1, <1>4, <2>1, <3>1, <3>2 DEF Crash
    <2>2. ASSUME NEW bytes \in {Spoilt, None}, NEW s \in Source, SpoilSource(s, bytes)
          PROVE  torn' \subseteq Output \cup Source /\ UNCHANGED <<late, cut>>
                 /\ upsets' \in 0..MaxUpsets
      BY <1>1, <2>2, BoundsNatural DEF SpoilSource
    <2>3. ASSUME NEW bytes \in {Spoilt, None}, NEW part \in Part, SpoilPart(part, bytes)
          PROVE  torn' \subseteq Output \cup Source /\ UNCHANGED <<late, cut>>
                 /\ upsets' \in 0..MaxUpsets
      BY <1>1, <2>3, BoundsNatural DEF SpoilPart, Part, Output
    <2>. QED
      BY <1>1, <1>8, <2>1, <2>2, <2>3 DEF Outside
  <1>. QED
    BY <1>1, <1>5, <1>6, <1>7, <1>8 DEF Next

\* The types are kept by every step.
LEMMA TypesStay ==
  ASSUME IInv, Next
  PROVE  TypeOK'
  BY PaperChanges, FileChanges, ArtChanges, RunChanges, PlanChanges, JobChanges, HistoryChanges
     DEF TypeOK

\* What a plan wants of a paper is that it is there, and its source.
LEMMA AcceptsBySource ==
  ASSUME NEW p, NEW q \in PaperRecord, NEW r \in PaperRecord, q.src = r.src, Accepts(p, q)
  PROVE  Accepts(p, r)
  BY RecordFields DEF Accepts, SourceOf

\* A plan that was cut short fits the paper for as long as no import begins.
LEMMA CutStaysResumable ==
  ASSUME IInv, Next
  PROVE  Resumable'
  <1>1. ASSUME job \in ImportJob PROVE Accepts(job.plan, paper) /\ cut = None
    BY <1>1 DEF IInv, JobHolds, ImportHolds
  <1>2. Resumable
    BY DEF IInv
  <1>3. CASE cut' = None
    BY <1>3 DEF Resumable
  <1>4. ASSUME cut' # None, UNCHANGED paper PROVE Resumable'
    <2>1. CASE UNCHANGED cut
      BY <1>2, <1>4, <2>1 DEF Resumable, Accepts, SourceOf
    <2>2. CASE ImportFails
      <3>1. job \in ImportJob /\ cut' = job.plan
        BY <2>2, KindOfJob DEF IInv, ImportFails
      <3>. QED
        BY <1>1, <1>4, <3>1 DEF Resumable, Accepts, SourceOf
    <2>3. CASE Crash
      <3>1. cut' = cut \/ (job \in ImportJob /\ cut' = job.plan)
        BY <2>3, KindOfJob DEF IInv, Crash
      <3>. QED
        BY <1>1, <1>2, <1>4, <3>1 DEF Resumable, Accepts, SourceOf
    <2>. QED
      BY <1>4, <2>1, <2>2, <2>3, CutSteps DEF StartImport
  <1>5. ASSUME UNCHANGED cut, paper \in PaperRecord, paper' \in PaperRecord,
               paper'.src = paper.src
        PROVE  Resumable'
    BY <1>2, <1>5, AcceptsBySource DEF Resumable
  <1>6. CASE RecordMade
    BY <1>5, <1>6, RecordMadeSays DEF RecordMade
  <1>7. CASE WriteAnswer
    BY <1>5, <1>7, WriteAnswerSays DEF WriteAnswer
  <1>8. ASSUME NEW p \in plans, Refresh(p) PROVE Resumable'
    BY <1>5, <1>8, RefreshSays DEF Refresh
  <1>9. CASE CreateRecord \/ RecordSource
    BY <1>1, <1>3, <1>9, ImportSays DEF CreateRecord, RecordSource
  <1>. QED
    BY <1>3, <1>4, <1>6, <1>7, <1>8, <1>9, PaperSteps

\* The recorded source is installed before it is recorded, and only a foreign
\* hand takes it away.
LEMMA SourceStaysHeld ==
  ASSUME IInv, Next
  PROVE  SourceHeld'
  <1>1. SourceHeld /\ file \in [Source -> Source \cup {Spoilt, None}]
    BY DEF IInv, TypeOK
  <1>2. paper' # None => paper' \in PaperRecord
    BY PaperChanges
  <1>3. \A s \in Source : s \notin torn' => s \notin torn \/ file'[s] = s
    <2>1. \A s \in Source : s \notin Output
      BY Kinds
    <2>2. CASE InstallSource
      BY <1>1, <2>2 DEF InstallSource
    <2>3. CASE RecordMade
      BY <2>1, <2>3, RecordMadeSays DEF RecordMade, Output
    <2>4. CASE WriteAnswer
      BY <2>1, <2>4 DEF WriteAnswer, Output
    <2>5. \/ torn \subseteq torn' \/ InstallSource \/ RecordMade \/ WriteAnswer
      BY DEF Next, Making, Importing, Answering, Outside, StartMaking, Make, MakeFails, BackUp,
         Place, InstallFails, Withdraw, PutBack, RolledBack, UndoFails, RecordFails, Preview,
         Forget, Refresh, StartImport, CopyFails, Copied, CreateRecord, RecordSource,
         ImportFails, StartSnapshot, StartFinalize, HashInput, CopyInput, SnapshotFails,
         InstallAnswer, SkipAnswer, AnswerFails, WriteAnswerFails, SettleRun, Crash,
         SpoilSource, SpoilPart
    <2>. QED
      BY <2>2, <2>3, <2>4, <2>5
  <1>4. \A s \in Source : file'[s] = file[s] \/ file'[s] = s \/ s \in torn'
    BY <1>1, FileSteps DEF InstallSource, SpoilSource
  <1>5. ASSUME NEW s \in Source, paper # None, paper.src = s, s \notin torn'
        PROVE  file'[s] = s
    BY <1>1, <1>3, <1>4, <1>5, NoneIsNoContent DEF SourceHeld
  <1>6. ASSUME paper' # None => paper # None /\ paper'.src = paper.src
        PROVE  SourceHeld'
    BY <1>2, <1>5, <1>6, RecordFields DEF SourceHeld
  <1>7. CASE CreateRecord
    BY <1>7, ImportSays, NewRecordSays DEF SourceHeld, Plan
  <1>8. CASE RecordSource
    <2>1. job \in ImportJob /\ job.pc = "record" /\ paper'.src = job.plan.att
          /\ job.plan.att \in Source
      BY <1>8, ImportSays DEF Plan
    <2>2. job.plan.att \in torn \/ file[job.plan.att] = job.plan.att
      BY <2>1 DEF IInv, JobHolds, ImportHolds
    <2>3. UNCHANGED <<file, torn>>
      BY <1>8 DEF RecordSource
    <2>. QED
      BY <2>1, <2>2, <2>3 DEF SourceHeld
  <1>9. ASSUME NEW p \in plans, Refresh(p) PROVE SourceHeld'
    BY <1>6, <1>9, RefreshSays, RecordFields
  <1>. QED
    BY <1>6, <1>7, <1>8, <1>9, PaperSteps, RecordMadeSays, WriteAnswerSays, RecordFields

-----------------------------------------------------------------------------
(* The older bundle *)

\* No job is installing an output and writing an answer down at once.
LEMMA WhoWorks ==
  ASSUME TypeOK, NEW k
  PROVE  /\ job = Idle => ~Installing(k) /\ ~Writing(k)
         /\ job \in ImportJob \cup SnapshotJob => ~Installing(k) /\ ~Writing(k)
         /\ job \in FinalizeJob => ~Installing(k)
         /\ job \in MakingJob => ~Writing(k)
         /\ Installing(k) <=> job \in MakingJob /\ job.op = k /\ job.pc \in {"install", "undo"}
  BY KindsApart DEF Installing, Writing

\* An output is kept by a step that leaves its parts and its record alone.
LEMMA KeptStays ==
  ASSUME NEW k \in Output, Kept(k), \A l \in Output : Recorded(l)' = Recorded(l),
         \A part \in PartsOf(k) : art'[part] = art[part]
  PROVE  Kept(k)'
  <1>1. \A part \in PartsOf(k) : part = "figs" \/ part \in Output
    BY DEF PartsOf
  <1>2. \A part \in PartsOf(k) : Older(part)' = Older(part)
    BY <1>1 DEF Older, FiguresOf, Output
  <1>. QED
    BY <1>2 DEF Kept

\* The record of each output is kept by a step that keeps its provenance.
LEMMA RecordedStays ==
  ASSUME \/ UNCHANGED paper
         \/ paper \in PaperRecord /\ paper' \in PaperRecord /\ paper'.prov = paper.prov
  PROVE  \A l \in Output : Recorded(l)' = Recorded(l)
  BY RecordFields DEF Recorded

\* Steps that write no artifact, and end the work on one only by blaming it.
LEMMA NothingMoved ==
  ASSUME IInv, UNCHANGED art, \A l \in Output : Recorded(l)' = Recorded(l),
         \A k \in Output : ~Installing(k)',
         \A k \in Output : k \notin torn' \cup late' =>
           k \notin torn \cup late /\ ~Installing(k) /\ ~Writing(k)
  PROVE  OlderHeld'
  <1> SUFFICES ASSUME NEW k \in Output, k \notin torn' \cup late' PROVE Kept(k)'
    BY DEF OlderHeld
  <1>1. Kept(k)
    BY UntouchedKept
  <1>. QED
    BY <1>1, KeptStays

\* The steps of a job between the beginning and the end of an installation: it
\* answers for its own output, and leaves the others alone.
LEMMA InstallationSteps ==
  ASSUME IInv, job \in MakingJob, job' \in MakingJob, job'.op = job.op,
         job'.pc \in {"install", "undo"}, UNCHANGED <<paper, torn, late>>,
         \A k \in Output \ {job.op} : \A part \in PartsOf(k) : art'[part] = art[part],
         job.op \notin torn \cup late => Behind'
  PROVE  OlderHeld'
  <1> SUFFICES ASSUME NEW k \in Output, k \notin torn \cup late
               PROVE  (IF Installing(k) THEN Behind ELSE Writing(k) \/ Kept(k))'
    BY DEF OlderHeld
  <1>1. CASE k = job.op
    BY <1>1 DEF Installing
  <1>2. CASE k # job.op
    <2>1. ~Installing(k) /\ ~Writing(k) /\ ~Installing(k)'
      BY <1>2, KindsApart DEF Installing, Writing
    <2>2. Kept(k)
      BY <2>1, UntouchedKept
    <2>3. Kept(k)'
      BY <1>2, <2>2, KeptStays, RecordedStays
    <2>. QED
      BY <2>1, <2>3
  <1>. QED
    BY <1>1, <1>2

\* The parts of two outputs are different.
LEMMA PartsApart ==
  ASSUME NEW k \in Output, NEW l \in Output, k # l, NEW part \in PartsOf(k)
  PROVE  part \notin PartsOf(l) /\ part \in Part
  BY DEF PartsOf, Output, Part

\* A new installation finds every older part in its place.
LEMMA MakeKeepsOlder ==
  ASSUME IInv, NEW ver \in Version, Make(ver)
  PROVE  OlderHeld'
  <1>1. /\ job \in MakingJob /\ job' \in MakingJob /\ job'.op = job.op /\ job'.pc = "install"
        /\ job'.saved = <<>> /\ job'.placed = {} /\ job.pc = "make"
    BY MakeHolds DEF Make
  <1>2. UNCHANGED <<paper, art, torn, late>>
    BY DEF Make
  <1>3. job.op \in Output
    BY <1>1, KindsApart DEF Output
  <1>4. ASSUME job.op \notin torn \cup late PROVE Behind'
    <2>1. ~Installing(job.op) /\ ~Writing(job.op)
      BY <1>1, KindsApart DEF Installing, Writing
    <2>2. Kept(job.op)
      BY <1>3, <1>4, <2>1, UntouchedKept
    <2>3. \A part \in PartsOf(job.op) : art'[part] = Older(part)'
      BY <1>2, <2>2 DEF Kept, Older, Recorded
    <2>. QED
      BY <1>1, <2>3 DEF Behind, IsSaved
  <1>. QED
    BY <1>1, <1>2, <1>4, InstallationSteps

\* The part that leaves its place is in the backup.
LEMMA BackUpKeepsOlder ==
  ASSUME IInv, BackUp
  PROVE  OlderHeld'
  <1>1. /\ job \in MakingJob /\ job.pc = "install" /\ job.left # <<>>
        /\ job' \in MakingJob /\ job'.op = job.op /\ job'.pc = "install"
        /\ job'.placed = job.placed /\ Len(job'.saved) = Len(job.saved) + 1
        /\ \A i \in 1..Len(job.saved) : job'.saved[i] = job.saved[i]
        /\ job'.saved[Len(job.saved) + 1].part = Head(job.left)
        /\ job'.saved[Len(job.saved) + 1].was = art[Head(job.left)]
        /\ ~IsSaved(Head(job.left)) /\ Head(job.left) \notin job.placed
        /\ art' = [art EXCEPT ![Head(job.left)] = None]
    BY BackUpHolds
  <1>2. PICK head : head = Head(job.left)
    OBVIOUS
  <1>3. PICK n : n = Len(job.saved)
    OBVIOUS
  <1>4. job.saved \in Seq([part : Part, was : Content]) /\ n \in Nat
        /\ job.op \in Output /\ head \in PartsOf(job.op)
    BY <1>1, <1>2, <1>3, SavedKinds, LeftParts, KindsApart DEF Output
  <1>5. job'.saved \in Seq([part : Part, was : Content])
    BY <1>1, BoundedSequences DEF MakingJob
  <1>6. DOMAIN job'.saved = 1..(n + 1) /\ DOMAIN job.saved = 1..n
    BY <1>1, <1>3, <1>4, <1>5
  <1>7. UNCHANGED <<paper, torn, late>> /\ art \in [Part -> Content]
    BY DEF BackUp, IInv, TypeOK
  <1>8. \A k \in Output \ {job.op} : \A part \in PartsOf(k) : art'[part] = art[part]
    BY <1>1, <1>2, <1>4, <1>7, PartsApart
  <1>9. ASSUME job.op \notin torn \cup late PROVE Behind'
    <2>1. Behind
      BY <1>1, <1>4, <1>9 DEF IInv, OlderHeld, Installing
    <2>2. \A part : Older(part)' = Older(part)
      BY <1>7 DEF Older, Recorded
    <2> SUFFICES ASSUME NEW part \in PartsOf(job.op)
                 PROVE  /\ \A i \in 1..(n + 1) :
                             job'.saved[i].part = part => job'.saved[i].was = Older(part)
                        /\ ~IsSaved(part)' =>
                             IF part \in job.placed THEN Older(part) = None
                             ELSE art'[part] = Older(part)
      BY <1>1, <1>6, <2>2 DEF Behind
    <2>3. /\ \A i \in 1..n : job.saved[i].part = part => job.saved[i].was = Older(part)
          /\ ~IsSaved(part) => IF part \in job.placed THEN Older(part) = None
                               ELSE art[part] = Older(part)
      BY <1>6, <2>1 DEF Behind
    <2>4. ASSUME NEW i \in 1..(n + 1), job'.saved[i].part = part
          PROVE  job'.saved[i].was = Older(part)
      <3>1. CASE i = n + 1
        <4>1. part = head /\ job'.saved[i].was = art[head]
          BY <1>1, <1>2, <1>3, <2>4, <3>1
        <4>2. ~IsSaved(part) /\ part \notin job.placed
          BY <1>1, <1>2, <4>1
        <4>. QED
          BY <2>3, <4>1, <4>2
      <3>2. CASE i \in 1..n
        BY <1>1, <1>3, <2>3, <2>4, <3>2
      <3>. QED
        BY <1>4, <3>1, <3>2
    <2>5. ASSUME ~IsSaved(part)' PROVE ~IsSaved(part) /\ part # head
      <3>1. part # head
        BY <1>1, <1>2, <1>3, <1>4, <1>6, <2>5 DEF IsSaved
      <3>2. \A i \in 1..n : i \in 1..(n + 1) /\ job'.saved[i] = job.saved[i]
        BY <1>1, <1>3, <1>4
      <3>3. ~IsSaved(part)
        BY <1>6, <2>5, <3>2 DEF IsSaved
      <3>. QED
        BY <3>1, <3>3
    <2>6. part # head => art'[part] = art[part]
      BY <1>1, <1>2, <1>4, <1>7 DEF PartsOf, Part, Output
    <2>. QED
      BY <2>3, <2>4, <2>5, <2>6
  <1>. QED
    BY <1>1, <1>7, <1>8, <1>9, InstallationSteps

\* A part placed where there was none before is known to be new.
LEMMA PlaceKeepsOlder ==
  ASSUME IInv, Place
  PROVE  OlderHeld'
  <1>1. /\ job \in MakingJob /\ job.pc = "install" /\ job.left # <<>>
        /\ job' \in MakingJob /\ job'.op = job.op /\ job'.pc = "install"
        /\ job'.saved = job.saved
        /\ Head(job.left) \in PartsOf(job.op) /\ Head(job.left) \notin job.placed
        /\ art[Head(job.left)] = None
        /\ job'.placed = IF Staged(job.made, Head(job.left)) = None THEN job.placed
                         ELSE job.placed \cup {Head(job.left)}
        /\ art' = [art EXCEPT ![Head(job.left)] = Staged(job.made, Head(job.left))]
    BY PlaceHolds
  <1>2. PICK head : head = Head(job.left)
    OBVIOUS
  <1>3. job.op \in Output /\ head \in PartsOf(job.op) /\ head \in Part
    BY <1>1, <1>2, LeftParts, KindsApart DEF Output
  <1>4. UNCHANGED <<paper, torn, late>> /\ art \in [Part -> Content]
    BY DEF Place, IInv, TypeOK
  <1>5. \A k \in Output \ {job.op} : \A part \in PartsOf(k) : art'[part] = art[part]
    BY <1>1, <1>2, <1>3, <1>4, PartsApart
  <1>6. ASSUME job.op \notin torn \cup late PROVE Behind'
    <2>1. Behind
      BY <1>1, <1>3, <1>6 DEF IInv, OlderHeld, Installing
    <2>2. \A part : (Older(part)' = Older(part)) /\ (IsSaved(part)' <=> IsSaved(part))
      BY <1>1, <1>4 DEF Older, Recorded, IsSaved
    <2> SUFFICES ASSUME NEW part \in PartsOf(job.op)
                 PROVE  ~IsSaved(part) =>
                          IF part \in job'.placed THEN Older(part) = None
                          ELSE art'[part] = Older(part)
      BY <1>1, <2>1, <2>2 DEF Behind
    <2>3. ~IsSaved(part) => IF part \in job.placed THEN Older(part) = None
                            ELSE art[part] = Older(part)
      BY <2>1 DEF Behind
    <2>4. CASE part = head
      BY <1>1, <1>2, <1>3, <1>4, <2>3, <2>4
    <2>5. CASE part # head
      <3>1. art'[part] = art[part] /\ (part \in job'.placed <=> part \in job.placed)
        BY <1>1, <1>2, <1>3, <1>4, <2>5 DEF PartsOf, Part, Output
      <3>. QED
        BY <2>3, <3>1
    <2>. QED
      BY <2>4, <2>5
  <1>. QED
    BY <1>1, <1>4, <1>5, <1>6, InstallationSteps

\* The withdrawal of the new parts leaves what was there or is in the backup.
LEMMA WithdrawKeepsOlder ==
  ASSUME IInv, Withdraw
  PROVE  OlderHeld'
  <1>1. /\ job \in MakingJob /\ job.pc = "undo" /\ job' \in MakingJob /\ job'.op = job.op
        /\ job'.pc = "undo" /\ job'.saved = job.saved /\ job'.placed = {}
    BY WithdrawHolds
  <1>2. job.op \in Output /\ job.placed \subseteq PartsOf(job.op)
    BY <1>1, KindsApart DEF IInv, JobHolds, MakingHolds, Output
  <1>3. UNCHANGED <<paper, torn, late>>
        /\ art' = [k \in Part |-> IF k \in job.placed THEN None ELSE art[k]]
    BY DEF Withdraw
  <1>4. \A k \in Output \ {job.op} : \A part \in PartsOf(k) : art'[part] = art[part]
    BY <1>2, <1>3, PartsApart
  <1>5. ASSUME job.op \notin torn \cup late PROVE Behind'
    <2>1. Behind
      BY <1>1, <1>2, <1>5 DEF IInv, OlderHeld, Installing
    <2>2. \A part : (Older(part)' = Older(part)) /\ (IsSaved(part)' <=> IsSaved(part))
      BY <1>1, <1>3 DEF Older, Recorded, IsSaved
    <2>3. \A part \in PartsOf(job.op) : part \in Part
      BY <1>2 DEF PartsOf, Part, Output
    <2>4. \A part \in PartsOf(job.op) : ~IsSaved(part) => art'[part] = Older(part)
      BY <1>3, <2>1, <2>3 DEF Behind
    <2>. QED
      BY <1>1, <2>1, <2>2, <2>4 DEF Behind
  <1>. QED
    BY <1>1, <1>3, <1>4, <1>5, InstallationSteps

\* A part that comes back is the older one.
LEMMA PutBackKeepsOlder ==
  ASSUME IInv, PutBack
  PROVE  OlderHeld'
  <1>1. /\ job \in MakingJob /\ job.pc = "undo" /\ job.placed = {}
        /\ job' \in MakingJob /\ job'.op = job.op /\ job'.pc = "undo" /\ job'.placed = {}
        /\ Len(job.saved) \in Nat /\ Len(job.saved) > 0
        /\ Len(job'.saved) = Len(job.saved) - 1
        /\ \A i \in 1..(Len(job.saved) - 1) : job'.saved[i] = job.saved[i]
        /\ job.saved[Len(job.saved)].part \in Part
        /\ art' = [art EXCEPT ![job.saved[Len(job.saved)].part] = job.saved[Len(job.saved)].was]
    BY PutBackHolds
  <1>2. PICK n : n = Len(job.saved)
    OBVIOUS
  <1>3. PICK last : last = job.saved[n]
    OBVIOUS
  <1>4. n \in Nat /\ n > 0 /\ last.part \in Part /\ art' = [art EXCEPT ![last.part] = last.was]
        /\ \A i \in 1..(n - 1) : job'.saved[i] = job.saved[i]
    BY <1>1, <1>2, <1>3
  <1>5. DOMAIN job.saved = 1..n /\ DOMAIN job'.saved = 1..(n - 1)
    <2>1. job.saved \in Seq([part : Part, was : Content])
          /\ job'.saved \in Seq([part : Part, was : Content])
      BY <1>1, BoundedSequences DEF MakingJob
    <2>. QED
      BY <1>1, <1>2, <2>1
  <1>6. job.op \in Output /\ last.part \in PartsOf(job.op)
    BY <1>1, <1>3, <1>4, <1>5, KindsApart DEF IInv, JobHolds, MakingHolds, Output
  <1>7. UNCHANGED <<paper, torn, late>> /\ art \in [Part -> Content]
    BY DEF PutBack, IInv, TypeOK
  <1>8. \A k \in Output \ {job.op} : \A part \in PartsOf(k) : art'[part] = art[part]
    BY <1>4, <1>6, <1>7, PartsApart
  <1>9. ASSUME job.op \notin torn \cup late PROVE Behind'
    <2>1. Behind
      BY <1>1, <1>6, <1>9 DEF IInv, OlderHeld, Installing
    <2>2. \A part : Older(part)' = Older(part)
      BY <1>7 DEF Older, Recorded
    <2> SUFFICES ASSUME NEW part \in PartsOf(job.op)
                 PROVE  /\ \A i \in 1..(n - 1) :
                             job.saved[i].part = part => job.saved[i].was = Older(part)
                        /\ ~IsSaved(part)' => art'[part] = Older(part)
      BY <1>1, <1>4, <1>5, <2>2 DEF Behind
    <2>3. /\ \A i \in 1..n : job.saved[i].part = part => job.saved[i].was = Older(part)
          /\ ~IsSaved(part) => art[part] = Older(part)
      BY <1>1, <1>5, <2>1 DEF Behind
    <2>4. ASSUME ~IsSaved(part)' PROVE art'[part] = Older(part)
      <3>1. CASE part = last.part
        BY <1>3, <1>4, <1>7, <2>3, <3>1
      <3>2. CASE part # last.part
        <4>1. \A i \in 1..n : i = n \/ i \in 1..(n - 1)
          BY <1>4
        <4>2. ~IsSaved(part)
          BY <1>3, <1>4, <1>5, <2>4, <3>2, <4>1 DEF IsSaved
        <4>3. art'[part] = art[part]
          BY <1>4, <1>6, <1>7, <3>2 DEF PartsOf, Part, Output
        <4>. QED
          BY <2>3, <4>2, <4>3
      <3>. QED
        BY <3>1, <3>2
    <2>5. 1..(n - 1) \subseteq 1..n
      BY <1>4
    <2>. QED
      BY <2>3, <2>4, <2>5
  <1>. QED
    BY <1>1, <1>7, <1>8, <1>9, InstallationSteps

\* An installation that is wholly withdrawn has left the older bundle.
LEMMA RolledBackKeepsOlder ==
  ASSUME IInv, RolledBack
  PROVE  OlderHeld'
  <1>1. job \in MakingJob /\ job.pc = "undo" /\ job.placed = {} /\ job.saved = <<>> /\ job' = Idle
        /\ UNCHANGED <<paper, art, torn, late>>
    BY KindOfJob DEF IInv, RolledBack, Leave
  <1>2. \A k : ~Installing(k)' /\ ~Writing(k)'
    BY <1>1, KindsApart DEF Installing, Writing
  <1>3. \A part : ~IsSaved(part)
    BY <1>1 DEF IsSaved
  <1> SUFFICES ASSUME NEW k \in Output, k \notin torn \cup late PROVE Kept(k)'
    BY <1>1, <1>2 DEF OlderHeld
  <1>4. CASE Installing(k)
    <2>1. Behind /\ job.op = k
      BY <1>4 DEF IInv, OlderHeld, Installing
    <2>2. Kept(k)
      BY <1>1, <1>3, <2>1 DEF Behind, Kept
    <2>. QED
      BY <1>1, <2>2, KeptStays, RecordedStays
  <1>5. CASE ~Installing(k)
    <2>1. Kept(k)
      BY <1>1, <1>5, UntouchedKept, KindsApart DEF Writing
    <2>. QED
      BY <1>1, <2>1, KeptStays, RecordedStays
  <1>. QED
    BY <1>4, <1>5

\* What is recorded as made is what is installed.
LEMMA RecordMadeKeepsOlder ==
  ASSUME IInv, RecordMade
  PROVE  OlderHeld'
  <1>1. job \in MakingJob /\ job' = Idle /\ art' = art /\ torn' = torn \ {job.op}
        /\ late' = late \ {job.op}
    BY RecordMadeSays DEF RecordMade, Leave
  <1>2. /\ job.op \in Output /\ paper' # None /\ paper # None
        /\ paper'.prov[job.op].is = art[job.op]
        /\ \A k \in Output : k # job.op => paper'.prov[k] = paper.prov[k]
        /\ job.op = "text" => art["figs"] = FiguresOf(art["text"])
    BY RecordMadeSays, RecordFields DEF Output
  <1>3. \A k : ~Installing(k)' /\ ~Writing(k)
    BY <1>1, KindsApart DEF Installing, Writing
  <1> SUFFICES ASSUME NEW k \in Output, k \notin torn' \cup late' PROVE Kept(k)'
    BY <1>3 DEF OlderHeld
  <1>4. CASE k = job.op
    <2>1. Recorded(k)' = art'[k]
      BY <1>1, <1>2, <1>4 DEF Recorded
    <2>2. Older(k)' = art'[k]
      BY <2>1 DEF Older, Output
    <2>3. k = "text" => Older("figs")' = art'["figs"]
      BY <1>1, <1>2, <1>4, <2>1 DEF Older, FiguresOf
    <2>. QED
      BY <2>2, <2>3 DEF Kept, PartsOf
  <1>5. CASE k # job.op
    <2>1. Kept(k)
      BY <1>1, <1>3, <1>5, UntouchedKept DEF Installing
    <2>2. Recorded(k)' = Recorded(k)
      BY <1>2, <1>5 DEF Recorded
    <2>3. \A part \in PartsOf(k) : Older(part)' = Older(part)
      BY <2>2 DEF PartsOf, Older, FiguresOf, Output
    <2>. QED
      BY <1>1, <2>1, <2>3 DEF Kept
  <1>. QED
    BY <1>4, <1>5

\* The answer is the job's until it is written down; the others stay.
LEMMA InstallAnswerKeepsOlder ==
  ASSUME IInv, InstallAnswer
  PROVE  OlderHeld'
  <1>1. job \in FinalizeJob /\ job.pc = "hash" /\ job' \in FinalizeJob /\ job'.pc = "write"
    BY InstallAnswerHolds
  <1>2. UNCHANGED <<paper, torn, late>> /\ art \in [Part -> Content]
        /\ \A part \in Part : part # "out" => art'[part] = art[part]
    BY DEF InstallAnswer, IInv, TypeOK
  <1> SUFFICES ASSUME NEW k \in Output, k \notin torn \cup late
               PROVE  (IF Installing(k) THEN Behind ELSE Writing(k) \/ Kept(k))'
    BY <1>2 DEF OlderHeld
  <1>3. ~Installing(k)'
    BY <1>1, KindsApart DEF Installing
  <1>4. CASE k = "out"
    BY <1>1, <1>3, <1>4 DEF Writing
  <1>5. CASE k # "out"
    <2>1. Kept(k)
      BY <1>1, UntouchedKept, KindsApart DEF Installing, Writing
    <2>2. \A part \in PartsOf(k) : art'[part] = art[part]
      BY <1>2, <1>5 DEF PartsOf, Part, Output
    <2>3. Kept(k)'
      BY <1>2, <2>1, <2>2, KeptStays, RecordedStays
    <2>. QED
      BY <1>3, <2>3
  <1>. QED
    BY <1>4, <1>5

\* The answer that is written down is the one that was installed.
LEMMA WriteAnswerKeepsOlder ==
  ASSUME IInv, WriteAnswer
  PROVE  OlderHeld'
  <1>1. job \in FinalizeJob /\ job.pc = "write" /\ job' \in FinalizeJob /\ job'.pc = "state"
        /\ art' = art /\ late' = late \ {"out"}
    BY StateHolds DEF WriteAnswer
  <1>2. /\ paper # None /\ paper' # None
        /\ paper'.prov["out"].is = [inp |-> runs[job.run].sent, run |-> job.run]
        /\ \A k \in Output : k # "out" => paper'.prov[k] = paper.prov[k]
    BY WriteAnswerSays, RecordFields
  <1>3. torn' = IF art["out"] = paper'.prov["out"].is THEN torn \ {"out"} ELSE torn
    BY DEF WriteAnswer
  <1>4. "out" \in torn \/ art["out"] = [inp |-> runs[job.run].sent, run |-> job.run]
    BY <1>1 DEF IInv, JobHolds, FinalizeHolds
  <1>5. \A k : ~Installing(k) /\ ~Installing(k)'
    BY <1>1, KindsApart DEF Installing
  <1> SUFFICES ASSUME NEW k \in Output, k \notin torn' \cup late' PROVE Kept(k)'
    BY <1>5 DEF OlderHeld
  <1>6. CASE k = "out"
    <2>1. art'["out"] = paper'.prov["out"].is
      BY <1>1, <1>2, <1>3, <1>4, <1>6
    <2>. QED
      BY <1>2, <1>6, <2>1 DEF Kept, PartsOf, Older, Recorded
  <1>7. CASE k # "out"
    <2>1. Kept(k)
      BY <1>1, <1>3, <1>5, <1>7, UntouchedKept DEF Writing
    <2>2. Recorded(k)' = Recorded(k)
      BY <1>2, <1>7 DEF Recorded
    <2>3. \A part \in PartsOf(k) : Older(part)' = Older(part)
      BY <1>7, <2>2 DEF PartsOf, Older, FiguresOf, Output
    <2>. QED
      BY <1>1, <2>1, <2>3 DEF Kept
  <1>. QED
    BY <1>6, <1>7

\* A foreign hand is known by the outputs it has touched.
LEMMA SpoilPartKeepsOlder ==
  ASSUME IInv, NEW bytes \in {Spoilt, None}, NEW spoilt \in Part, SpoilPart(spoilt, bytes)
  PROVE  OlderHeld'
  <1>1. UNCHANGED <<paper, job, late>> /\ art \in [Part -> Content]
        /\ \A part \in Part : part # spoilt => art'[part] = art[part]
        /\ torn \subseteq torn'
    BY DEF SpoilPart, IInv, TypeOK
  <1>2. \A k \in Output : k \notin torn' => spoilt \notin PartsOf(k)
    BY DEF SpoilPart, PartsOf, Part, Output
  <1>3. \A k : (Installing(k)' <=> Installing(k)) /\ (Writing(k)' <=> Writing(k))
    BY <1>1 DEF Installing, Writing
  <1>4. \A k \in Output : Recorded(k)' = Recorded(k)
    BY <1>1, RecordedStays
  <1>5. \A part : (Older(part)' = Older(part)) /\ (IsSaved(part)' <=> IsSaved(part))
    BY <1>1 DEF Older, Recorded, IsSaved
  <1> SUFFICES ASSUME NEW k \in Output, k \notin torn' \cup late'
               PROVE  (IF Installing(k) THEN Behind ELSE Writing(k) \/ Kept(k))'
    BY DEF OlderHeld
  <1>6. k \notin torn \cup late /\ \A part \in PartsOf(k) : art'[part] = art[part]
    BY <1>1, <1>2 DEF PartsOf, Part, Output
  <1>7. CASE Installing(k)
    <2>1. Behind /\ job.op = k
      BY <1>6, <1>7 DEF IInv, OlderHeld, Installing
    <2>2. Behind'
      BY <1>1, <1>5, <1>6, <2>1 DEF Behind
    <2>. QED
      BY <1>3, <1>7, <2>2
  <1>8. CASE Writing(k)
    BY <1>1, <1>3, <1>8, KindsApart DEF Installing, Writing
  <1>9. CASE ~Installing(k) /\ ~Writing(k)
    BY <1>3, <1>4, <1>6, <1>9, UntouchedKept, KeptStays
  <1>. QED
    BY <1>7, <1>8, <1>9

\* A step that leaves the artifacts, the records and the job alone.
LEMMA BesideKeepsOlder ==
  ASSUME IInv, UNCHANGED <<paper, art, job, late>>, torn \subseteq torn'
  PROVE  OlderHeld'
  <1>1. \A k : (Installing(k)' <=> Installing(k)) /\ (Writing(k)' <=> Writing(k))
    BY DEF Installing, Writing
  <1>2. \A part : (Older(part)' = Older(part)) /\ (IsSaved(part)' <=> IsSaved(part))
    BY DEF Older, Recorded, IsSaved
  <1>3. \A k \in Output : Kept(k) => Kept(k)'
    BY <1>2 DEF Kept
  <1>4. Behind => Behind'
    BY <1>2 DEF Behind
  <1>. QED
    BY <1>1, <1>3, <1>4 DEF IInv, OlderHeld

\* The older bundle is somewhere after every step.
LEMMA OlderStaysHeld ==
  ASSUME IInv, Next
  PROVE  OlderHeld'
  <1>1. ASSUME UNCHANGED <<paper, art, torn, late>>,
               job \notin MakingJob \/ job.pc = "make",
               job \notin FinalizeJob \/ job.pc # "write",
               job' \notin MakingJob \/ job'.pc = "make"
        PROVE  OlderHeld'
    <2>1. \A k \in Output : ~Installing(k) /\ ~Writing(k) /\ ~Installing(k)'
      BY <1>1 DEF Installing, Writing
    <2>. QED
      BY <1>1, <2>1, NothingMoved, RecordedStays
  <1>2. ASSUME UNCHANGED <<paper, art>>, job' = Idle,
               torn \subseteq torn', late \subseteq late',
               job \in MakingJob => job.pc = "make" \/ job.op \in torn' \cup late',
               job \in FinalizeJob => job.pc # "write" \/ "out" \in torn' \cup late'
        PROVE  OlderHeld'
    <2>1. \A k \in Output : ~Installing(k)'
      BY <1>2, KindsApart DEF Installing
    <2>2. \A k \in Output : k \notin torn' \cup late' => ~Installing(k) /\ ~Writing(k)
      BY <1>2 DEF Installing, Writing
    <2>. QED
      BY <1>2, <2>1, <2>2, NothingMoved, RecordedStays
  <1>3. job = Idle \/ job \in MakingJob \/ job \in ImportJob \/ job \in SnapshotJob
        \/ job \in FinalizeJob
    BY KindOfJob DEF IInv
  <1>4. ASSUME Making PROVE OlderHeld'
    <2>1. ASSUME NEW op \in Ops, StartMaking(op) PROVE OlderHeld'
      BY <1>1, <2>1, StartMakingHolds, KindsApart DEF StartMaking
    <2>2. CASE MakeFails
      BY <1>2, <2>2, KindsApart DEF MakeFails, Leave
    <2>3. CASE UndoFails \/ RecordFails
      <3>1. job \in MakingJob
        BY <2>3, KindOfJob DEF IInv, UndoFails, RecordFails
      <3>. QED
        BY <1>2, <2>3, <3>1, KindsApart DEF UndoFails, RecordFails, Leave
    <2>4. CASE InstallFails
      <3>1. /\ job \in MakingJob /\ job.pc = "install"
            /\ job' \in MakingJob /\ job'.op = job.op /\ job'.pc = "undo"
            /\ job'.saved = job.saved /\ job'.placed = job.placed
        BY <2>4, InstallFailsHolds
      <3>2. UNCHANGED <<paper, art, torn, late>>
        BY <2>4 DEF InstallFails
      <3>3. ASSUME job.op \notin torn \cup late PROVE Behind'
        <4>1. Behind
          BY <3>1, <3>3, KindsApart DEF IInv, OlderHeld, Installing, Output
        <4>2. \A part : (Older(part)' = Older(part)) /\ (IsSaved(part)' <=> IsSaved(part))
          BY <3>1, <3>2 DEF Older, Recorded, IsSaved
        <4>. QED
          BY <3>1, <3>2, <4>1, <4>2 DEF Behind
      <3>. QED
        BY <3>1, <3>2, <3>3, InstallationSteps
    <2>. QED
      BY <1>4, <2>1, <2>2, <2>3, <2>4, MakeKeepsOlder, BackUpKeepsOlder, PlaceKeepsOlder,
         WithdrawKeepsOlder, PutBackKeepsOlder, RolledBackKeepsOlder, RecordMadeKeepsOlder
         DEF Making
  <1>5. ASSUME Importing PROVE OlderHeld'
    <2>1. CASE (\E e \in Export : Preview(e)) \/ \E p \in plans : Forget(p)
      BY <2>1, BesideKeepsOlder DEF Preview, Forget
    <2>2. ASSUME NEW p \in plans, Refresh(p) PROVE OlderHeld'
      <3>1. \A l \in Output : Recorded(l)' = Recorded(l)
        BY <2>2, RefreshSays, RecordedStays
      <3>. QED
        BY <2>2, <3>1, NothingMoved, KindsApart DEF Refresh, Installing, Writing
    <2>3. ASSUME NEW p \in plans, StartImport(p) PROVE OlderHeld'
      BY <1>1, <2>3, StartImportHolds, KindsApart DEF StartImport
    <2>4. CASE CopyFails \/ ImportFails
      <3>1. job \in ImportJob
        BY <2>4, KindOfJob DEF IInv, CopyFails, ImportFails
      <3>. QED
        BY <1>2, <2>4, <3>1, KindsApart DEF CopyFails, ImportFails, Leave
    <2>5. CASE Copied
      <3>1. job \in ImportJob
        BY <2>5, KindOfJob DEF IInv, Copied
      <3>. QED
        BY <1>1, <2>5, <3>1, CopiedHolds, KindsApart DEF Copied
    <2>6. CASE CreateRecord
      <3>1. job \in ImportJob /\ paper = None /\ paper' = NewRecord(job.plan.meta)
            /\ job.plan.meta \in Export
        BY <2>6, ImportSays DEF Plan
      <3>2. \A l \in Output : Recorded(l)' = Recorded(l)
        BY <3>1, NewRecordSays DEF Recorded
      <3>3. job' \in ImportJob
        BY <2>6, CreateRecordHolds
      <3>. QED
        BY <2>6, <3>1, <3>2, <3>3, NothingMoved, KindsApart DEF CreateRecord, Installing, Writing
    <2>7. CASE InstallSource
      <3>1. job \in ImportJob /\ job' \in ImportJob /\ job.plan.att \in Source
        BY <2>7, InstallSourceHolds, KindOfJob DEF IInv, InstallSource
      <3>2. \A k \in Output : k \notin torn' \cup late' => k \notin torn \cup late
        BY <2>7, <3>1, Kinds DEF InstallSource
      <3>. QED
        BY <2>7, <3>1, <3>2, NothingMoved, RecordedStays, KindsApart
           DEF InstallSource, Installing, Writing
    <2>8. CASE RecordSource
      <3>1. job \in ImportJob /\ \A l \in Output : Recorded(l)' = Recorded(l)
        BY <2>8, ImportSays, RecordedStays
      <3>. QED
        BY <2>8, <3>1, NothingMoved, KindsApart DEF RecordSource, Leave, Installing, Writing
    <2>. QED
      BY <1>5, <2>1, <2>2, <2>3, <2>4, <2>5, <2>6, <2>7, <2>8 DEF Importing
  <1>6. ASSUME Answering PROVE OlderHeld'
    <2>1. ASSUME NEW r \in Run, StartSnapshot(r) \/ StartFinalize(r) PROVE OlderHeld'
      BY <1>1, <2>1, StartSnapshotHolds, StartFinalizeHolds, KindsApart
         DEF StartSnapshot, StartFinalize
    <2>2. CASE HashInput
      <3>1. job \in SnapshotJob
        BY <2>2, KindOfJob DEF IInv, HashInput
      <3>. QED
        BY <1>1, <2>2, <3>1, HashInputHolds, KindsApart DEF HashInput
    <2>3. CASE CopyInput \/ SnapshotFails
      <3>1. job \in SnapshotJob
        BY <2>3, KindOfJob DEF IInv, CopyInput, SnapshotFails
      <3>. QED
        BY <1>2, <2>3, <3>1, KindsApart DEF CopyInput, SnapshotFails, Leave
    <2>4. CASE SkipAnswer
      BY <1>1, <2>4, StateHolds, KindsApart DEF SkipAnswer
    <2>5. CASE AnswerFails \/ WriteAnswerFails \/ SettleRun
      <3>1. job \in FinalizeJob
        BY <2>5, KindOfJob DEF IInv, AnswerFails, WriteAnswerFails, SettleRun
      <3>. QED
        BY <1>2, <2>5, <3>1, KindsApart DEF AnswerFails, WriteAnswerFails, SettleRun, Leave
    <2>. QED
      BY <1>6, <2>1, <2>2, <2>3, <2>4, <2>5, InstallAnswerKeepsOlder, WriteAnswerKeepsOlder
         DEF Answering
  <1>7. ASSUME Outside PROVE OlderHeld'
    <2>1. CASE Crash
      <3>1. job \in MakingJob => job.pc \in {"make", "install", "undo"} /\ job.op # "finalize"
        BY KindsApart
      <3>2. job \in FinalizeJob => job.op = "finalize"
        BY KindsApart
      <3>. QED
        BY <1>2, <2>1, <3>1, <3>2 DEF Crash, Leave
    <2>2. ASSUME NEW bytes \in {Spoilt, None}, NEW s \in Source, SpoilSource(s, bytes)
          PROVE  OlderHeld'
      BY <2>2, BesideKeepsOlder DEF SpoilSource
    <2>. QED
      BY <1>7, <2>1, <2>2, SpoilPartKeepsOlder DEF Outside
  <1>. QED
    BY <1>4, <1>5, <1>6, <1>7 DEF Next

-----------------------------------------------------------------------------
(* Theorems *)

\* The inductive invariant is kept by every step.
LEMMA NextHolds == IInv /\ [Next]_vars => IInv'
  <1>1. ASSUME IInv, Next PROVE IInv'
    BY <1>1, TypesStay, BytesStayTrue, PaperChanges, RunChanges, PlanChanges, JobChanges,
       CutStaysResumable, OlderStaysHeld, SourceStaysHeld DEF IInv
  <1>2. ASSUME IInv, UNCHANGED vars PROVE IInv'
    <2>1. UNCHANGED <<paper, file, art, runs, plans, job, torn, late, cut, upsets>>
      BY <1>2 DEF vars
    <2>2. TypeOK' /\ BytesTrue' /\ ProvenanceTrue' /\ RequestsTrue' /\ AdditionsExpectNothing'
      BY <1>2, <2>1
         DEF IInv, TypeOK, BytesTrue, ProvenanceTrue, RequestsTrue, AdditionsExpectNothing
    <2>3. JobHolds' /\ OlderHeld'
      BY <1>2, <2>1, BesideHolds, BesideKeepsOlder
    <2>4. Resumable' /\ SourceHeld'
      BY <1>2, <2>1 DEF IInv, Resumable, Accepts, SourceOf, SourceHeld
    <2>. QED
      BY <2>2, <2>3, <2>4 DEF IInv
  <1>. QED
    BY <1>1, <1>2

\* What jobs count on, where the older bundle is and what outputs were made of.
THEOREM Invariance == Spec => []IInv
  BY InitHolds, NextHolds, PTL DEF Spec

\* Types, for every instance.
THEOREM TypesOK == Spec => []TypeOK
  <1>1. IInv => TypeOK
    BY DEF IInv
  <1>. QED
    BY <1>1, Invariance, PTL

\* An import that was cut short can be applied again, for every number of
\* previews, crashes and exports.
THEOREM CutImportsResumable == Spec => []Resumable
  <1>1. IInv => Resumable
    BY DEF IInv
  <1>. QED
    BY <1>1, Invariance, PTL

\* A failed rerun has put back the older bundle, figures included, for every
\* paper, converter and choice of faults.
THEOREM OlderBundlesKept == Spec => []OlderKept
  <1>1. IInv => OlderKept
    <2> SUFFICES ASSUME IInv, job = Idle, NEW k \in Output, k \notin torn \cup late
                 PROVE  /\ art[k] = IF paper = None THEN None ELSE paper.prov[k].is
                        /\ k = "text" => art["figs"] = FiguresOf(art["text"])
      BY DEF OlderKept
    <2>1. Kept(k)
      BY UntouchedKept, WhoWorks DEF IInv
    <2>2. art[k] = Recorded(k) /\ (k = "text" => art["figs"] = FiguresOf(Recorded("text")))
      BY <2>1 DEF Kept, PartsOf, Older, Output
    <2>. QED
      BY <2>2 DEF Recorded
  <1>. QED
    BY <1>1, Invariance, PTL

\* What the selection of pending work leaves out was made of the bytes the
\* record names, in every instance.
THEOREM DoneAlwaysTrue == Spec => []DoneIsTrue
  <1>1. IInv => DoneIsTrue
    <2> SUFFICES ASSUME IInv PROVE DoneIsTrue
      OBVIOUS
    <2>1. ASSUME NEW k \in {"text", "pages"}, Done(k)
          PROVE  /\ paper # None /\ art[k] = paper.prov[k].is /\ paper.prov[k].is \in Made
                 /\ paper.prov[k].is.src = paper.src
      BY <2>1 DEF IInv, ProvenanceTrue, Done, Fresh, Intact, CurrentInput
    <2>2. ASSUME Done("out")
          PROVE  /\ art["out"] = paper.prov["out"].is
                 /\ art["out"].inp = RecipeSource(paper)
      BY <2>2 DEF IInv, ProvenanceTrue, Done, Fresh, Intact, CurrentInput
    <2>3. ASSUME Done("out"), Done("text"), RecipeInput = "transcription"
          PROVE  art["out"].inp.src = paper.src
      BY <2>1, <2>2, <2>3 DEF RecipeSource
    <2>. QED
      BY <2>1, <2>2, <2>3 DEF DoneIsTrue
  <1>. QED
    BY <1>1, Invariance, PTL

\* What a job records as made is fresh at that moment.
LEMMA RecordedFreshly ==
  ASSUME IInv, Next, NEW k \in Output, paper # None, paper'.prov[k] # paper.prov[k],
         ~(k = "out" /\ "text" \in torn \cup late)
  PROVE  Fresh(paper', k)
  <1>1. CASE RecordMade
    <2>1. k = job.op /\ k \in {"text", "pages"} /\ paper'.prov[k].of = paper'.src
          /\ paper'.src \in Source
      BY <1>1, RecordMadeSays
    <2>. QED
      BY <2>1, NoneIsNoContent DEF Fresh, CurrentInput
  <1>2. CASE WriteAnswer
    <2>1. k = "out" /\ paper'.src = paper.src /\ paper'.prov["text"] = paper.prov["text"]
          /\ paper'.prov["out"].of = runs[job.run].inp /\ runs[job.run].inp \in Readable
          /\ job \in FinalizeJob /\ job.pc = "write"
      BY <1>2, WriteAnswerSays DEF WriteAnswer, Output
    <2>2. runs[job.run].inp = RecipeSource(paper) /\ runs[job.run].inp # None
      BY <2>1, Kinds DEF IInv, JobHolds, FinalizeHolds
    <2>3. RecipeSource(paper') = RecipeSource(paper)
      BY <2>1 DEF RecipeSource
    <2>. QED
      BY <2>1, <2>2, <2>3 DEF Fresh, CurrentInput
  <1>3. ~CreateRecord /\ ~RecordSource /\ ~(\E p \in plans : Refresh(p)) /\ paper' # paper
    BY ImportSays, RefreshSays
  <1>. QED
    BY <1>1, <1>2, <1>3, PaperSteps

\* Neither the time a job takes nor an import before or after it lets it record
\* something out of date, in every instance.
THEOREM RecordsFresh == Spec => RecordedIsFresh
  <1>1. IInv /\ [Next]_vars =>
          [\A k \in Output :
             paper # None /\ paper'.prov[k] # paper.prov[k]
               /\ ~(k = "out" /\ "text" \in torn \cup late) => Fresh(paper', k)]_vars
    BY RecordedFreshly
  <1>. QED
    BY <1>1, Invariance, PTL DEF Spec, RecordedIsFresh

\* A source is replaced only while it is the one the preview showed.
LEMMA ReplacedAsPreviewed ==
  ASSUME IInv, Next, paper' # paper, paper # None, paper'.src # paper.src
  PROVE  paper.src = job.plan.expected
  <1>1. CASE RecordSource
    <2>1. job \in ImportJob /\ job.plan \in Plan /\ paper'.src = job.plan.att
      BY <1>1, ImportSays
    <2>2. Accepts(job.plan, paper) /\ job.plan.action # "refresh"
          /\ (job.plan.action = "addition" => job.plan.expected = None)
      BY <2>1 DEF IInv, JobHolds, ImportHolds
    <2>. QED
      BY <2>1, <2>2 DEF Accepts, SourceOf, Plan
  <1>2. ~RecordMade /\ ~WriteAnswer /\ ~CreateRecord /\ ~(\E p \in plans : Refresh(p))
    BY RecordMadeSays, WriteAnswerSays, ImportSays, RefreshSays
  <1>. QED
    BY <1>1, <1>2, PaperSteps

\* However many previews are kept and applied meanwhile, in every instance.
THEOREM ReplacedOnlyAsPreviewed == Spec => PreviewedOnly
  <1>1. IInv /\ [Next]_vars =>
          [paper' # paper /\ paper # None /\ paper'.src # paper.src =>
             paper.src = job.plan.expected]_vars
    BY ReplacedAsPreviewed
  <1>. QED
    BY <1>1, Invariance, PTL DEF Spec, PreviewedOnly

-----------------------------------------------------------------------------
(* What a validation tells *)

\* Where others may act, no job works on an output.
LEMMA NobodyWorks ==
  ASSUME IInv, Suspended, NEW k \in Output, k \notin torn \cup late
  PROVE  Kept(k)
  BY UntouchedKept DEF Suspended, Installing, Writing

\* An error of a validation, in every instance, is about what a crash or a
\* foreign hand had last, or about an output whose job failed after it had
\* installed it.
THEOREM ErrorsTrusted == Spec => []ValidationTrusted
  <1>1. IInv => ValidationTrusted
    <2> SUFFICES ASSUME IInv, Suspended, paper # None, NEW category \in Category,
                        NEW p \in Problems(category), p.what # "stale"
                 PROVE  p.about \in torn \cup late
      BY DEF ValidationTrusted
    <2>1. ASSUME NEW k \in Output, k \notin torn \cup late PROVE art[k] = paper.prov[k].is
      <3>1. Kept(k)
        BY <2>1, NobodyWorks
      <3>. QED
        BY <3>1 DEF Kept, PartsOf, Older, Recorded, Output
    <2>2. ASSUME NEW k \in Output, NEW q \in Staleness(k) PROVE q.what = "stale"
      BY <2>2 DEF Staleness, Problem
    <2>3. ASSUME NEW k \in Output, paper.prov[k].is # None, NEW q \in Damage(k)
          PROVE  q.about = k /\ art[k] # paper.prov[k].is
      BY <2>3 DEF Damage, Problem
    <2>4. ASSUME NEW k \in Output, NEW q \in ArtifactProblems(k), q.what # "stale"
          PROVE  q.about = k /\ art[k] # paper.prov[k].is
      BY <2>2, <2>3, <2>4 DEF ArtifactProblems, Problem
    <2>5. ASSUME NEW q \in RecipeProblems \cup FolderProblems, q.what # "stale"
          PROVE  q.about = "out" /\ art["out"] # paper.prov["out"].is
      BY <2>2, <2>3, <2>5 DEF RecipeProblems, FolderProblems, Problem, Output
    <2>6. ASSUME NEW q \in SourceProblems PROVE q.about \in torn
      BY <2>6 DEF SourceProblems, Problem, IInv, SourceHeld
    <2>. QED
      BY <2>1, <2>4, <2>5, <2>6 DEF Problems, Category, Output
  <1>. QED
    BY <1>1, Invariance, PTL

\* If a validation finds nothing, every recorded output is there and made of
\* the bytes of the current source, in every instance.
THEOREM CleanReportsTrue == Spec => []CleanIsTrue
  <1>1. IInv => CleanIsTrue
    <2> SUFFICES ASSUME IInv, paper # None, Report = [category \in Category |-> "ok"],
                        NEW k \in Output, paper.prov[k].is # None
                 PROVE  FromSource(art[k])
      BY DEF CleanIsTrue
    <2>1. \A category \in Category : Problems(category) = {}
      <3>1. \A category \in Category : Status(category) = "ok"
        BY DEF Report
      <3>. QED
        BY <3>1 DEF Status
    <2>2. ASSUME NEW l \in {"text", "pages"}, paper.prov[l].is # None
          PROVE  /\ art[l] = paper.prov[l].is /\ art[l] \in Made /\ art[l].src = paper.src
      <3>1. ArtifactProblems(l) = {}
        BY <2>1, <2>2 DEF Problems, Category
      <3>2. Damage(l) = {} /\ Staleness(l) = {}
        BY <2>2, <3>1 DEF ArtifactProblems
      <3>3. art[l] = paper.prov[l].is
        BY <3>2 DEF Damage
      <3>4. Fresh(paper, l)
        BY <3>2 DEF Staleness
      <3>. QED
        BY <2>2, <3>3, <3>4 DEF IInv, ProvenanceTrue, Fresh, CurrentInput
    <2>3. CASE k \in {"text", "pages"}
      BY <2>2, <2>3 DEF FromSource
    <2>4. CASE k = "out"
      <3>1. RecipeProblems = {}
        BY <2>1 DEF Problems, Category
      <3>2. Damage("out") = {} /\ Staleness("out") = {}
        BY <2>4, <3>1 DEF RecipeProblems
      <3>3. art["out"] = paper.prov["out"].is
        BY <3>2 DEF Damage
      <3>4. Fresh(paper, "out")
        BY <3>2 DEF Staleness
      <3>5. art["out"] \in Answer /\ art["out"].inp = RecipeSource(paper)
            /\ RecipeSource(paper) # None
        BY <2>4, <3>3, <3>4 DEF IInv, ProvenanceTrue, Fresh, CurrentInput
      <3>6. CASE RecipeInput = "pdf"
        <4>1. art["out"].inp = paper.src /\ paper.src \in Source
          BY <3>5, <3>6, RecordFields DEF IInv, TypeOK, RecipeSource
        <4>. QED
          BY <2>4, <3>5, <4>1, Kinds DEF FromSource
      <3>7. CASE RecipeInput = "transcription"
        <4>1. art["out"].inp = paper.prov["text"].is /\ paper.prov["text"].is # None
          BY <3>5, <3>7 DEF RecipeSource
        <4>2. paper.prov["text"].is \in Made /\ paper.prov["text"].is.src = paper.src
          BY <2>2, <4>1
        <4>. QED
          BY <2>4, <3>5, <4>1, <4>2 DEF FromSource
      <3>. QED
        BY <3>6, <3>7, RecipesDeclared
    <2>. QED
      BY <2>3, <2>4 DEF Output
  <1>. QED
    BY <1>1, Invariance, PTL
=============================================================================
