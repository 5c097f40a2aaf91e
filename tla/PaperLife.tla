----------------------------- MODULE PaperLife -----------------------------
(***************************************************************************)
(* The life of one paper: its paper.json and artifacts (library/storage.py *)
(* and library/model.py), the jobs that change them (conversion and page   *)
(* rendering of services/processing.py, imports of services/import_ops.py, *)
(* the snapshot and finalize jobs of services/recipe_batches.py), crashes  *)
(* of the process and files changed by others.                             *)
(*                                                                         *)
(* A hash is the content it is the hash of.  The lane (JobQueue) leaves    *)
(* one job at a time on the paper; it keeps the event loop but while it    *)
(* makes, copies or hashes, so other jobs of the process act only then.    *)
(* A crash and a foreign hand may fall between any two file operations.    *)
(***************************************************************************)
EXTENDS Naturals, Sequences, FiniteSets, SequencesExt

CONSTANTS
  Source,        \* PDF contents
  Version,       \* what a converter or renderer may make of one PDF
  Illustrated,   \* versions whose transcription has figures
  Export,        \* Zotero exports, each with metadata for the paper
  AttachmentOf,  \* the PDF of an export
  Run,           \* recipe runs with a request for this paper
  Overwrite,     \* those that replace a fresh output
  RecipeInput,   \* "transcription" or "pdf"
  None,
  Spoilt,        \* bytes put in place of a file by somebody else
  Ops,           \* what users have made in this instance: "text", "pages"
  Faults,        \* steps that may raise OSError in this instance, and "spoil"
  MaxPlans,      \* bounds: previews kept, crashes and foreign changes
  MaxUpsets

ASSUME VersionsIllustrated == Illustrated \subseteq Version

ASSUME ExportsAttach == AttachmentOf \in [Export -> Source]

ASSUME OperationsKnown == Ops \subseteq {"text", "pages"}

ASSUME RecipesDeclared == Overwrite \subseteq Run /\ RecipeInput \in {"transcription", "pdf"}

ASSUME NoneIsNoContent == None \notin Source \cup Export /\ Spoilt \notin Source \cup {None}

ASSUME BoundsNatural == MaxPlans \in Nat /\ MaxUpsets \in Nat

VARIABLES
  paper,    \* paper.json, None before the first import
  file,     \* source/<hash>.pdf: the bytes under each name
  art,      \* transcription.md, figures/, pages/ and the recipe's output
  runs,     \* the request of each run for this paper
  plans,    \* previews somebody may still apply, or apply again by a retry
  job,      \* the job that holds the lane, Idle
  torn,     \* history: outputs and sources last touched by a crash or a foreign hand
  late,     \* history: outputs whose last job failed after it had installed them
  cut,      \* history: the plan whose application a crash or failure cut short
  upsets    \* crashes and foreign changes so far

vars == <<paper, file, art, runs, plans, job, torn, late, cut, upsets>>

Output == {"text", "pages", "out"}

Part == Output \cup {"figs"}

\* What a converter or renderer makes of bytes, and a recipe's answer to an input.
Made == [src : Source \cup {Spoilt}, ver : Version]

Answer == [inp : Source \cup Made \cup {Spoilt}, run : Run]

Content == Source \cup Made \cup Answer \cup {Spoilt, None}

\* PaperRecord: where its metadata is from, the source, and for each output
\* the hash of what it was made of and its own.
PaperRecord == [meta : Export, src : Source \cup {None},
                prov : [Output -> [of : Content, is : Content]]]

NewRecord(e) ==
  [meta |-> e, src |-> None, prov |-> [k \in Output |-> [of |-> None, is |-> None]]]

Plan == [action : {"addition", "refresh", "source_replacement"},
         meta : Export, att : Source, expected : Source \cup {None}]

Request == [phase : {"new", "ready", "done"}, inp : Content, sent : Content]

\* Nothing is of two kinds: contents, their absence, records and outputs' names.
ASSUME KindsDiffer ==
  /\ None \notin Made \cup Answer \cup PaperRecord
  /\ Spoilt \notin Made \cup Answer
  /\ Source \cap (Made \cup Output) = {}

Idle == [op |-> "none", pc |-> "idle"]

SourceOf(record) == IF record = None THEN None ELSE record.src

\* Where a job has suspended itself, so that others may act.
Suspended == job.pc \in {"idle", "make", "copy", "hash"}

-----------------------------------------------------------------------------
(* Freshness: what the record says by itself, and with the bytes on disk *)

\* What a recipe would work on, as the record knows it.
RecipeSource(p) == IF RecipeInput = "pdf" THEN p.src ELSE p.prov["text"].is

CurrentInput(p, k) == IF k = "out" THEN RecipeSource(p) ELSE p.src

\* Mutant: an output is fresh for ever.
FreshOnceMade(p, k) == p.prov[k].of # None

\* conversion_is_fresh, page_render_is_fresh, recipe_is_fresh.
Fresh(p, k) == CurrentInput(p, k) # None /\ p.prov[k].of = CurrentInput(p, k)

\* The bytes on disk have the recorded hash.
Intact(k) == paper.prov[k].is # None /\ art[k] = paper.prov[k].is

\* The selection of pending work leaves this output out.
Done(k) == paper # None /\ Fresh(paper, k) /\ Intact(k)

\* The bytes recipes read: the transcription, or the source the record p names.
InputBytes(p) ==
  CASE RecipeInput = "transcription" -> art["text"]
    [] p.src = None -> None
    [] OTHER -> file[p.src]

\* Figures belong to a transcription that has some.
FiguresOf(text) ==
  IF text \in Made /\ text.ver \in Illustrated THEN text ELSE None

\* The parts of a staged bundle in the order in which they are installed.
Parts(op) == IF op = "text" THEN <<"text", "figs">> ELSE <<op>>

Staged(made, part) == IF part = "figs" THEN FiguresOf(made) ELSE made

-----------------------------------------------------------------------------
(* Conversion and page rendering *)

Init ==
  /\ paper = None
  /\ file = [s \in Source |-> None]
  /\ art = [k \in Part |-> None]
  /\ runs = [r \in Run |-> [phase |-> "new", inp |-> None, sent |-> None]]
  /\ plans = {} /\ job = Idle
  /\ torn = {} /\ late = {} /\ cut = None
  /\ upsets = 0

Leave == job' = Idle

\* Mutant: the copy is not hashed before it is used.
StartUnhashed(op) ==
  /\ job = Idle
  /\ paper # None /\ paper.src # None
  /\ file[paper.src] # None
  /\ job' = [op |-> op, pc |-> "make", src |-> file[paper.src], left |-> Parts(op),
             made |-> None, saved |-> <<>>, placed |-> {}]
  /\ UNCHANGED <<paper, file, art, runs, plans, torn, late, cut, upsets>>

\* The worker has copied the PDF and found the hash of paper.json; anything
\* else ends the job with nothing changed but its recorded attempt.
StartMaking(op) ==
  /\ job = Idle
  /\ paper # None /\ paper.src # None
  /\ file[paper.src] = paper.src
  /\ job' = [op |-> op, pc |-> "make", src |-> file[paper.src], left |-> Parts(op),
             made |-> None, saved |-> <<>>, placed |-> {}]
  /\ UNCHANGED <<paper, file, art, runs, plans, torn, late, cut, upsets>>

\* The child has left a bundle in the staging directory and nobody cancelled:
\* begin_commit.
Make(ver) ==
  /\ job.pc = "make"
  /\ job' = [job EXCEPT !.pc = "install", !.made = [src |-> job.src, ver |-> ver]]
  /\ UNCHANGED <<paper, file, art, runs, plans, torn, late, cut, upsets>>

\* Failure, timeout or cancellation of the child: nothing was installed.
MakeFails ==
  /\ job.pc = "make"
  /\ Leave
  /\ UNCHANGED <<paper, file, art, runs, plans, torn, late, cut, upsets>>

\* Mutant: the older part is copied to the backup and stays.
BackUpByCopy ==
  /\ job.pc = "install" /\ job.left # <<>>
  /\ LET part == Head(job.left) IN
       /\ art[part] # None
       /\ job' = [job EXCEPT !.saved = Append(@, [part |-> part, was |-> art[part]])]
  /\ UNCHANGED <<paper, file, art, runs, plans, torn, late, cut, upsets>>

\* os.replace(destination, prior)
BackUp ==
  /\ job.pc = "install" /\ job.left # <<>>
  /\ LET part == Head(job.left) IN
       /\ art[part] # None
       /\ job' = [job EXCEPT !.saved = Append(@, [part |-> part, was |-> art[part]])]
       /\ art' = [art EXCEPT ![part] = None]
  /\ UNCHANGED <<paper, file, runs, plans, torn, late, cut, upsets>>

\* os.replace(source, destination), if the bundle has such a part.
Place ==
  /\ job.pc = "install" /\ job.left # <<>>
  /\ LET part == Head(job.left)
         new == Staged(job.made, part) IN
       /\ art[part] = None
       /\ art' = [art EXCEPT ![part] = new]
       /\ job' = [job EXCEPT !.left = Tail(@),
                             !.placed = IF new = None THEN @ ELSE @ \cup {part}]
  /\ UNCHANGED <<paper, file, runs, plans, torn, late, cut, upsets>>

InstallFails ==
  /\ "install" \in Faults
  /\ job.pc = "install" /\ job.left # <<>>
  /\ job' = [job EXCEPT !.pc = "undo"]
  /\ UNCHANGED <<paper, file, art, runs, plans, torn, late, cut, upsets>>

\* The rollback: first what was installed goes, then what was there comes back.
Withdraw ==
  /\ job.pc = "undo" /\ job.placed # {}
  /\ art' = [k \in Part |-> IF k \in job.placed THEN None ELSE art[k]]
  /\ job' = [job EXCEPT !.placed = {}]
  /\ UNCHANGED <<paper, file, runs, plans, torn, late, cut, upsets>>

\* Mutant: only the part whose installation failed comes back.
PutBackLast ==
  /\ job.pc = "undo" /\ job.placed = {} /\ job.saved # <<>>
  /\ LET prior == Last(job.saved) IN
       art' = [art EXCEPT ![prior.part] = prior.was]
  /\ job' = [job EXCEPT !.saved = <<>>]
  /\ UNCHANGED <<paper, file, runs, plans, torn, late, cut, upsets>>

PutBack ==
  /\ job.pc = "undo" /\ job.placed = {} /\ job.saved # <<>>
  /\ LET prior == Last(job.saved) IN
       art' = [art EXCEPT ![prior.part] = prior.was]
  /\ job' = [job EXCEPT !.saved = Front(@)]
  /\ UNCHANGED <<paper, file, runs, plans, torn, late, cut, upsets>>

RolledBack ==
  /\ job.pc = "undo" /\ job.placed = {} /\ job.saved = <<>>
  /\ Leave
  /\ UNCHANGED <<paper, file, art, runs, plans, torn, late, cut, upsets>>

\* The rollback raises as well: the backup is deleted with its directory.
UndoFails ==
  /\ "undo" \in Faults
  /\ job.pc = "undo"
  /\ torn' = torn \cup {job.op}
  /\ Leave
  /\ UNCHANGED <<paper, file, art, runs, plans, late, cut, upsets>>

\* Every installed file has the hash it was staged with.
Validated ==
  \A i \in DOMAIN Parts(job.op) : art[Parts(job.op)[i]] = Staged(job.made, Parts(job.op)[i])

\* validate_completion, then record_terminal: the provenance of what is installed.
RecordMade ==
  /\ job.pc = "install" /\ job.left = <<>>
  /\ Validated
  /\ paper' = [paper EXCEPT !.prov[job.op] = [of |-> job.src, is |-> art[job.op]]]
  /\ torn' = torn \ {job.op}
  /\ late' = late \ {job.op}
  /\ Leave
  /\ UNCHANGED <<file, art, runs, plans, cut, upsets>>

\* The validation or the write of paper.json raises: the job has failed, but
\* its bundle stays.
RecordFails ==
  /\ job.pc = "install" /\ job.left = <<>>
  /\ "record" \in Faults \/ ~Validated
  /\ late' = late \cup {job.op}
  /\ Leave
  /\ UNCHANGED <<paper, file, art, runs, plans, torn, cut, upsets>>

-----------------------------------------------------------------------------
(* Imports *)

\* build_import_plan: what the paper is at this moment decides the action.
Preview(e) ==
  /\ Suspended
  /\ Cardinality(plans) < MaxPlans
  /\ LET here == SourceOf(paper)
         action == CASE paper = None -> "addition"
                     [] here = AttachmentOf[e] -> "refresh"
                     [] OTHER -> "source_replacement" IN
       plans' = plans \cup {[action |-> action, meta |-> e,
                            att |-> AttachmentOf[e], expected |-> here]}
  /\ UNCHANGED <<paper, file, art, runs, job, torn, late, cut, upsets>>

Forget(p) ==
  /\ plans' = plans \ {p}
  /\ UNCHANGED <<paper, file, art, runs, job, torn, late, cut, upsets>>

\* Mutants: an addition wants no record at all, and a replacement replaces
\* whatever is there.
AcceptsNewPaper(p, record) ==
  CASE p.action = "addition" -> record = None
    [] p.action = "source_replacement" -> record # None /\ record.src \in {p.expected, p.att}
    [] OTHER -> record # None /\ record.src = p.expected

AcceptsStale(p, record) ==
  CASE p.action = "addition" -> SourceOf(record) \in {None, p.att}
    [] p.action = "source_replacement" -> record # None
    [] OTHER -> record # None /\ record.src = p.expected

\* The checks an import makes in its lane before it copies anything.
Accepts(p, record) ==
  CASE p.action = "addition" -> SourceOf(record) \in {None, p.att}
    [] p.action = "source_replacement" -> record # None /\ record.src \in {p.expected, p.att}
    [] OTHER -> record # None /\ record.src = p.expected

\* A refresh has no suspension: it replaces the metadata and is over.
Refresh(p) ==
  /\ job = Idle /\ p.action = "refresh"
  /\ Accepts(p, paper)
  /\ paper' = [paper EXCEPT !.meta = p.meta]
  /\ UNCHANGED <<file, art, runs, plans, job, torn, late, cut, upsets>>

StartImport(p) ==
  /\ job = Idle /\ p.action # "refresh"
  /\ Accepts(p, paper)
  /\ job' = [op |-> "import", pc |-> "copy", plan |-> p, fresh |-> paper = None]
  /\ cut' = None
  /\ UNCHANGED <<paper, file, art, runs, plans, torn, late, upsets>>

\* The attachment changed after the preview or cannot be read, or the job was
\* cancelled.
CopyFails ==
  /\ job.op = "import" /\ job.pc = "copy"
  /\ Leave
  /\ UNCHANGED <<paper, file, art, runs, plans, torn, late, cut, upsets>>

Copied ==
  /\ job.op = "import" /\ job.pc = "copy"
  /\ job' = [job EXCEPT !.pc = IF job.fresh THEN "create" ELSE "source"]
  /\ UNCHANGED <<paper, file, art, runs, plans, torn, late, cut, upsets>>

\* Mutant: the record names its source from the start.
CreateFullRecord ==
  /\ job.pc = "create"
  /\ paper' = [NewRecord(job.plan.meta) EXCEPT !.src = job.plan.att]
  /\ job' = [job EXCEPT !.pc = "source"]
  /\ UNCHANGED <<file, art, runs, plans, torn, late, cut, upsets>>

\* A record with metadata only.
CreateRecord ==
  /\ job.pc = "create"
  /\ paper' = NewRecord(job.plan.meta)
  /\ job' = [job EXCEPT !.pc = "source"]
  /\ UNCHANGED <<file, art, runs, plans, torn, late, cut, upsets>>

\* The file is named by its hash, so it never takes the place of other bytes.
InstallSource ==
  /\ job.pc = "source"
  /\ file' = [file EXCEPT ![job.plan.att] = job.plan.att]
  /\ torn' = torn \ {job.plan.att}
  /\ job' = [job EXCEPT !.pc = "record"]
  /\ UNCHANGED <<paper, art, runs, plans, late, cut, upsets>>

RecordSource ==
  /\ job.op = "import" /\ job.pc = "record"
  /\ paper' = [paper EXCEPT !.meta = job.plan.meta, !.src = job.plan.att]
  /\ Leave
  /\ UNCHANGED <<file, art, runs, plans, torn, late, cut, upsets>>

\* A write raises.
ImportFails ==
  /\ "import" \in Faults
  /\ job.op = "import" /\ job.pc \in {"create", "source", "record"}
  /\ cut' = job.plan
  /\ Leave
  /\ UNCHANGED <<paper, file, art, runs, plans, torn, late, upsets>>

-----------------------------------------------------------------------------
(* Recipe runs: the snapshot of the input and the installation of the answer *)

StartSnapshot(r) ==
  /\ job = Idle /\ paper # None
  /\ runs[r].phase = "new"
  /\ InputBytes(paper) # None
  /\ job' = [op |-> "snapshot", pc |-> "hash", run |-> r, copy |-> paper, inp |-> None]
  /\ UNCHANGED <<paper, file, art, runs, plans, torn, late, cut, upsets>>

\* A thread has hashed the input; a PDF must still be the recorded one.
HashInput ==
  /\ job.op = "snapshot" /\ job.pc = "hash"
  /\ LET bytes == InputBytes(job.copy) IN
       /\ bytes # None
       /\ RecipeInput = "pdf" => bytes = job.copy.src
       /\ job' = [job EXCEPT !.pc = "copy", !.inp = bytes]
  /\ UNCHANGED <<paper, file, art, runs, plans, torn, late, cut, upsets>>

\* Mutant: the copy is taken for what was hashed.
CopyUnchecked ==
  /\ job.op = "snapshot" /\ job.pc = "copy"
  /\ InputBytes(job.copy) # None
  /\ runs' = [runs EXCEPT ![job.run] =
               [phase |-> "ready", inp |-> job.inp, sent |-> InputBytes(job.copy)]]
  /\ Leave
  /\ UNCHANGED <<paper, file, art, plans, torn, late, cut, upsets>>

\* Another thread has copied it, and what it copied must have that hash.
CopyInput ==
  /\ job.op = "snapshot" /\ job.pc = "copy"
  /\ InputBytes(job.copy) = job.inp
  /\ runs' = [runs EXCEPT ![job.run] =
               [phase |-> "ready", inp |-> job.inp, sent |-> InputBytes(job.copy)]]
  /\ Leave
  /\ UNCHANGED <<paper, file, art, plans, torn, late, cut, upsets>>

SnapshotFails ==
  /\ job.op = "snapshot"
  /\ Leave
  /\ UNCHANGED <<paper, file, art, runs, plans, torn, late, cut, upsets>>

\* The provider has answered.
StartFinalize(r) ==
  /\ job = Idle /\ paper # None
  /\ runs[r].phase = "ready"
  /\ job' = [op |-> "finalize", pc |-> "hash", run |-> r, copy |-> paper]
  /\ UNCHANGED <<paper, file, art, runs, plans, torn, late, cut, upsets>>

\* A run that is not to overwrite leaves a fresh output alone.
Superfluous(r) == r \notin Overwrite /\ Fresh(job.copy, "out")

\* Mutant: an answer is installed whatever its input has become.
InstallAnyAnswer ==
  /\ job.op = "finalize" /\ job.pc = "hash"
  /\ InputBytes(job.copy) # None
  /\ ~Superfluous(job.run)
  /\ art' = [art EXCEPT !["out"] = [inp |-> runs[job.run].sent, run |-> job.run]]
  /\ job' = [job EXCEPT !.pc = "write"]
  /\ UNCHANGED <<paper, file, runs, plans, torn, late, cut, upsets>>

\* A thread has hashed the input as it is now: still the one that was sent.
InstallAnswer ==
  /\ job.op = "finalize" /\ job.pc = "hash"
  /\ InputBytes(job.copy) = runs[job.run].inp
  /\ ~Superfluous(job.run)
  /\ art' = [art EXCEPT !["out"] = [inp |-> runs[job.run].sent, run |-> job.run]]
  /\ job' = [job EXCEPT !.pc = "write"]
  /\ UNCHANGED <<paper, file, runs, plans, torn, late, cut, upsets>>

\* The input has changed, or the answer is not needed: settled without it.
SkipAnswer ==
  /\ job.op = "finalize" /\ job.pc = "hash"
  /\ InputBytes(job.copy) # None
  /\ InputBytes(job.copy) = runs[job.run].inp => Superfluous(job.run)
  /\ job' = [job EXCEPT !.pc = "state"]
  /\ UNCHANGED <<paper, file, art, runs, plans, torn, late, cut, upsets>>

\* The input is missing, or the installation raises: tried again later.
AnswerFails ==
  /\ job.op = "finalize" /\ job.pc = "hash"
  /\ InputBytes(job.copy) = None \/ "install" \in Faults
  /\ Leave
  /\ UNCHANGED <<paper, file, art, runs, plans, torn, late, cut, upsets>>

\* The copy of the record read at the start is written back.
WriteAnswer ==
  /\ job.pc = "write"
  /\ paper' = [job.copy EXCEPT !.prov["out"] =
                 [of |-> runs[job.run].inp, is |-> [inp |-> runs[job.run].sent, run |-> job.run]]]
  /\ torn' = IF art["out"] = paper'.prov["out"].is THEN torn \ {"out"} ELSE torn
  /\ late' = late \ {"out"}
  /\ job' = [job EXCEPT !.pc = "state"]
  /\ UNCHANGED <<file, art, runs, plans, cut, upsets>>

WriteAnswerFails ==
  /\ "record" \in Faults
  /\ job.pc = "write"
  /\ late' = late \cup {"out"}
  /\ Leave
  /\ UNCHANGED <<paper, file, art, runs, plans, torn, cut, upsets>>

\* store.write_state
SettleRun ==
  /\ job.pc = "state"
  /\ runs' = [runs EXCEPT ![job.run].phase = "done"]
  /\ Leave
  /\ UNCHANGED <<paper, file, art, plans, torn, late, cut, upsets>>

-----------------------------------------------------------------------------
(* Crashes and foreign hands *)

\* The process ends, and a later one finds what is on disk; backups in .pp/tmp
\* are not put back.
Crash ==
  /\ upsets < MaxUpsets
  /\ job # Idle
  /\ upsets' = upsets + 1
  /\ Leave
  /\ torn' = IF job.pc \in {"install", "undo", "write"}
             THEN torn \cup {IF job.op = "finalize" THEN "out" ELSE job.op} ELSE torn
  /\ cut' = IF job.op = "import" THEN job.plan ELSE cut
  /\ UNCHANGED <<paper, file, art, runs, plans, late>>

SpoilSource(s, bytes) ==
  /\ "spoil" \in Faults /\ upsets < MaxUpsets
  /\ file[s] # None
  /\ file' = [file EXCEPT ![s] = bytes]
  /\ torn' = torn \cup {s}
  /\ upsets' = upsets + 1
  /\ UNCHANGED <<paper, art, runs, plans, job, late, cut>>

SpoilPart(part, bytes) ==
  /\ "spoil" \in Faults /\ upsets < MaxUpsets
  /\ art[part] # None
  /\ art' = [art EXCEPT ![part] = bytes]
  /\ torn' = torn \cup {IF part = "figs" THEN "text" ELSE part}
  /\ upsets' = upsets + 1
  /\ UNCHANGED <<paper, file, runs, plans, job, late, cut>>

-----------------------------------------------------------------------------
Making ==
  \/ \E op \in Ops : StartMaking(op)
  \/ \E ver \in Version : Make(ver)
  \/ MakeFails \/ BackUp \/ Place \/ InstallFails \/ Withdraw \/ PutBack \/ RolledBack
  \/ UndoFails \/ RecordMade \/ RecordFails

Importing ==
  \/ \E e \in Export : Preview(e)
  \/ \E p \in plans : Forget(p) \/ Refresh(p) \/ StartImport(p)
  \/ CopyFails \/ Copied \/ CreateRecord \/ InstallSource \/ RecordSource \/ ImportFails

Answering ==
  \/ \E r \in Run : StartSnapshot(r) \/ StartFinalize(r)
  \/ HashInput \/ CopyInput \/ SnapshotFails
  \/ InstallAnswer \/ SkipAnswer \/ AnswerFails
  \/ WriteAnswer \/ WriteAnswerFails \/ SettleRun

Outside ==
  \/ Crash
  \/ \E bytes \in {Spoilt, None} :
       \/ \E s \in Source : SpoilSource(s, bytes)
       \/ \E part \in Part : SpoilPart(part, bytes)

Next == Making \/ Importing \/ Answering \/ Outside

Spec == Init /\ [][Next]_vars

-----------------------------------------------------------------------------
(* Properties *)

MakingJob ==
  [op : {"text", "pages"}, pc : {"make", "install", "undo"}, src : Source,
   left : {<<"text", "figs">>, <<"figs">>, <<"pages">>, <<>>}, made : Made \cup {None},
   saved : BoundedSeq([part : Part, was : Content], 2), placed : SUBSET Part]

ImportJob ==
  [op : {"import"}, pc : {"copy", "create", "source", "record"}, plan : Plan, fresh : BOOLEAN]

SnapshotJob ==
  [op : {"snapshot"}, pc : {"hash", "copy"}, run : Run, copy : PaperRecord, inp : Content]

FinalizeJob ==
  [op : {"finalize"}, pc : {"hash", "write", "state"}, run : Run, copy : PaperRecord]

Job == {Idle} \cup MakingJob \cup ImportJob \cup SnapshotJob \cup FinalizeJob

TypeOK ==
  /\ paper \in PaperRecord \cup {None}
  /\ file \in [Source -> Source \cup {Spoilt, None}]
  /\ art \in [Part -> Content]
  /\ runs \in [Run -> Request]
  /\ plans \subseteq Plan
  /\ job \in Job
  /\ torn \subseteq Output \cup Source /\ late \subseteq Output
  /\ cut \in Plan \cup {None}
  /\ upsets \in 0..MaxUpsets

\* What the selection of pending work leaves out was made from what the record
\* names, all the way from the bytes of the current source, whatever crashed,
\* failed, was retried or was changed by somebody else in between.
DoneIsTrue ==
  /\ \A k \in {"text", "pages"} : Done(k) => art[k].src = paper.src
  /\ Done("out") => art["out"].inp = RecipeSource(paper)
  /\ Done("out") /\ Done("text") /\ RecipeInput = "transcription" =>
       art["out"].inp.src = paper.src

\* What a job records as made is fresh at that moment: neither the time it took
\* nor an import before or after it lets it record something out of date, but
\* for a recipe whose input is not what the record says.
RecordedIsFresh ==
  [][\A k \in Output :
       paper # None /\ paper'.prov[k] # paper.prov[k] /\ ~(k = "out" /\ "text" \in torn \cup late) =>
         Fresh(paper', k)]_vars

\* Between two jobs the artifacts are those the record describes, figures
\* included: a rerun that failed has put back the older bundle. Left out are
\* outputs last touched by a crash or a foreign hand, and those whose job failed
\* after it had installed them.
OlderKept ==
  job = Idle =>
    \A k \in Output \ (torn \cup late) :
      /\ art[k] = IF paper = None THEN None ELSE paper.prov[k].is
      /\ k = "text" => art["figs"] = FiguresOf(art["text"])

\* A source is replaced only while it is the one the preview showed, however
\* many previews were applied in the meantime.
PreviewedOnly ==
  [][paper' # paper /\ paper # None /\ paper'.src # paper.src =>
       paper.src = job.plan.expected]_vars

\* An import that was cut short can be applied again as it is.
Resumable == cut # None => Accepts(cut, paper)
=============================================================================
