----------------------------- MODULE Validation -----------------------------
(***************************************************************************)
(* library/validation.py, for one paper of PaperLife: what a validation of *)
(* the library tells about it.  A validation is a library-read job, which  *)
(* may run beside the paper's jobs but reads in one step of the event      *)
(* loop, so it sees the paper wherever these have suspended themselves.    *)
(*                                                                         *)
(* Left out are library.json, the directory of papers and paper.json files *)
(* that cannot be read, paths outside the paper and symlinks: no operation *)
(* of the program makes them.  The declared pages are one artifact, so a   *)
(* page too many is a mismatch like a page that is not as recorded.        *)
(***************************************************************************)
EXTENDS PaperLife

Category == {"sources", "transcriptions", "pages", "recipes", "folders"}

\* A ValidationProblem; its action follows from what is wrong.
Problem(severity, what, about) == [severity |-> severity, what |-> what, about |-> about]

\* Mutant: a file that is there will do.
DamageMissing(k) ==
  IF art[k] = None THEN {Problem("error", "missing", k)} ELSE {}

\* _check_recorded_artifact
Damage(k) ==
  CASE art[k] = None -> {Problem("error", "missing", k)}
    [] art[k] \notin {None, paper.prov[k].is} -> {Problem("error", "mismatch", k)}
    [] OTHER -> {}

\* A recorded output that was made of another input; its provenance is asked.
Staleness(k) == IF Fresh(paper, k) THEN {} ELSE {Problem("warning", "stale", k)}

\* _validate_source: a library without its PDFs is no error.
SourceProblems ==
  CASE paper.src = None -> {}
    [] paper.src # None /\ file[paper.src] = None -> {Problem("warning", "missing", paper.src)}
    [] paper.src # None /\ file[paper.src] \notin {None, paper.src} ->
         {Problem("error", "mismatch", paper.src)}
    [] OTHER -> {}

\* _validate_transcription, _validate_pages
ArtifactProblems(k) ==
  CASE paper.prov[k].is # None -> Damage(k) \cup Staleness(k)
    [] paper.prov[k].is = None /\ art[k] # None -> {Problem("error", "unrecorded", k)}
    [] OTHER -> {}

\* _validate_recipes: only recorded outputs are looked at ...
RecipeProblems ==
  IF paper.prov["out"].is # None THEN Damage("out") \cup Staleness("out") ELSE {}

\* ... and _validate_paper_entries meets the others.
FolderProblems ==
  IF paper.prov["out"].is = None /\ art["out"] # None
  THEN {Problem("error", "unrecorded", "out")} ELSE {}

Problems(category) ==
  CASE category = "sources" -> SourceProblems
    [] category = "transcriptions" -> ArtifactProblems("text")
    [] category = "pages" -> ArtifactProblems("pages")
    [] category = "recipes" -> RecipeProblems
    [] category = "folders" -> FolderProblems

\* _complete_phase
Status(category) ==
  IF Problems(category) = {} THEN "ok"
  ELSE IF \E p \in Problems(category) : p.severity = "error" THEN "error" ELSE "warning"

\* validate_library: the status of every phase.
Report == [category \in Category |-> Status(category)]

-----------------------------------------------------------------------------
(* Properties *)

(***************************************************************************)
(* A validation that runs beside the paper's jobs, or after jobs that were *)
(* cut short, failed or cancelled, calls nothing missing, altered or       *)
(* unrecorded that they still work on or have left whole: it blames only   *)
(* what a crash or a foreign hand has touched last, and outputs whose job  *)
(* failed after it had installed them.  What a rerun has made again is     *)
(* blamed no more.                                                         *)
(***************************************************************************)
ValidationTrusted ==
  Suspended /\ paper # None =>
    \A category \in Category : \A p \in Problems(category) :
      p.what # "stale" => p.about \in torn \cup late

\* This content was made of the paper's source, in one step or two.
FromSource(content) ==
  \/ content \in Made /\ content.src = paper.src
  \/ content \in Answer /\ IF content.inp \in Made THEN content.inp.src = paper.src
                           ELSE content.inp = paper.src

(***************************************************************************)
(* If every phase of a validation is ok, all recorded outputs of the paper *)
(* are there and made of the bytes of its current source, whatever         *)
(* crashed, failed, was replaced or changed by somebody else before.       *)
(***************************************************************************)
CleanIsTrue ==
  Suspended /\ paper # None /\ Report = [category \in Category |-> "ok"] =>
    \A k \in Output : paper.prov[k].is # None => FromSource(art[k])
=============================================================================
