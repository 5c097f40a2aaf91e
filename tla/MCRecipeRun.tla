---------------------------- MODULE MCRecipeRun ----------------------------
(***************************************************************************)
(* Instances of RecipeRun for TLC.                                         *)
(***************************************************************************)
EXTENDS RecipeRun, TLC

CONSTANTS r1, r2, j1, j2, j3, q1, q2, p1, p2

\* q1 works on the PDF of p1, q2 on the transcription of p2.
TwoPapers == q1 :> p1 @@ q2 :> p2

OnePaper == q1 :> p1

Jobs == Permutations(Job)

Symmetric == Permutations(Run) \cup Permutations(Job)
=============================================================================
