----------------------------- MODULE MCLivePage -----------------------------
(***************************************************************************)
(* The instance of LivePage for TLC.                                       *)
(***************************************************************************)
EXTENDS LivePage, TLC

CONSTANTS t1, j1, v1, A, B

\* One job of another library than those that are validated.
Owners == j1 :> B @@ v1 :> A

=============================================================================
