---------------------------- MODULE MCPaperLife ----------------------------
(***************************************************************************)
(* Instances of PaperLife and Validation for TLC.                          *)
(***************************************************************************)
EXTENDS Validation, TLC

CONSTANTS s1, s2, v1, v2, e1, e2, e3, r1, r2

Single == e1 :> s1

TwoExports == e1 :> s1 @@ e2 :> s2

\* e3 has new metadata for the attachment of e1.
ThreeExports == e1 :> s1 @@ e2 :> s2 @@ e3 :> s1
=============================================================================
