--------------------------- MODULE MCWorkspacePage ---------------------------
(***************************************************************************)
(* A worksheet of two questions on the student's page.                     *)
(***************************************************************************)
EXTENDS WorkspacePage

MCQuestionIds == 1..2
TextSymmetry  == Permutations(Texts)
=============================================================================
