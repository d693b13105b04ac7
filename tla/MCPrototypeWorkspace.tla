------------------------- MODULE MCPrototypeWorkspace -------------------------
(***************************************************************************)
(* Two questions and two texts, of which one cannot be printed, and a      *)
(* second upload that may overlap the first.                               *)
(***************************************************************************)
EXTENDS PrototypeWorkspace

CONSTANTS plain, odd
=============================================================================
