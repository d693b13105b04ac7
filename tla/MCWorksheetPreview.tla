------------------------- MODULE MCWorksheetPreview -------------------------
(***************************************************************************)
(* The page with its picture of the worksheet: one question and one        *)
(* wording, with room to answer, export, and answer anew.                  *)
(***************************************************************************)
EXTENDS WorksheetPreview

OneQuestion == {1}
=============================================================================
