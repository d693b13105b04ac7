------------------------- MODULE MCQuestionSetupPage -------------------------
(***************************************************************************)
(* Two pages, two detected questions and one block that belongs to none.   *)
(***************************************************************************)
EXTENDS QuestionSetupPage

CONSTANTS b1, b2, b3, t1

MCQuestionIds == 1..3
MCBlocks      == {b1, b2, b3}
MCTexts       == {t1}
MCPageOf      == (b1 :> 1) @@ (b2 :> 1) @@ (b3 :> 2)
MCTouched     == {1}
MCFound       == <<Question(1, {b1}), Question(2, {b3})>>
=============================================================================
