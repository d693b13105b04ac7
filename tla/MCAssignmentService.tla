------------------------ MODULE MCAssignmentService -------------------------
(* AssignmentService with two requests at a time on one question.           *)
EXTENDS AssignmentService

CONSTANTS q1, x1, w1, w2, MaxVersion, MaxTokens, MaxGeneration

MCQuestionIds == {q1}
MCTexts == {x1}
MCWorkers == {w1, w2}

Bounded ==
  /\ manifest.version <= MaxVersion
  /\ generation <= MaxGeneration
  /\ \A q \in DOMAIN manifest.questions : Len(manifest.questions[q].tokens) <= MaxTokens
=============================================================================
