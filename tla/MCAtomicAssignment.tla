------------------------- MODULE MCAtomicAssignment -------------------------
(* AtomicAssignment on a small instance.  Behaviours are bounded by the     *)
(* public version and, as a review keeps it, by the tokens of a question;   *)
(* the version goes further while only the first question is worked on, so  *)
(* that an answer is revised and confirmed again.                           *)
EXTENDS AtomicAssignment

CONSTANTS q1, q2, x1, x2, MaxVersion, MaxVersionAlone, MaxTokens

TwoQuestions == {q1, q2}
MCTexts == {x1, x2}

Alone == DOMAIN manifest.questions \subseteq {q1} \/ manifest.questions[q2] = NewQuestion

Bounded ==
  /\ manifest.version <= IF Alone THEN MaxVersionAlone ELSE MaxVersion
  /\ \A q \in DOMAIN manifest.questions : Len(manifest.questions[q].tokens) <= MaxTokens
=============================================================================
