-------------------------- MODULE MCCandidateEvidence --------------------------
(* Instance of CandidateEvidence: two questions, turns of one or two words. *)
EXTENDS CandidateEvidence

CONSTANTS q1, q2, a, b

MCQuestions  == {q1, q2}
MCUtterances == {<<Prefix, a>>, <<b, Stop>>}
MCWordings   == {<<a>>, <<a, b>>}
MCSymmetry   == Permutations(MCQuestions)
=============================================================================
