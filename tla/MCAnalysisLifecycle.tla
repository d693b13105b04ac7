------------------------ MODULE MCAnalysisLifecycle ------------------------
(* AnalysisLifecycle with two status requests beside the creating one.     *)
EXTENDS AnalysisLifecycle

CONSTANTS p1, p2

MCPolls == {p1, p2}
=============================================================================
