-------------------------- MODULE MCExportPipeline --------------------------
(* ExportPipeline on a small instance.                                     *)
EXTENDS ExportPipeline, TLC

CONSTANTS w1, w2

MCOneWorker == {w1}
MCTwoWorkers == {w1, w2}
MCGenerations == 1 .. 5

Symmetry == Permutations(MCTwoWorkers)
=============================================================================
