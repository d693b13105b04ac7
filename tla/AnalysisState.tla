---------------------------- MODULE AnalysisState ----------------------------
(***************************************************************************)
(* The state of one assignment's analysis, and what is promised of it.     *)
(* AnalysisLifecycle has the steps.                                        *)
(*                                                                         *)
(* Each object is created once at most, so a stored object is a flag.  A   *)
(* process's snapshot of the manifest is the stored one until another      *)
(* process writes (`fresh`); `clock` counts from created_at up to the      *)
(* limits the code compares with.                                          *)
(***************************************************************************)
EXTENDS Integers

CONSTANTS
  Polls,            \* status requests in progress at once
  Creator,          \* the creating request
  WorkTimeout,      \* the part of a request's time that is not its reserve
  RequestTimeout    \* a request's time; also the age of a stale analysis, for
                    \* document_timeout_seconds is request_timeout_seconds
                    \* unless the service is given another one

ASSUME AnalysisAssumption ==
  /\ Creator \notin Polls
  /\ WorkTimeout \in Nat \ {0}
  /\ RequestTimeout \in Nat
  /\ WorkTimeout < RequestTimeout

VARIABLES
  status,   \* of the stored manifest: "ANALYZING", "READY", "ANALYSIS_FAILED", and
            \* "NONE" before there is one
  source,   \* whether the worksheet is stored
  ir,       \* whether the analysis (the physical IR) is stored
  process,  \* what each request is doing
  told,     \* what the creating request answered
  clock,    \* time since created_at
  lossy     \* whether storage calls may land unacknowledged; it never changes

Processes == Polls \cup {Creator}

In(p, phase) == process[p].phase = phase

-----------------------------------------------------------------------------
\* An analysis ends once: a failure recorded late never revokes a worksheet
\* that is ready, and a late result never revives one that has failed.
EndIsFinal ==
  [][status' # status => status \in {"NONE", "ANALYZING"}]_status

\* A conflict met while recording a failure always means that the analysis has
\* ended: nothing else rewrites a manifest under analysis, so that the second
\* of the four rounds of _mark_analysis_failed never writes.
ConflictMeansEnd ==
  \A p \in Processes : In(p, "mark") /\ ~process[p].fresh => status # "ANALYZING"

\* What the student was told of the end of the analysis is what every later
\* reload of the page will find.
AnswerIsTruthful == told \in {"READY", "ANALYSIS_FAILED"} => status = told

\* A worksheet that is ready can be opened: any later request rebuilds its
\* state from the objects the manifest names.
ReadyIsUsable == status = "READY" => source /\ ir

\* So it is as long as storage acknowledges what it does.
ReadyIsUsableIfAcknowledged == ~lossy => ReadyIsUsable

\* An analysis never hangs: whatever became of the creating request, a student
\* who keeps asking sees it end.
AnalysisEnds == status = "ANALYZING" ~> status \in {"READY", "ANALYSIS_FAILED"}
==============================================================================
