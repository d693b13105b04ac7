------------------------- MODULE AnalysisLifecycle -------------------------
(***************************************************************************)
(* create_assignment and get_assignment of backend/service.py: the request *)
(* that stores a worksheet, analyses it and attaches the result to the     *)
(* assignment manifest, and the polls that fail an analysis which is older *)
(* than any request may be.  Storage calls may fail, may land without      *)
(* being acknowledged, and the creating request may die at any point.      *)
(***************************************************************************)
EXTENDS AnalysisState

vars == <<status, source, ir, process, told, clock, lossy>>

Init ==
  /\ status = "NONE" /\ source = FALSE /\ ir = FALSE
  /\ process = [p \in Processes |->
       [phase |-> IF p = Creator THEN "source" ELSE "idle", fresh |-> FALSE]]
  /\ told = "nothing"
  /\ clock = 0
  /\ lossy \in BOOLEAN

-----------------------------------------------------------------------------
Goes(p, phase) == process' = [process EXCEPT ![p].phase = phase]
Creates(phase) == In(Creator, phase)

\* A manifest write makes every other snapshot stale, the writer's too when it
\* was not acknowledged.
Wrote(p, phase, acked) ==
  process' = [r \in Processes |->
    IF r = p THEN [process[r] EXCEPT !.phase = phase, !.fresh = acked]
             ELSE [process[r] EXCEPT !.fresh = FALSE]]

WithinWork == clock < WorkTimeout

WithinRequest == clock < RequestTimeout

Answers(x) == told' = x

\* Recording a failure needs what is left of the reserve; without it the answer
\* is the manifest the request wrote first.
MarkOr(answer) ==
  IF WithinRequest THEN Goes(Creator, "mark") /\ UNCHANGED told
                   ELSE Goes(Creator, "idle") /\ Answers(answer)

-----------------------------------------------------------------------------
(* _create_analyzing_assignment.                                           *)

StoreSource ==
  /\ Creates("source")
  /\ \/ source' = TRUE /\ Goes(Creator, "manifest") /\ UNCHANGED told
     \/ source' \in {FALSE, lossy} /\ Goes(Creator, "idle") /\ Answers("error")
  /\ UNCHANGED <<status, ir, clock, lossy>>

\* Mutant of StoreManifest: any landed write is taken for an acknowledged one,
\* and the analysis goes on from a snapshot of no known generation.
StoreManifestUnread ==
  /\ Creates("manifest")
  /\ \/ /\ status' = "ANALYZING"
        /\ \E acked \in {TRUE, ~lossy} : Wrote(Creator, "analyze", acked)
     \/ Goes(Creator, "unsource") /\ UNCHANGED status
  /\ UNCHANGED <<source, ir, told, clock, lossy>>

StoreManifest ==
  /\ Creates("manifest")
  /\ \/ /\ status' = "ANALYZING"
        /\ Wrote(Creator, "analyze", TRUE)
     \/ lossy /\ status' = "ANALYZING" /\ Wrote(Creator, "unsource", FALSE)
     \/ Goes(Creator, "unsource") /\ UNCHANGED status
  /\ UNCHANGED <<source, ir, told, clock, lossy>>

\* The deletion is tried once and its failure ignored.
DropSource ==
  /\ Creates("unsource")
  /\ source' \in {FALSE, source}
  /\ Goes(Creator, "idle")
  /\ Answers("error")
  /\ UNCHANGED <<status, ir, clock, lossy>>

-----------------------------------------------------------------------------
(* The document worker and the semantic mapping, and _finish_analysis.     *)

Analyze ==
  /\ Creates("analyze")
  /\ \/ WithinWork /\ Goes(Creator, "ir") /\ UNCHANGED told
     \/ MarkOr("ANALYZING")
  /\ UNCHANGED <<status, source, ir, clock, lossy>>

StoreIR ==
  /\ Creates("ir")
  /\ \/ ir' = TRUE /\ Goes(Creator, "attach") /\ UNCHANGED told
     \/ ir' \in {FALSE, lossy} /\ MarkOr("error")
  /\ UNCHANGED <<status, source, clock, lossy>>

\* Mutant of Attach: the analysis is taken back after success as well.
AttachThenDrop ==
  /\ Creates("attach")
  /\ \/ process[Creator].fresh /\ status' = "READY" /\ Wrote(Creator, "unattach", TRUE)
     \/ Goes(Creator, "unattach") /\ UNCHANGED status
  /\ UNCHANGED <<source, ir, told, clock, lossy>>

\* Every failure of the write takes the analysis back, one after which the
\* write had landed included.
Attach ==
  /\ Creates("attach")
  /\ \/ /\ process[Creator].fresh
        /\ status' = "READY"
        /\ \/ Wrote(Creator, "idle", TRUE) /\ Answers("READY")
           \/ lossy /\ Wrote(Creator, "unattach", FALSE) /\ UNCHANGED told
     \/ Goes(Creator, "unattach") /\ UNCHANGED <<status, told>>
  /\ UNCHANGED <<source, ir, clock, lossy>>

DropIR ==
  /\ Creates("unattach")
  /\ ir' \in {FALSE, ir}
  /\ MarkOr("error")
  /\ UNCHANGED <<status, source, clock, lossy>>

-----------------------------------------------------------------------------
(* _mark_analysis_failed, for the creating request and for polls.          *)

\* Mutant of Ends: the answer assumes that the failure was recorded.
EndsAsFailed(p, s) == IF p = Creator THEN Answers("ANALYSIS_FAILED") ELSE UNCHANGED told

\* What the request makes of the manifest that is stored in the end.
Ends(p, s) == IF p = Creator THEN Answers(IF s = "READY" THEN "error" ELSE s)
                             ELSE UNCHANGED told

MarkFailed(p) ==
  /\ In(p, "mark")
  /\ process[p].fresh
  /\ status' = "ANALYSIS_FAILED"
  /\ \/ Wrote(p, "idle", TRUE) /\ Ends(p, status')
     \/ lossy /\ Wrote(p, "mark", FALSE) /\ UNCHANGED told
  /\ UNCHANGED <<source, ir, clock, lossy>>

\* Mutant of MarkAgain: it fails whatever it finds.
MarkAnyway(p) ==
  /\ In(p, "mark")
  /\ ~process[p].fresh
  /\ process' = [process EXCEPT ![p].fresh = TRUE]
  /\ UNCHANGED <<status, source, ir, told, clock, lossy>>

\* After a conflict the manifest is loaded again, and left alone if the
\* analysis has ended meanwhile.  The code gives up after four rounds, which
\* are never needed (ConflictMeansEnd).
MarkAgain(p) ==
  /\ In(p, "mark")
  /\ ~process[p].fresh
  /\ IF status # "ANALYZING"
     THEN Goes(p, "idle") /\ Ends(p, status)
     ELSE process' = [process EXCEPT ![p].fresh = TRUE] /\ UNCHANGED told
  /\ UNCHANGED <<status, source, ir, clock, lossy>>

\* Mutant of Poll: the age is compared the wrong way round.
PollYoung(p) ==
  /\ In(p, "idle")
  /\ p # Creator
  /\ status = "ANALYZING"
  /\ WithinRequest
  /\ process' = [process EXCEPT ![p] = [phase |-> "mark", fresh |-> TRUE]]
  /\ UNCHANGED <<status, source, ir, told, clock, lossy>>

\* get_assignment.
Poll(p) ==
  /\ In(p, "idle")
  /\ p # Creator
  /\ status = "ANALYZING"
  /\ ~WithinRequest
  /\ process' = [process EXCEPT ![p] = [phase |-> "mark", fresh |-> TRUE]]
  /\ UNCHANGED <<status, source, ir, told, clock, lossy>>

\* A request ends where it stands; storage errors while marking end it too.
Crash(p) ==
  /\ ~In(p, "idle")
  /\ Goes(p, "idle")
  /\ UNCHANGED <<status, source, ir, told, clock, lossy>>

Tick ==
  /\ clock' = IF WithinRequest THEN clock + 1 ELSE clock
  /\ UNCHANGED <<status, source, ir, process, told, lossy>>

Creation ==
  StoreSource \/ StoreManifest \/ DropSource \/ Analyze \/ StoreIR \/ Attach \/ DropIR

Next ==
  \/ Creation \/ Tick
  \/ \E p \in Processes : MarkFailed(p) \/ MarkAgain(p) \/ Poll(p) \/ Crash(p)

\* The clock runs, and polls that are repeated get through at last.
Fairness ==
  /\ WF_vars(Tick)
  /\ \A p \in Polls : WF_vars(Poll(p)) /\ SF_vars(MarkFailed(p) \/ MarkAgain(p))

Spec == Init /\ [][Next]_vars /\ Fairness
=============================================================================
