-------------------------- MODULE QuestionSetupPage --------------------------
(***************************************************************************)
(* From the upload to the accepted questions: startAnalysis of             *)
(* src/v2/WorkspaceShell.tsx, the panel QuestionSetupWorkspace.tsx, and    *)
(* the question set-up operations of the server.                           *)
(*                                                                         *)
(* The panel has one `pending` flag for all its calls and does not hold    *)
(* every button back while one is under way, so that several calls may be  *)
(* under way and the student goes on choosing text meanwhile.  A question  *)
(* is its id and the blocks of worksheet text that make its wording.       *)
(***************************************************************************)
EXTENDS WorkspaceMachine

CONSTANTS
  Blocks,       \* blocks of text of the worksheet
  PageCount,    \* its pages
  PageOf,       \* the page a block is on
  Found,        \* the questions the analysis finds
  \* Bounds of the instance: calls made in all, polls of the analysis, the
  \* questions the student replaces and removes.
  MaxCalls, MaxPolls, Touched

Question(q, blocks) == [id |-> q, blocks |-> blocks]
Ids(questions)      == {questions[i].id : i \in DOMAIN questions}
IdSeq(questions)    == [i \in DOMAIN questions |-> questions[i].id]

\* What the manifest's validation admits: every question has an id of its own and
\* at least one block.
IsQuestions(questions) ==
  /\ questions \in Seq([id : QuestionIds, blocks : (SUBSET Blocks) \ {{}}])
  /\ IsInjective(IdSeq(questions))

ASSUME SetupAssumption ==
  /\ PageCount \in Nat \ {0} /\ PageOf \in [Blocks -> 1..PageCount]
  /\ IsQuestions(Found)
  /\ {MaxCalls, MaxPolls} \subseteq Nat

VARIABLES
  server,  \* the assignment on the server
  page,    \* the statechart's context
  copy,    \* context.questionSetup
  job,     \* what startAnalysis awaits
  panel,   \* state of QuestionSetupWorkspace
  calls,   \* the panel's calls under way
  seen     \* history: the wordings the panel has shown as a preview

vars == <<server, page, copy, job, panel, calls, seen>>

-----------------------------------------------------------------------------
(* The server.                                                             *)

Place(questions, q)    == CHOOSE i \in DOMAIN questions : questions[i].id = q
BlocksOf(questions, q) == questions[Place(questions, q)].blocks

NewAssignment == [status |-> "analyzing", version |-> 1, verified |-> FALSE,
                  corrected |-> FALSE, questions |-> <<>>]
NoAssignment  == [NewAssignment EXCEPT !.status = "none"]

SetupOf(a) == [version |-> a.version, verified |-> a.verified,
               corrected |-> a.corrected, questions |-> a.questions]

\* Mutant of CurrentVersion: a request from an older page is let in.
KnownVersion(a, aver) == aver <= a.version

CurrentVersion(a, aver) == aver = a.version

\* _validated_question_selection: blocks of one page that no other question uses.
ValidSelection(a, n, blocks, except) ==
  /\ blocks # {} /\ \A b \in blocks : PageOf[b] = n
  /\ \A x \in Range(a.questions) : x.id # except => x.blocks \cap blocks = {}

\* The ids a new question may get: a detected one keeps its own.
NewIds(questions) == QuestionIds \ (Ids(questions) \cup Ids(Found))

\* The list of questions an operation asks for.
Asked(a, o) ==
  CASE o.kind = "add"     -> Append(a.questions,
                               Question(Min(NewIds(a.questions)), o.blocks))
    [] o.kind = "replace" -> [i \in DOMAIN a.questions |->
                                IF a.questions[i].id = o.q THEN Question(o.q, o.blocks)
                                ELSE a.questions[i]]
    [] o.kind = "remove"  -> RemoveAt(a.questions, Place(a.questions, o.q))
    [] o.kind = "reorder" -> [i \in DOMAIN o.order |->
                                Question(o.order[i], BlocksOf(a.questions, o.order[i]))]
    [] o.kind = "reset"   -> Found

Applicable(a, o) ==
  CASE o.kind = "add"     -> /\ ValidSelection(a, o.n, o.blocks, 0)
                             /\ NewIds(a.questions) # {}
    [] o.kind = "replace" -> o.q \in Ids(a.questions) /\ ValidSelection(a, o.n, o.blocks, o.q)
    [] o.kind = "remove"  -> o.q \in Ids(a.questions) /\ Ids(a.questions) # {o.q}
    [] o.kind = "reorder" -> Range(o.order) = Ids(a.questions) /\ IsInjective(o.order)
    [] o.kind = "reset"   -> TRUE
    [] o.kind = "accept"  -> a.questions # <<>>

\* The set-up is locked only once an answer exists, which is after this module.
Mutated(a, o) ==
  IF o.kind = "accept" THEN [a EXCEPT !.version = @ + 1, !.verified = TRUE]
  ELSE [a EXCEPT !.version = @ + 1, !.verified = FALSE, !.corrected = (o.kind # "reset"),
                 !.questions = Asked(a, o)]

-----------------------------------------------------------------------------
(* Calls of the panel.                                                     *)

Operation(kind) == [kind |-> kind, q |-> 0, n |-> 0, blocks |-> {}, order |-> <<>>]

NoCall == [what |-> "none"]   \* a call not made yet
Over   == [what |-> "over"]

\* `save` is TRUE for the call of saveSelection; `shown` is the list of questions
\* on the page when the button was pressed.
Call(what, o, save) ==
  [what |-> what, o |-> o, save |-> save, aver |-> copy.version, shown |-> copy.questions,
   ans |-> "none", got |-> SetupOf(NoAssignment)]

Unmade == {i \in DOMAIN calls : calls[i] = NoCall}
Issue(c) == Unmade # {} /\ calls' = [calls EXCEPT ![Min(Unmade)] = c]

Asking(i)        == calls[i] \notin {NoCall, Over} /\ calls[i].ans = "none"
AnswerIs(i, ans) == calls[i] \notin {NoCall, Over} /\ calls[i].ans = ans
Done(i)          == calls' = [calls EXCEPT ![i] = Over]

\* An answer on its way back holds no more than the panel will read of it.
Failed(c)     == [c EXCEPT !.what = "any", !.ans = "failed", !.o = Operation("any"),
                           !.save = FALSE, !.aver = 0, !.shown = <<>>]
Reply(c, got) == [c EXCEPT !.ans = "ok", !.aver = 0, !.shown = <<>>,
                           !.o = IF c.what = "preview" THEN @ ELSE Operation("any"),
                           !.got = IF c.what = "preview" THEN @ ELSE got]

-----------------------------------------------------------------------------
(* The panel.                                                              *)

NoIntent == [kind |-> "none", q |-> 0]
NoPreview == [n |-> 0, blocks |-> {}]

NewPanel ==
  [n |-> 1, intent |-> NoIntent, selected |-> {}, preview |-> NoPreview, pending |-> FALSE,
   removing |-> 0, known |-> {}, fetching |-> 0, broken |-> FALSE]

Pages == 1..PageCount

\* get_question_blocks
OnPage(n) == {b \in Blocks : PageOf[b] = n}

\* A question's page is that of its blocks.
PageOfQuestion(q) == Min({PageOf[b] : b \in BlocksOf(copy.questions, q)})

\* The effect that fetches a page's blocks runs when the page, the mode or the
\* blocks change, and aborts what it fetched before.
Fetching(p, pn) ==
  IF p.at = "questionEditing" /\ pn.n \notin pn.known THEN pn.n ELSE 0

Show(pn) ==
  panel' = IF pn.n = panel.n /\ pn.known = panel.known THEN pn
           ELSE [pn EXCEPT !.fetching = Fetching(page, pn)]

InPanel   == InSetup(page) /\ ~panel.broken
Editing   == InPanel /\ page.at = "questionEditing"
Selecting == InPanel /\ panel.intent # NoIntent

CancelledSelection(pn) == [pn EXCEPT !.intent = NoIntent, !.preview = NoPreview, !.selected = {}]

\* The list of the questions.
Listed(q) == InPanel /\ q \in Ids(copy.questions)

ChooseQuestion(q) ==
  /\ Listed(q)
  /\ Show([panel EXCEPT !.n = PageOfQuestion(q), !.removing = 0])
  /\ UNCHANGED <<server, page, copy, job, calls, seen>>

\* The selection and the preview stay when the page is turned.
TurnPage(n) ==
  /\ InPanel /\ n \in Pages /\ n \in {panel.n - 1, panel.n + 1}
  /\ Show([panel EXCEPT !.n = n])
  /\ UNCHANGED <<server, page, copy, job, calls, seen>>

BeginSelection(kind, q) ==
  /\ Editing
  /\ kind = "replace" => q \in Ids(copy.questions) \cap Touched
  /\ kind = "add" => q = 0
  /\ Show([CancelledSelection(panel) EXCEPT
             !.intent = [kind |-> kind, q |-> q],
             !.n = IF kind = "replace" THEN PageOfQuestion(q) ELSE @])
  /\ UNCHANGED <<server, page, copy, job, calls, seen>>

CancelSelection ==
  /\ Selecting /\ panel' = CancelledSelection(panel)
  /\ UNCHANGED <<server, page, copy, job, calls, seen>>

\* The overlay on the page holds its blocks once they are fetched.
Selectable(b) == Selecting /\ panel.n \in panel.known /\ b \in OnPage(panel.n)

\* Sorting a selection that holds a block of another page throws, and without an
\* error boundary the page goes blank.
ToggleBlock(b) ==
  /\ Selectable(b)
  /\ LET added == panel.selected \cup {b}
     IN  panel' = IF b \in panel.selected
                  THEN [panel EXCEPT !.preview = NoPreview, !.selected = @ \ {b}]
                  ELSE [panel EXCEPT !.preview = NoPreview, !.selected = added,
                                     !.broken = ~(added \subseteq OnPage(panel.n))]
  /\ UNCHANGED <<server, page, copy, job, calls, seen>>

\* finishDrag: the blocks of the page under the rectangle.
DragOver(blocks) ==
  /\ Selecting /\ panel.n \in panel.known /\ \A b \in blocks : Selectable(b)
  /\ panel' = [panel EXCEPT !.selected = blocks, !.preview = NoPreview]
  /\ UNCHANGED <<server, page, copy, job, calls, seen>>

ChangeSelection ==
  /\ Selecting /\ panel.preview # NoPreview
  /\ panel' = [panel EXCEPT !.preview = NoPreview]
  /\ UNCHANGED <<server, page, copy, job, calls, seen>>

ShowSelectionPreview ==
  /\ Selecting /\ panel.preview = NoPreview /\ panel.selected # {} /\ ~panel.pending
  /\ Issue(Call("preview", [Operation("preview") EXCEPT !.q = panel.intent.q, !.n = panel.n,
                                                       !.blocks = panel.selected], FALSE))
  /\ panel' = [panel EXCEPT !.pending = TRUE]
  /\ UNCHANGED <<server, page, copy, job, seen>>

\* Mutant of SavedOperation: what is selected now is saved.
SavedSelection(pn) ==
  [Operation(pn.intent.kind) EXCEPT !.q = pn.intent.q, !.n = pn.n, !.blocks = pn.selected]

\* The previewed blocks with the page and the question of now.
SavedOperation(pn) ==
  [Operation(pn.intent.kind) EXCEPT !.q = pn.intent.q, !.n = pn.n, !.blocks = pn.preview.blocks]

SaveSelection ==
  /\ Selecting /\ panel.preview # NoPreview /\ ~panel.pending
  /\ Issue(Call("mutate", SavedOperation(panel), TRUE))
  /\ panel' = [panel EXCEPT !.pending = TRUE]
  /\ UNCHANGED <<server, page, copy, job, seen>>

RunMutation(o) ==
  /\ Issue(Call("mutate", o, FALSE))
  /\ panel' = [panel EXCEPT !.pending = TRUE, !.removing = IF o.kind = "remove" THEN 0 ELSE @]
  /\ UNCHANGED <<server, page, copy, job, seen>>

Swapped(s, i) == [s EXCEPT ![i] = s[i + 1], ![i + 1] = s[i]]

\* Up or down by one.
Reorder(i) ==
  /\ Editing /\ ~panel.pending /\ {i, i + 1} \subseteq DOMAIN copy.questions
  /\ RunMutation([Operation("reorder") EXCEPT !.order = Swapped(IdSeq(copy.questions), i)])

AskRemove(q) ==
  /\ Editing /\ q \in Ids(copy.questions) \cup {0} /\ q # panel.removing /\ q \in Touched \cup {0}
  /\ panel' = [panel EXCEPT !.removing = q]
  /\ UNCHANGED <<server, page, copy, job, calls, seen>>

\* Not held back by a pending call.
RemoveQuestion ==
  /\ Editing /\ panel.removing \in Ids(copy.questions)
  /\ RunMutation([Operation("remove") EXCEPT !.q = panel.removing])

ResetToDetected ==
  /\ Editing /\ copy.corrected /\ ~panel.pending
  /\ RunMutation(Operation("reset"))

Accept ==
  /\ InPanel /\ ~panel.pending
  /\ Issue(Call("accept", Operation("accept"), FALSE))
  /\ panel' = [panel EXCEPT !.pending = TRUE]
  /\ UNCHANGED <<server, page, copy, job, seen>>

\* "Something looks wrong" and "Review changes".
EnterOrLeaveEdit ==
  /\ InPanel
  /\ page' = IF page.at = "questionCheck" THEN EditQuestions(page) ELSE CancelQuestionEdit(page)
  /\ panel' = [panel EXCEPT !.fetching = Fetching(page', panel)]
  /\ UNCHANGED <<server, copy, job, calls, seen>>

-----------------------------------------------------------------------------
(* Answers.                                                                *)

\* What a request leaves on the server and what comes back; a refused request, a
\* lost one and a lost reply are the same to the panel.
Refused(a, c)    == {[a |-> a, c |-> Failed(c)]}
Handled(a, c, r) == {[a |-> a, c |-> Failed(c)], [a |-> a, c |-> r]}

PreviewReplies(a, c) ==
  IF /\ CurrentVersion(a, c.aver)
     /\ c.o.q \in Ids(a.questions) \cup {0}
     /\ ValidSelection(a, c.o.n, c.o.blocks, c.o.q)
  THEN Handled(a, c, Reply(c, SetupOf(a)))
  ELSE Refused(a, c)

MutationReplies(a, c) ==
  IF CurrentVersion(a, c.aver) /\ Applicable(a, c.o)
  THEN Handled(Mutated(a, c.o), c, Reply(c, SetupOf(Mutated(a, c.o))))
  ELSE Refused(a, c)

ServeCall(i) ==
  /\ Asking(i)
  /\ \E h \in IF calls[i].what = "preview" THEN PreviewReplies(server, calls[i])
               ELSE MutationReplies(server, calls[i]) :
       server' = h.a /\ calls' = [calls EXCEPT ![i] = h.c]
  /\ UNCHANGED <<page, copy, job, panel, seen>>

LoseCall(i) ==
  /\ Asking(i)
  /\ calls' = [calls EXCEPT ![i] = Failed(calls[i])]
  /\ UNCHANGED <<server, page, copy, job, panel, seen>>

TakeRefusal(i) ==
  /\ AnswerIs(i, "failed") /\ Done(i)
  /\ page' = RequestFailed(page)
  /\ panel' = [panel EXCEPT !.pending = FALSE]
  /\ UNCHANGED <<server, copy, job, seen>>

\* Whatever is selected by now.
TakePreview(i) ==
  /\ AnswerIs(i, "ok") /\ calls[i].what = "preview" /\ Done(i)
  /\ LET preview == [n |-> calls[i].o.n, blocks |-> calls[i].o.blocks]
     IN  /\ panel' = [panel EXCEPT !.pending = FALSE, !.preview = preview]
         /\ seen' = IF Selecting THEN seen \cup {preview.blocks} ELSE seen
  /\ UNCHANGED <<server, page, copy, job>>

\* QUESTION_SETUP_UPDATED, and what the caller does after it.
TakeMutation(i) ==
  /\ AnswerIs(i, "ok") /\ calls[i].what = "mutate" /\ Done(i)
  /\ LET s == calls[i].got
     IN  /\ page' = QuestionSetupUpdated(page, s.version, IdSeq(s.questions), s.verified)
         /\ copy' = IF InSetup(page) THEN s ELSE copy
  /\ panel' = IF calls[i].save THEN [CancelledSelection(panel) EXCEPT !.pending = FALSE]
              ELSE [panel EXCEPT !.pending = FALSE]
  /\ UNCHANGED <<server, job, seen>>

TakeAcceptance(i) ==
  /\ AnswerIs(i, "ok") /\ calls[i].what = "accept" /\ Done(i)
  /\ LET s == calls[i].got
     IN  /\ page' = QuestionSetupAccepted(page, s.version, IdSeq(s.questions), s.verified)
         /\ copy' = IF InSetup(page) THEN s ELSE copy
  /\ panel' = [panel EXCEPT !.pending = FALSE]
  /\ UNCHANGED <<server, job, seen>>

TakeBlocks ==
  /\ InPanel /\ panel.fetching # 0
  /\ Show([panel EXCEPT !.known = @ \cup {panel.fetching}])
  /\ UNCHANGED <<server, page, copy, job, calls, seen>>

\* Not fetched again before the page is turned or editing is entered anew.
LoseBlocks ==
  /\ InPanel /\ panel.fetching # 0
  /\ page' = RequestFailed(page)
  /\ panel' = [panel EXCEPT !.fetching = 0]
  /\ UNCHANGED <<server, copy, job, calls, seen>>

-----------------------------------------------------------------------------
(* Upload and analysis.                                                    *)

NoJob == [step |-> "none", polls |-> 0]

\* What IntakeFlow shows, and whether the upload panel within it takes a file.
Intake(p) ==
  CASE p.at = "upload"   -> "upload"
    [] p.at = "checking" -> "checking"
    [] p.at = "rejected" -> "unsupported"
    [] OTHER             -> "none"

PanelOf(intake) ==
  CASE intake = "upload"      -> "empty"
    [] intake = "checking"    -> "loading"
    [] intake = "unsupported" -> "error"
    [] OTHER                  -> "none"

UploadOffered(p) == PanelOf(Intake(p)) \in {"empty", "error"}

\* UploadControl takes a PDF of up to ten megabytes; the sample is on the server.
Files         == {"pdf", "large pdf", "other file", "sample"}
AcceptFile(f) == f \in {"pdf", "sample"}

StartCheck(f) ==
  /\ UploadOffered(page) /\ AcceptFile(f) /\ server.status # "ready"
  /\ page' = StartAnalysis(page) /\ job' = [NoJob EXCEPT !.step = "create"]
  /\ UNCHANGED <<server, copy, panel, calls, seen>>

CreateAssignment == server' = NewAssignment

\* create_assignment answers while the analysis is under way.
Created ==
  /\ job.step = "create"
  /\ CreateAssignment /\ job' = [NoJob EXCEPT !.step = "poll"]
  /\ UNCHANGED <<page, copy, panel, calls, seen>>

\* The analysis is left to AnalysisLifecycle: it ends well, badly or not at all.
Analyze ==
  /\ server.status = "analyzing"
  /\ server' \in {[server EXCEPT !.status = "failed"],
                  [server EXCEPT !.status = "ready", !.questions = Found]}
  /\ UNCHANGED <<page, copy, job, panel, calls, seen>>

Rejected == page' = AnalysisFailed(page) /\ job' = NoJob

\* Mutant of Polled: the page waits for the analysis however long it takes.
PolledForever(j) == j

Polled(j) == [j EXCEPT !.polls = @ + 1]

\* Mutant of PollsLeft: one poll too many.
PollsLeftAtBound(j) == j.polls <= MaxPolls

PollsLeft(j) == j.polls < MaxPolls

\* The code gives up at the four hundredth poll.
PollAnalysis ==
  /\ job.step = "poll"
  /\ CASE server.status = "analyzing" ->
            IF PollsLeft(job) THEN job' = Polled(job) /\ UNCHANGED page ELSE Rejected
       [] server.status = "failed" -> Rejected
       [] server.status = "ready"  -> job' = [job EXCEPT !.step = "setup"] /\ UNCHANGED page
  /\ UNCHANGED <<server, copy, panel, calls, seen>>

LoadSetup ==
  /\ job.step = "setup" /\ job' = NoJob
  /\ page' = AnalysisReady(page, server.version, IdSeq(server.questions), server.verified,
                           [q \in QuestionIds |-> NoAnswer], 1, NoCandidate)
  /\ copy' = SetupOf(server) /\ panel' = NewPanel
  /\ UNCHANGED <<server, calls, seen>>

CheckFails ==
  /\ job # NoJob /\ Rejected
  /\ UNCHANGED <<server, copy, panel, calls, seen>>

-----------------------------------------------------------------------------
(* The specification.                                                      *)

Init ==
  /\ server = NoAssignment /\ page = InitialContext
  /\ copy = SetupOf(NoAssignment) /\ job = NoJob /\ panel = NewPanel
  /\ calls = [i \in 1..MaxCalls |-> NoCall] /\ seen = {}

Check ==
  \/ \E f \in Files : StartCheck(f)
  \/ Created \/ Analyze \/ LoadSetup \/ CheckFails \/ PollAnalysis

Press ==
  \/ \E q \in QuestionIds : ChooseQuestion(q) \/ BeginSelection("replace", q)
  \/ \E q \in QuestionIds \cup {0} : AskRemove(q)
  \/ \E n \in Pages : TurnPage(n)
  \/ \E b \in Blocks : ToggleBlock(b)
  \/ \E blocks \in SUBSET Blocks : DragOver(blocks)
  \/ \E i \in 1..Len(copy.questions) : Reorder(i)
  \/ BeginSelection("add", 0) \/ CancelSelection \/ ChangeSelection
  \/ ShowSelectionPreview \/ SaveSelection
  \/ RemoveQuestion \/ ResetToDetected \/ Accept \/ EnterOrLeaveEdit

Answer(i) ==
  ServeCall(i) \/ LoseCall(i) \/ TakeRefusal(i) \/ TakePreview(i) \/ TakeMutation(i)
    \/ TakeAcceptance(i)

Next == Check \/ Press \/ TakeBlocks \/ LoseBlocks \/ \E i \in DOMAIN calls : Answer(i)

\* The page polls and a request ends; the analysis may never.
Spec ==
  /\ Init /\ [][Next]_vars
  /\ WF_vars(Created) /\ WF_vars(PollAnalysis) /\ WF_vars(LoadSetup)

-----------------------------------------------------------------------------
(* The set-up operations of the API as the panel is typed by them.          *)

\* A question set-up is of a version the server has reached.
SetupBody(s) ==
  /\ s.version <= server.version /\ {s.verified, s.corrected} \subseteq BOOLEAN
  /\ IsQuestions(s.questions)

PreviewExchange(c) ==
  /\ c.what = "preview" /\ c.o.kind = "preview"
  /\ c.o.q \in QuestionIds \cup {0} /\ c.o.n \in 0..PageCount /\ c.o.blocks \subseteq Blocks

\* A correction or the acceptance, answered with the set-up it made.
MutationExchange(c) ==
  /\ c.what \in {"mutate", "accept"}
  /\ c.ans = "none" =>
       /\ c.o.kind \in {"add", "replace", "remove", "reorder", "reset", "accept"}
       /\ c.what = "accept" <=> c.o.kind = "accept"
       /\ c.aver <= server.version
  /\ c.ans = "ok" => SetupBody(c.got)

Exchange(c) == c.ans = "failed" \/ PreviewExchange(c) \/ MutationExchange(c)

-----------------------------------------------------------------------------
(* Properties.                                                             *)

\* Every variable has its shape, every call under way is one of the API's exchanges,
\* and what the panel knows of the set-up is of a version the server has reached.
TypeOK ==
  /\ server.status \in {"none", "analyzing", "ready", "failed"}
  /\ server.verified \in BOOLEAN /\ Ids(server.questions) \subseteq QuestionIds
  /\ IsContext(page)
  /\ SetupBody(copy)
  /\ panel.selected \subseteq Blocks /\ panel.preview.blocks \subseteq Blocks
  /\ panel.n \in Pages /\ panel.fetching \in Pages \cup {0} /\ panel.known \subseteq Pages
  /\ {panel.pending, panel.broken} \subseteq BOOLEAN
  /\ job.polls <= MaxPolls
  /\ \A i \in DOMAIN calls : calls[i] \notin {NoCall, Over} => Exchange(calls[i])

\* "Looks right. Start" accepts the list of questions the student was looking at:
\* nothing the server marks as verified differs from what the page showed when
\* the button was pressed, whichever corrections were under way.
AcceptedIsShown ==
  [][~server.verified /\ server'.verified
       => \E i \in DOMAIN calls :
            /\ calls[i].what = "accept" /\ calls[i] # calls'[i]
            /\ calls[i].shown = server.questions]_vars

\* "The student MUST see exact server-reconstructed wording before an add or
\* replace is saved": a corrected question has a wording the panel has shown as a
\* preview.
SavedWasSeen ==
  \A x \in Range(server.questions) :
    x.blocks \in seen \/ x \in Range(Found)

\* The worksheet check ends, even when the analysis does not.
CheckingEnds == (page.at = "checking") ~> (page.at # "checking")
=============================================================================
