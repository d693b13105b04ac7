-------------------------- MODULE PrototypeWorkspace --------------------------
(***************************************************************************)
(* The first version of Claros, kept under /legacy: server/index.mjs with  *)
(* its assignments and placement plans in memory, the statechart           *)
(* domain/workspace-machine.ts, and the page ui/Workspace.tsx that sends   *)
(* the requests.                                                           *)
(*                                                                         *)
(* Each request has a flag of its own on the page, so that a plan, a       *)
(* commit and an export may be under way together; the panel for writing   *)
(* shows in every state that has no panel of its own.  A plan's token is   *)
(* its number; tokens are not used up, and the server refuses them from    *)
(* some moment on.  Dictation goes on when the panel it was started from   *)
(* is gone.  A restart of the server loses everything.                     *)
(*                                                                         *)
(* Only the buttons of the upload are disabled while a worksheet is        *)
(* checked: another one may be dropped.  Each upload makes an assignment   *)
(* of its own, and a session when its request names none the server knows; *)
(* the page keeps the assignment that arrives first, the browser the       *)
(* session that arrives last.  A session and an assignment are named here  *)
(* by the upload that made them.                                           *)
(***************************************************************************)
EXTENDS Naturals, Sequences, FiniteSets

CONSTANTS
  LastQuestion,  \* questions are 1..LastQuestion
  Texts, NoText,
  TooLong,       \* texts whose placement is blocked
  Unprintable,   \* texts the exported page cannot show
  MaxPlans,      \* bound: plans the server makes
  MaxLoads       \* bound: worksheets the page uploads

ASSUME PrototypeAssumption ==
  /\ LastQuestion \in Nat \ {0} /\ MaxLoads \in Nat
  /\ NoText \notin Texts /\ TooLong \subseteq Texts /\ Unprintable \subseteq Texts

VARIABLES
  answers,   \* the committedAnswers of each assignment on the server
  owner,     \* the session of each assignment the server has, 0 for the others
  sessions,  \* the sessions the server has
  plans,     \* the plans map
  cookie,    \* the session the browser names
  page,      \* the statechart, and the question the page shows
  loads,     \* the uploads
  calls,     \* the other requests under way, one of a kind
  dictating, \* the browser listens for an answer
  file,      \* the last exported worksheet
  asked,     \* history: the question and the draft when Review was pressed
  approved   \* history: the question and the answer in the review panel when
             \* Confirm was pressed

server == <<answers, owner, sessions, plans>>
past   == <<file, asked, approved>>
vars   == <<server, cookie, page, loads, calls, dictating, past>>

-----------------------------------------------------------------------------
(* The statechart.                                                         *)

Questions  == 1..LastQuestion
NoAnswers  == [q \in Questions |-> NoText]
NoPlan     == [q |-> 0, text |-> NoText, tok |-> 0]

\* `id` is the page's assignment.
NewPage == [at |-> "upload", id |-> 0, q |-> 1, draft |-> NoText, plan |-> NoPlan,
            answers |-> NoAnswers]

LoadWorksheet(p) ==
  IF p.at \in {"upload", "unsupported"} THEN [p EXCEPT !.at = "analyzing"] ELSE p

\* The assignment that comes is a new one.
Loaded(p, id) ==
  IF p.at = "analyzing"
  THEN [p EXCEPT !.at = "working", !.id = id, !.draft = NoText, !.plan = NoPlan]
  ELSE p

DraftChanged(p, text) ==
  IF p.at = "working" THEN [p EXCEPT !.draft = text, !.plan = NoPlan] ELSE p

Review(p) == IF p.at = "working" THEN [p EXCEPT !.at = "review"] ELSE p

PlanReady(p, plan) == IF p.at = "review" THEN [p EXCEPT !.plan = plan] ELSE p

EditAnswer(p) ==
  CASE p.at = "review"    -> [p EXCEPT !.at = "working", !.plan = NoPlan]
    [] p.at = "committed" -> [p EXCEPT !.at = "working", !.plan = NoPlan, !.draft = p.plan.text]
    [] OTHER              -> p

Commit(p) == IF p.at = "review" THEN [p EXCEPT !.at = "committing"] ELSE p

Committed(p, a) ==
  IF p.at = "committing" THEN [p EXCEPT !.at = "committed", !.answers = a, !.plan = NoPlan] ELSE p

Next1(p) ==
  CASE p.at = "working"   -> [p EXCEPT !.draft = NoText, !.plan = NoPlan]
    [] p.at = "committed" -> [p EXCEPT !.at = "working", !.draft = NoText, !.plan = NoPlan]
    [] OTHER              -> p

Export(p) ==
  IF p.at \in {"working", "committed", "complete"} THEN [p EXCEPT !.at = "exporting"] ELSE p

Exported(p) == IF p.at = "exporting" THEN [p EXCEPT !.at = "complete"] ELSE p

\* Any request's failure, whichever request the state waits for.
Failed(p) ==
  CASE p.at = "analyzing"                -> [p EXCEPT !.at = "unsupported"]
    [] p.at \in {"review", "exporting"}  -> [p EXCEPT !.at = "working"]
    [] p.at = "committing"               -> [p EXCEPT !.at = "review"]
    [] OTHER                             -> p

-----------------------------------------------------------------------------
(* The server.                                                             *)

\* planFor keeps the plan until it expires.
Planned(q, text) == Append(plans, [q |-> q, text |-> text])

\* Every question has an answer, and the page can show each.
CanExport(a) == \A q \in Questions : a[q] \notin {NoText} \cup Unprintable

-----------------------------------------------------------------------------
(* Requests.  One that is refused, and one whose reply is lost, fails.     *)

Uploads == 1..MaxLoads
NoLoad  == [st |-> "none", sid |-> 0]

Kinds  == {"plan", "commit", "export"}
NoCall == [st |-> "none", sid |-> 0, q |-> 0, text |-> NoText, tok |-> 0, got |-> NoAnswers]

Idle(kind)  == calls[kind].st = "none"
Sent(kind)  == calls[kind].st = "sent"
Ask(kind, q, text, tok) ==
  calls' = [calls EXCEPT ![kind] = [NoCall EXCEPT !.st = "sent", !.sid = cookie, !.q = q,
                                                  !.text = text, !.tok = tok]]

\* The request took effect; its reply may get lost.
Reply(kind, r) ==
  calls' \in {[calls EXCEPT ![kind] = [r EXCEPT !.st = "ok"]],
              [calls EXCEPT ![kind] = [NoCall EXCEPT !.st = "failed"]]}

Over(kind)     == calls' = [calls EXCEPT ![kind] = NoCall]
Arrived(kind)  == calls[kind].st = "ok" /\ Over(kind)

\* ownedAssignment: the session the request names has the page's assignment.
Owned(kind) ==
  /\ Sent(kind) /\ page.id \in Uploads
  /\ owner[page.id] # 0 /\ calls[kind].sid = owner[page.id]

Refused(kind) ==
  /\ Sent(kind) /\ calls' = [calls EXCEPT ![kind] = [NoCall EXCEPT !.st = "failed"]]
  /\ UNCHANGED <<server, cookie, page, loads, dictating, past>>

TakeFailure(kind) ==
  /\ calls[kind].st = "failed" /\ Over(kind) /\ page' = Failed(page)
  /\ UNCHANGED <<server, cookie, loads, dictating, past>>

\* sessionFor: the session the request names, or a new one.
SessionFor(i) == IF loads[i].sid \in sessions THEN loads[i].sid ELSE i

\* The assignment is the session's own.
NewAssignment(i) ==
  /\ answers' = [answers EXCEPT ![i] = NoAnswers]
  /\ owner' = [owner EXCEPT ![i] = SessionFor(i)]

LoadReply(i, st, sid) == loads' = [loads EXCEPT ![i] = [st |-> st, sid |-> sid]]

\* A worksheet that is not supported is refused when the session is there already.
ServeLoad(i) ==
  /\ loads[i].st = "sent" /\ sessions' = sessions \cup {SessionFor(i)}
  /\ \/ NewAssignment(i) /\ (LoadReply(i, "ok", SessionFor(i)) \/ LoadReply(i, "failed", 0))
     \/ UNCHANGED <<answers, owner>> /\ LoadReply(i, "failed", SessionFor(i))
  /\ UNCHANGED <<plans, cookie, page, calls, dictating, past>>

LoseLoad(i) ==
  /\ loads[i].st = "sent" /\ LoadReply(i, "failed", 0)
  /\ UNCHANGED <<server, cookie, page, calls, dictating, past>>

ServePlan ==
  /\ Owned("plan") /\ Len(plans) < MaxPlans
  /\ LET c == calls["plan"]
     IN  plans' = Planned(c.q, c.text) /\ Reply("plan", [c EXCEPT !.tok = Len(plans) + 1])
  /\ UNCHANGED <<answers, owner, sessions, cookie, page, loads, dictating, past>>

ServeCommit ==
  /\ Owned("commit")
  /\ LET plan == plans[calls["commit"].tok]
     IN  /\ plan.text \notin TooLong
         /\ answers' = [answers EXCEPT ![page.id][plan.q] = plan.text]
  /\ Reply("commit", [NoCall EXCEPT !.got = answers'[page.id]])
  /\ UNCHANGED <<owner, sessions, plans, cookie, page, loads, dictating, past>>

ServeExport ==
  /\ Owned("export") /\ CanExport(answers[page.id])
  /\ Reply("export", [NoCall EXCEPT !.got = answers[page.id]])
  /\ UNCHANGED <<server, cookie, page, loads, dictating, past>>

NoOwners  == [i \in Uploads |-> 0]
Untouched == [i \in Uploads |-> NoAnswers]

\* The answers, the plans and the sessions were in memory.
Restart ==
  /\ sessions # {} /\ sessions' = {} /\ owner' = NoOwners /\ answers' = Untouched /\ plans' = <<>>
  /\ UNCHANGED <<cookie, page, loads, calls, dictating, past>>

-----------------------------------------------------------------------------
(* The page: the upload, the panels of a question, and what they offer.    *)

\* A worksheet may be dropped as long as the page has none, also on disabled buttons.
LoadOffered      == page.id = 0
ConfirmOffered   == page.at = "review" /\ page.plan # NoPlan /\ page.plan.text \notin TooLong
EditOffered      == page.at \in {"review", "committed"}
NextOffered      == page.at = "committed" /\ page.q < LastQuestion
ExportOffered    == page.at = "committed" /\ page.q = LastQuestion
ExportAgain      == page.at = "complete"
Writing          == page.at \in {"working", "committing", "exporting"}

\* The answers laid over the worksheet.
Overlay(p) == {q \in Questions : p.answers[q] # NoText}

Load(i) ==
  /\ LoadOffered /\ loads[i] = NoLoad
  /\ page' = LoadWorksheet(page) /\ LoadReply(i, "sent", cookie)
  /\ UNCHANGED <<server, cookie, calls, dictating, past>>

\* The response has brought its cookie.
Answered(i, st) ==
  /\ loads[i].st = st /\ loads' = [loads EXCEPT ![i].st = "over"]
  /\ cookie' = IF loads[i].sid = 0 THEN cookie ELSE loads[i].sid

\* A late worksheet is dropped, but the page goes to the first question.
TakeLoad(i) ==
  /\ Answered(i, "ok") /\ page' = [Loaded(page, i) EXCEPT !.q = 1]
  /\ UNCHANGED <<server, calls, dictating, past>>

TakeLoadFailure(i) ==
  /\ Answered(i, "failed") /\ page' = Failed(page)
  /\ UNCHANGED <<server, calls, dictating, past>>

ChangeDraft(text) ==
  /\ Writing /\ page' = DraftChanged(page, text)
  /\ UNCHANGED <<server, cookie, loads, calls, dictating, past>>

\* "Dictate final answer"; a second recognition at a time is left out.
StartDictation ==
  /\ Writing /\ ~dictating /\ dictating' = TRUE
  /\ UNCHANGED <<server, cookie, page, loads, calls, past>>

\* What was heard is the draft of the question the student is at by then.
Dictated(text) ==
  /\ dictating /\ dictating' = FALSE /\ page' = DraftChanged(page, text)
  /\ UNCHANGED <<server, cookie, loads, calls, past>>

\* Only the Review button is held back while a plan is under way.
PressReview ==
  /\ Writing /\ page.draft # NoText /\ Idle("plan")
  /\ Ask("plan", page.q, page.draft, 0)
  /\ asked' = asked \cup {[q |-> page.q, text |-> page.draft]}
  /\ UNCHANGED <<server, cookie, page, loads, dictating, file, approved>>

TakePlan ==
  /\ Arrived("plan")
  /\ LET c == calls["plan"]
     IN  page' = PlanReady(Review(page), [q |-> c.q, text |-> c.text, tok |-> c.tok])
  /\ UNCHANGED <<server, cookie, loads, dictating, past>>

\* Mutant of Reviewed: the panel shows the draft.
ReviewedDraft(p) == [q |-> p.q, text |-> p.draft]

\* The review panel shows the plan's text under the question the page is at.
Reviewed(p) == [q |-> p.q, text |-> p.plan.text]

\* "Confirm & add".
Confirm ==
  /\ ConfirmOffered /\ Idle("commit")
  /\ Ask("commit", 0, NoText, page.plan.tok)
  /\ page' = Commit(page)
  /\ approved' = approved \cup {Reviewed(page)}
  /\ UNCHANGED <<server, cookie, loads, dictating, file, asked>>

TakeCommit ==
  /\ Arrived("commit") /\ page' = Committed(page, calls["commit"].got)
  /\ UNCHANGED <<server, cookie, loads, dictating, past>>

Edit ==
  /\ EditOffered
  /\ page' = IF page.answers[page.q] = NoText THEN EditAnswer(page)
             ELSE DraftChanged(EditAnswer(page), page.answers[page.q])
  /\ UNCHANGED <<server, cookie, loads, calls, dictating, past>>

NextQuestion ==
  /\ NextOffered
  /\ page' = [Next1(page) EXCEPT !.q = @ + 1]
  /\ UNCHANGED <<server, cookie, loads, calls, dictating, past>>

ExportPdf ==
  /\ ExportOffered \/ ExportAgain
  /\ Idle("export") /\ page' = Export(page) /\ Ask("export", 0, NoText, 0)
  /\ UNCHANGED <<server, cookie, loads, dictating, past>>

\* The file is saved whatever state the page is in by now.
TakeExport ==
  /\ Arrived("export") /\ file' = calls["export"].got /\ page' = Exported(page)
  /\ UNCHANGED <<server, cookie, loads, dictating, asked, approved>>

-----------------------------------------------------------------------------
(* The specification.                                                      *)

Init ==
  /\ answers = Untouched /\ owner = NoOwners /\ sessions = {} /\ plans = <<>>
  /\ cookie = 0 /\ page = NewPage /\ loads = [i \in Uploads |-> NoLoad]
  /\ calls = [kind \in Kinds |-> NoCall] /\ dictating = FALSE
  /\ file = NoAnswers /\ asked = {} /\ approved = {}

Server ==
  \/ Restart \/ ServePlan \/ ServeCommit \/ ServeExport
  \/ \E kind \in Kinds : Refused(kind)
  \/ \E i \in Uploads : ServeLoad(i) \/ LoseLoad(i)

Page ==
  \/ PressReview \/ Confirm \/ Edit \/ NextQuestion \/ ExportPdf
  \/ \E text \in Texts \cup {NoText} : ChangeDraft(text) \/ Dictated(text)
  \/ StartDictation
  \/ TakePlan \/ TakeCommit \/ TakeExport \/ \E kind \in Kinds : TakeFailure(kind)
  \/ \E i \in Uploads : Load(i) \/ TakeLoad(i) \/ TakeLoadFailure(i)

Next == Server \/ Page

Spec == Init /\ [][Next]_vars

-----------------------------------------------------------------------------
(* Properties.                                                             *)

\* The student pressed Review on that wording at that question, and later Confirm
\* with that wording in the panel.
WasReviewed(q, text) ==
  [q |-> q, text |-> text] \in asked /\ \E x \in approved : x.text = text

\* Nothing is on the server, laid over the worksheet or in the exported file but
\* wording that was sent to review from that very question and confirmed after it
\* was shown, and when the page says that the worksheet is complete the file has
\* an answer to every question.
StoredAsReviewed ==
  /\ \A i \in Uploads, q \in Questions : answers[i][q] # NoText => WasReviewed(q, answers[i][q])
  /\ \A q \in Overlay(page) : WasReviewed(q, page.answers[q])
  /\ file # NoAnswers \/ page.at = "complete" => \A q \in Questions : WasReviewed(q, file[q])

\* "Every answer was explicitly approved": when the page says so, every answer in
\* the file was confirmed in a review panel that showed it as the answer to its
\* question.  (The code does not keep this: the panel is headed by the question the
\* page is at, and the plan that comes back may be of another.)
CompleteAsApproved ==
  page.at = "complete" => \A q \in Questions : [q |-> q, text |-> file[q]] \in approved
=============================================================================
