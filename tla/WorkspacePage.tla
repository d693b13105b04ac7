---------------------------- MODULE WorkspacePage ----------------------------
(***************************************************************************)
(* The student's page, src/v2/WorkspaceShell.tsx, on an assignment whose   *)
(* question set-up is accepted: the statechart of WorkspaceMachine, the    *)
(* requests the shell has under way, the routes, the poll that loads an    *)
(* assignment or follows an export, and the server that answers.  The      *)
(* server applies the operations of AnswerWorkflow.                        *)
(*                                                                         *)
(* `mutationPendingRef` lets one mutation be under way: `op` is that       *)
(* mutation, its request and the server's answer, and what the code read   *)
(* from the page before it awaited.  The student, the voice agent and the  *)
(* browser's history act at any time meanwhile, requests and answers are   *)
(* lost, and a reload leaves a request behind that may still land.         *)
(*                                                                         *)
(* One clock value is enough here (no review expires): expiry is checked   *)
(* in AtomicAssignment.                                                    *)
(***************************************************************************)
EXTENDS WorkspaceMachine

\* Bounds of the instance.
CONSTANTS MaxVersion, MaxEdits, MaxMoves, MaxTokens, MaxExports, MaxTrips,
          LeftBehind  \* kinds of requests a reload may leave under way

\* What a reload may leave behind is an operation on an answer; an export goes on
\* by itself (FinishExport).  A worksheet has finitely many questions.
ASSUME PageAssumption ==
  /\ LeftBehind \subseteq {"rephrase", "review", "select", "confirm", "revise"}
  /\ IsFiniteSet(QuestionIds)
  /\ MaxVersion \in Nat

VARIABLES
  manifest,  \* the assignment on the server
  exports,   \* version -> status of its export record
  page,      \* the statechart's context
  op,        \* the mutation under way
  refs,      \* persistedCandidateRef, revisionSourceRef, exportIdempotencyRef,
             \* exportPollRetryRef
  route,     \* where the browser is
  shown,     \* the route the route effect last ran for
  poll,      \* what the route effect awaits
  settled,   \* the effects have seen the page as it is
  orphan,    \* the request a reload left behind
  trips,     \* how often the student left through the browser: back, forward, reload
  approved   \* history: the question and wording of every confirmed review

vars == <<manifest, exports, page, op, refs, route, shown, poll, settled, orphan, trips, approved>>

S == INSTANCE AnswerWorkflow
     WITH Detected <- QuestionIds, ReviewTTL <- 1, ExpiresAt <- 1
Now == 0

-----------------------------------------------------------------------------
(* The server's answers.  A refusal, an outage and a lost reply are the     *)
(* same to the page: no branch of the shell looks at the error.             *)

NoRequest == [what |-> "none"]
Failed    == [ok |-> FALSE]

\* An action begun at the bound may still store a candidate and a suggestion,
\* and a request left behind one thing more.
Versions == 1..(MaxVersion + 3)

Exported == {v \in Versions : exports[v] # "none"}

MapCandidate(q, c) ==
  [q |-> q, ver |-> c.ver, text |-> c.text,
   origin |-> IF c.origin = "claros_rephrase" THEN c.origin ELSE "student"]

MapAnswer(a) == IF a.rev = 0 THEN NoAnswer ELSE [rev |-> a.rev, text |-> a.text]

\* What a handled request leaves on the server and sends back: the body, or
\* nothing when the reply is lost.
Handled(n, body) == {[m |-> n, ans |-> body], [m |-> n, ans |-> Failed]}
Refused(m)       == {[m |-> m, ans |-> Failed]}

\* One operator for each operation of the API: r is the request, m the manifest.
CandidateReplies(m, r) ==
  IF /\ S!RequireCurrentVersion(m, r.aver)
     /\ S!CanReplaceCandidate(m, r.q, r.text, r.origin, r.prior, Now)
  THEN LET n == S!ReplaceCandidate(m, r.q, r.text, r.origin)
       IN  Handled(n, [ok |-> TRUE, version |-> n.version,
                       cand |-> MapCandidate(r.q, n.questions[r.q].current)])
  ELSE Refused(m)

\* The suggested wording is the provider's choice.
RephraseReplies(m, r) ==
  IF /\ S!RequireCurrentVersion(m, r.aver)
     /\ r.cand.q = r.q
     /\ S!CanRecordRephrase(m, r.q, r.cand.ver, Now)
  THEN UNION {LET n == S!RecordRephrase(m, r.q, text)
                  s == CHOOSE x \in n.questions[r.q].rephrases :
                         \A y \in n.questions[r.q].rephrases : y.suggestion <= x.suggestion
              IN  Handled(n, [ok |-> TRUE, version |-> n.version, cand |-> r.cand,
                              suggestion |-> [q |-> r.q, ver |-> s.suggestion, text |-> s.text,
                                              origin |-> "claros_rephrase"]])
              : text \in Texts \ {r.cand.text}}
  ELSE Refused(m)

ReviewReplies(m, r) ==
  IF /\ S!RequireCurrentVersion(m, r.aver)
     /\ r.cand.q = r.q
     /\ S!CanIssueReview(m, r.q, r.cand.ver, Now)
  THEN LET n == S!IssueReview(m, r.q, Now)
           s == n.questions[r.q]
       IN  Handled(n, [ok |-> TRUE, version |-> n.version, cand |-> MapCandidate(r.q, s.current),
                       review |-> [q |-> r.q, tok |-> Len(s.tokens), cand |-> s.current.ver,
                                   text |-> s.current.text, aver |-> n.version]])
  ELSE Refused(m)

\* A confirmation that was already made is answered with its receipt.
ConfirmReplies(m, r) ==
  LET made == S!ReplayReceipts(m, r.q, r.tok, r.cand.ver, r.aver, Now) # {}
      n    == IF made THEN m ELSE S!ConfirmCandidate(m, r.q, r.tok)
      k    == CHOOSE k \in S!ReceiptsOf(n, r.q, r.tok) : TRUE
  IN  IF /\ r.cand.q = r.q
         /\ made \/ S!CanConfirmCandidate(m, r.q, r.tok, r.cand.ver, r.aver, Now)
      THEN Handled(n, [ok |-> TRUE, version |-> k.version, answer |-> MapAnswer(k.answer)])
      ELSE Refused(m)

RevisionReplies(m, r) ==
  IF S!RequireCurrentVersion(m, r.aver) /\ S!CanBeginRevision(m, r.q, Now)
  THEN LET n == S!BeginRevision(m, r.q)
           s == n.questions[r.q]
       IN  Handled(n, [ok |-> TRUE, version |-> n.version, seed |-> s.revision.seed,
                       prior |-> s.confirmed.cand])
  ELSE Refused(m)

Replies(m, r) ==
  CASE r.what = "candidate" -> CandidateReplies(m, r)
    [] r.what = "rephrase"  -> RephraseReplies(m, r)
    [] r.what = "review"    -> ReviewReplies(m, r)
    [] r.what = "confirm"   -> ConfirmReplies(m, r)
    [] r.what = "revise"    -> RevisionReplies(m, r)

\* create_export: one record for each version, rendered within the request or
\* left to be finished.
ExportAllowed(m, r) == S!RequireCurrentVersion(m, r.aver) /\ S!ConfirmedQuestions(m) # {}

ExportStatuses(v) ==
  IF exports[v] = "complete" THEN {"complete"} ELSE {"creating", "complete", "failed"}

-----------------------------------------------------------------------------
(* Requests.                                                               *)

Request(what, q, aver) ==
  [what |-> what, q |-> q, aver |-> aver, cand |-> [NoCandidate EXCEPT !.q = q],
   text |-> NoText, origin |-> "student_verbatim", prior |-> 0, tok |-> 0]

NoOp == [kind |-> "none"]

\* `rev`, `text` and `epoch` are read from the page before the request is sent.
Await(kind, step, p, q, text, req) ==
  [kind |-> kind, step |-> step, q |-> q, rev |-> p.drafts[q].rev, text |-> text,
   epoch |-> p.epoch, follow |-> FALSE, req |-> req, ans |-> NoRequest]

ExportOp(version) ==
  [kind |-> "export", step |-> "main", q |-> 0, rev |-> 0, text |-> NoText, epoch |-> 0,
   follow |-> FALSE, req |-> Request("export", 0, version), ans |-> NoRequest]

NoPersisted == [aver |-> 0, cand |-> NoCandidate]
NoSource    == [q |-> 0, ver |-> 0]
NoAttempt   == [asked |-> 0, current |-> 0]
NoRefs      == [persisted |-> NoPersisted, source |-> NoSource, attempt |-> NoAttempt,
                pollRetry |-> FALSE]

Remembered(p, r) ==
  /\ p.cand.ver > 0
  /\ r.persisted.aver = p.version
  /\ r.persisted.cand.q = p.cand.q /\ r.persisted.cand.ver = p.cand.ver
  /\ r.persisted.cand.text = p.cand.text

\* Typed and spoken wording is sent as the student's own; wording that edits an
\* answer names the candidate it edits.
CandidateRequest(p, r) ==
  LET q == ActiveQuestion(p)
      direct == [Request("candidate", q, p.version) EXCEPT !.text = p.cand.text]
  IN  IF r.source.q = q
      THEN [direct EXCEPT !.origin = "student_edited", !.prior = r.source.ver]
      ELSE direct

AboutCandidate(what, q, version, c) == [Request(what, q, version) EXCEPT !.cand = c]

\* The request after the candidate is stored: `kind` is the server's operation.
Follow(kind, p, q, version, c) ==
  Await(kind, "main", p, q, p.drafts[q].text, AboutCandidate(kind, q, version, c))

\* requestRephrase and requestReview up to their first request.
Begin(kind, p) ==
  LET q == ActiveQuestion(p)
  IN  IF Remembered(p, refs) THEN Follow(kind, p, q, p.version, p.cand)
      ELSE Await(kind, "persist", p, q, p.cand.text, CandidateRequest(p, refs))

\* Mutant of StillThere: the draft's revision and wording are not compared.
StillThereAnyText(p, o) == ActiveQuestion(p) = o.q /\ p.epoch = o.epoch

StillThere(p, o) ==
  /\ ActiveQuestion(p) = o.q
  /\ p.drafts[o.q].rev = o.rev /\ p.drafts[o.q].text = o.text
  /\ p.epoch = o.epoch

Persisted(r, q, version, c) ==
  [r EXCEPT !.persisted = [aver |-> version, cand |-> c],
            !.source = IF @.q = q THEN [q |-> q, ver |-> c.ver] ELSE @]

-----------------------------------------------------------------------------
(* What the panels offer.                                                  *)

ConversationOffers(p)  == {"type"} \cup (IF HasCandidate(p) THEN {"clearer", "review"} ELSE {})
RephrasingOffers(p)    == {"keep"} \cup (IF p.error THEN {"clearer"} ELSE {})
ComparisonOffers(p)    == {"keep", "use", "change"}
ExactReviewOffers(p)   == {"change", "confirm"}
AnswerAddedOffers(p)   == {"edit", "continue"}
WorksheetOffers(p)     == {"edit", "answer"} \cup (IF HasConfirmedAnswer(p) THEN {"export"} ELSE {})
ExportFailureOffers(p) == {"export", "answers"}
ExportCompleteOffers(p) == {"worksheet"}

\* taskContent: the panel shown in each state.
Offers(p) ==
  CASE ~Loaded(p) -> {}
    [] Loaded(p) /\ p.at = "conversation"     -> ConversationOffers(p)
    [] Loaded(p) /\ p.at = "rephrasing" /\ HasCandidate(p) -> RephrasingOffers(p)
    [] Loaded(p) /\ p.at = "comparison" /\ p.suggestion # NoCandidate -> ComparisonOffers(p)
    [] Loaded(p) /\ p.at = "exactReview" /\ HasCandidate(p) -> ExactReviewOffers(p)
    [] Loaded(p) /\ p.at = "answerAdded" /\ ActiveQuestion(p) \in Answered(p) -> AnswerAddedOffers(p)
    [] Loaded(p) /\ p.at = "worksheetReview"  -> WorksheetOffers(p)
    [] Loaded(p) /\ p.at = "exportFailed" /\ p.error -> ExportFailureOffers(p)
    [] Loaded(p) /\ p.at = "exportComplete" /\ p.result # 0 -> ExportCompleteOffers(p)
    [] OTHER -> {}

\* "Review answers" in the header.
LinkToReview(p) == Loaded(p) /\ p.at # "worksheetReview" /\ ~InSetup(p)

NoRoute     == [mode |-> "none", id |-> 0]
Question    == [mode |-> "question", id |-> 0]
Review      == [mode |-> "review", id |-> 0]
Export(id)  == [mode |-> "export", id |-> id]

-----------------------------------------------------------------------------
(* Steps of the page.                                                      *)

\* A change of the snapshot makes the effects run again; only in `confirming` do
\* they do anything.
Send(p) == page' = p /\ settled' = (p.at # "confirming" \/ (settled /\ p = page))

\* Events of the user come after the effects of the last change.
Ready   == settled /\ shown = route
Idle    == op = NoOp
Room    == manifest.version < MaxVersion
\* Leaving through the browser uses up an edit and a move.
Writable == MapThenSumSet(LAMBDA q : page.drafts[q].rev, QuestionIds) + trips < MaxEdits
Movable  == page.epoch + trips < MaxMoves

Init ==
  /\ manifest = S!AcceptQuestionSetup(S!FinishAnalysis(S!NewManifest))
  /\ exports = [v \in Versions |-> "none"]
  /\ page = InitialContext
  /\ op = NoOp /\ orphan = NoRequest /\ trips = 0
  /\ refs = NoRefs
  /\ route = Question /\ shown = NoRoute /\ poll = NoOp
  /\ settled = TRUE
  /\ approved = {}

\* The student types, or the voice agent hands over dictated words.
Type(text) ==
  /\ Ready /\ Writable /\ "type" \in Offers(page) /\ text # page.cand.text
  /\ Send(CandidateChanged(page, text))
  /\ UNCHANGED <<manifest, exports, op, refs, route, shown, poll, orphan, trips, approved>>

Dictate(text) ==
  /\ Ready /\ Writable
  /\ VoiceCaptured(page, text) # page
  /\ Send(VoiceCaptured(page, text))
  /\ UNCHANGED <<manifest, exports, op, refs, route, shown, poll, orphan, trips, approved>>

\* The voice agent's tools reach requestRephrase and requestReview in every state
\* of the page that has a candidate.
VoiceMayAsk == HasQuestion(page) /\ HasCandidate(page)

AskRephrase ==
  /\ Ready
  /\ "clearer" \in Offers(page) \/ VoiceMayAsk
  /\ Idle /\ Room
  /\ Send(RequestRephrase(page))
  /\ op' = Begin("rephrase", RequestRephrase(page))
  /\ UNCHANGED <<manifest, exports, refs, route, shown, poll, orphan, trips, approved>>

AskReview ==
  /\ Ready
  /\ "review" \in Offers(page) \/ VoiceMayAsk
  /\ Idle /\ Room
  /\ Len(manifest.questions[ActiveQuestion(page)].tokens) < MaxTokens
  /\ op' = Begin("review", page)
  /\ UNCHANGED <<manifest, exports, page, refs, route, shown, poll, settled, orphan, trips, approved>>

\* reviewComparisonSelection: nothing of what was on the page is remembered.
KeepOriginal ==
  /\ Ready /\ "keep" \in Offers(page) /\ Idle /\ Room
  /\ Len(manifest.questions[ActiveQuestion(page)].tokens) < MaxTokens
  /\ LET c == IF page.original # NoCandidate THEN page.original ELSE page.cand
         q == ActiveQuestion(page)
     IN  op' = [Follow("review", page, q, page.version, c) EXCEPT !.kind = "select"]
  /\ UNCHANGED <<manifest, exports, page, refs, route, shown, poll, settled, orphan, trips, approved>>

UseSuggestion ==
  /\ Ready /\ "use" \in Offers(page) /\ Idle /\ Room
  /\ Len(manifest.questions[ActiveQuestion(page)].tokens) < MaxTokens
  /\ LET q == ActiveQuestion(page)
         s == page.suggestion
         stored == refs.persisted
         known == /\ stored.aver = page.version
                  /\ stored.cand.origin = "claros_rephrase" /\ stored.cand.text = s.text
         choose == [Request("candidate", q, page.version) EXCEPT
                      !.text = s.text, !.origin = "claros_rephrase", !.prior = s.ver]
     IN  op' = IF known
               THEN [Follow("review", page, q, page.version, stored.cand) EXCEPT !.kind = "select"]
               ELSE Await("select", "persist", page, q, s.text, choose)
  /\ UNCHANGED <<manifest, exports, page, refs, route, shown, poll, settled, orphan, trips, approved>>

Change ==
  /\ Ready /\ "change" \in Offers(page)
  /\ Send(ChangeAnswer(page))
  /\ UNCHANGED <<manifest, exports, op, refs, route, shown, poll, orphan, trips, approved>>

\* The button, or the canonical phrase heard in exact review.
PressConfirm ==
  /\ Ready /\ "confirm" \in Offers(page) /\ Room
  /\ Send(Confirm(page))
  /\ approved' = IF Confirm(page).at = "confirming"
                 THEN approved \cup {<<page.review.q, page.cand.text>>} ELSE approved
  /\ UNCHANGED <<manifest, exports, op, refs, route, shown, poll, orphan, trips>>

\* The effects after a render; the one that sends a confirmation does nothing
\* while another mutation is under way.
RunEffects ==
  /\ ~settled /\ settled' = TRUE
  /\ op' = IF page.at = "confirming" /\ Idle /\ page.review # NoReview /\ HasCandidate(page)
           THEN Await("confirm", "main", page, page.review.q, page.cand.text,
                      [AboutCandidate("confirm", page.review.q, page.review.aver, page.cand)
                         EXCEPT !.tok = page.review.tok])
           ELSE op
  /\ UNCHANGED <<manifest, exports, page, refs, route, shown, poll, orphan, trips, approved>>

Edit(q) ==
  /\ Ready /\ "edit" \in Offers(page) /\ Idle /\ Room
  /\ q \in Answered(page) /\ Shows(page, q)
  /\ page.at = "answerAdded" => q = ActiveQuestion(page)
  /\ op' = [Await("revise", "main", page, q, NoText, Request("revise", q, page.version))
              EXCEPT !.follow = (page.at = "worksheetReview")]
  /\ UNCHANGED <<manifest, exports, page, refs, route, shown, poll, settled, orphan, trips, approved>>

Continue ==
  /\ Ready /\ "continue" \in Offers(page) /\ Movable
  /\ Send(ContinueToNext(page))
  /\ route' = IF HasNextQuestion(page) THEN route ELSE Review
  /\ UNCHANGED <<manifest, exports, op, refs, shown, poll, orphan, trips, approved>>

\* "Answer question" in the worksheet review.
Answer(q) ==
  /\ Ready /\ "answer" \in Offers(page) /\ Movable
  /\ Shows(page, q) /\ q \notin Answered(page)
  /\ Send(GoToQuestion(page, q)) /\ route' = Question
  /\ UNCHANGED <<manifest, exports, op, refs, shown, poll, orphan, trips, approved>>

\* The voice agent moves to another question.
VoiceNavigate(q) ==
  /\ Ready /\ Movable
  /\ Shows(page, q) /\ q # ActiveQuestion(page)
  /\ Send(GoToQuestion(page, q))
  /\ refs' = [refs EXCEPT !.persisted = NoPersisted]
  /\ UNCHANGED <<manifest, exports, op, route, shown, poll, orphan, trips, approved>>

OpenReview ==
  /\ Ready
  /\ LinkToReview(page) \/ "worksheet" \in Offers(page)
  /\ Send(OpenWorksheetReview(page)) /\ route' = Review
  /\ UNCHANGED <<manifest, exports, op, refs, shown, poll, orphan, trips, approved>>

\* "Continue by typing", offered when the voice is lost.
TypeInstead ==
  /\ Ready /\ Loaded(page)
  /\ Send(ContinueByTyping(page))
  /\ UNCHANGED <<manifest, exports, op, refs, route, shown, poll, orphan, trips, approved>>

ReviewAnswersAfterFailure ==
  /\ Ready /\ "answers" \in Offers(page)
  /\ Send(ReviewAnswers(page))
  /\ UNCHANGED <<manifest, exports, op, refs, route, shown, poll, orphan, trips, approved>>

\* exportAssignment.  A failed poll is only taken up again; otherwise the chart
\* moves on before the code looks whether a mutation is under way.
PressExport ==
  /\ Ready /\ "export" \in Offers(page)
  /\ IF route.mode = "export" /\ refs.pollRetry
     THEN /\ Send(ExportPending(page, 0))
          /\ refs' = [refs EXCEPT !.pollRetry = FALSE]
          /\ shown' = NoRoute /\ UNCHANGED op
     ELSE /\ page.version \in Exported \/ Cardinality(Exported) < MaxExports
          /\ Send(IF page.at = "exportFailed" THEN RetryExport(page) ELSE CreateExport(page))
          /\ LET attempt == IF refs.attempt.current = page.version THEN refs.attempt
                            ELSE [asked |-> page.version, current |-> page.version]
             IN  /\ op' = IF Idle THEN ExportOp(attempt.asked) ELSE op
                 /\ refs' = IF Idle THEN [refs EXCEPT !.attempt = attempt] ELSE refs
          /\ UNCHANGED shown
  /\ UNCHANGED <<manifest, exports, route, poll, orphan, trips, approved>>

-----------------------------------------------------------------------------
(* The server and the network.                                             *)

Waiting == op # NoOp /\ op.ans = NoRequest

\* The server handles the request; its reply is kept, refused or lost.
Serve ==
  /\ Waiting /\ op.kind # "export"
  /\ \E h \in Replies(manifest, op.req) : manifest' = h.m /\ op' = [op EXCEPT !.ans = h.ans]
  /\ UNCHANGED <<exports, page, refs, route, shown, poll, settled, orphan, trips, approved>>

ServeExport ==
  /\ Waiting /\ op.kind = "export" /\ ExportAllowed(manifest, op.req)
  /\ LET v == manifest.version
     IN  \E status \in ExportStatuses(v) :
           /\ exports' = [exports EXCEPT ![v] = status]
           /\ op' \in {[op EXCEPT !.ans = [ok |-> TRUE, version |-> v, status |-> status]],
                       [op EXCEPT !.ans = Failed]}
  /\ UNCHANGED <<manifest, page, refs, route, shown, poll, settled, orphan, trips, approved>>

\* The request is refused, or never arrives.
LoseRequest ==
  /\ Waiting
  /\ op' = [op EXCEPT !.ans = Failed]
  /\ UNCHANGED <<manifest, exports, page, refs, route, shown, poll, settled, orphan, trips, approved>>

FinishExport(v) ==
  /\ exports[v] = "creating"
  /\ \E status \in {"complete", "failed"} : exports' = [exports EXCEPT ![v] = status]
  /\ UNCHANGED <<manifest, page, op, refs, route, shown, poll, settled, orphan, trips, approved>>

\* A request the page of before the reload had sent.
ServeOrphan ==
  /\ orphan # NoRequest /\ orphan' = NoRequest
  /\ manifest' \in {h.m : h \in Replies(manifest, orphan)}
  /\ UNCHANGED <<exports, page, op, refs, route, shown, poll, settled, trips, approved>>

-----------------------------------------------------------------------------
(* The page takes an answer in.                                            *)

\* What a failed request does: only a rephrase and a confirmation have a
\* failure event of their own.
FailedEvent(p) ==
  CASE op.kind = "rephrase" -> RephraseFailed(p)
    [] op.kind = "confirm"  -> ConfirmFailed(p)
    [] op.kind = "export"   -> ExportFailed(p, 0)
    [] OTHER                -> RequestFailed(p)

TakeFailure ==
  /\ op # NoOp /\ op.ans = Failed
  /\ Send(FailedEvent(page)) /\ op' = NoOp
  /\ UNCHANGED <<manifest, exports, refs, route, shown, poll, orphan, trips, approved>>

\* persistCurrentCandidate after its await, for a rephrase or a review: the rest
\* is given up silently if the page has moved on.
TakePersisted ==
  /\ op # NoOp /\ op.kind \in {"rephrase", "review"} /\ op.step = "persist"
  /\ op.ans \notin {NoRequest, Failed}
  /\ LET a == op.ans
         p == CandidatePersisted(page, a.version, a.cand, op.q, op.rev, op.epoch)
     IN  /\ Send(p)
         /\ IF StillThere(p, op)
            THEN /\ refs' = Persisted(refs, op.q, a.version, a.cand)
                 /\ op' = Follow(op.kind, p, op.q, a.version, a.cand)
            ELSE UNCHANGED refs /\ op' = NoOp
  /\ UNCHANGED <<manifest, exports, route, shown, poll, orphan, trips, approved>>

\* The chosen suggestion is stored: the event names no revision and no epoch.
TakeSelected ==
  /\ op # NoOp /\ op.kind = "select" /\ op.step = "persist"
  /\ op.ans \notin {NoRequest, Failed}
  /\ LET a == op.ans
         p == CandidatePersisted(page, a.version, a.cand, a.cand.q, -1, -1)
     IN  /\ Send(p)
         /\ refs' = Persisted(refs, op.q, a.version, a.cand)
         /\ op' = [Follow("review", p, op.q, a.version, a.cand) EXCEPT !.kind = "select"]
  /\ UNCHANGED <<manifest, exports, route, shown, poll, orphan, trips, approved>>

TakeRephrase ==
  /\ op # NoOp /\ op.kind = "rephrase" /\ op.step = "main"
  /\ op.ans \notin {NoRequest, Failed}
  /\ IF StillThere(page, op)
     THEN /\ refs' = [refs EXCEPT !.persisted = [aver |-> op.ans.version, cand |-> op.req.cand]]
          /\ Send(RephraseReady(page, op.ans.cand, op.ans.suggestion, op.ans.version))
     ELSE UNCHANGED <<refs, page, settled>>
  /\ op' = NoOp
  /\ UNCHANGED <<manifest, exports, route, shown, poll, orphan, trips, approved>>

\* The review of a comparison's selection is shown wherever the student is.
TakeReview ==
  /\ op # NoOp /\ op.kind \in {"review", "select"} /\ op.step = "main"
  /\ op.ans \notin {NoRequest, Failed}
  /\ IF op.kind = "select" \/ StillThere(page, op)
     THEN /\ refs' = [refs EXCEPT !.persisted = [aver |-> op.ans.version, cand |-> op.ans.cand]]
          /\ Send(ReviewReady(page, op.ans.cand, op.ans.review, op.ans.version))
     ELSE UNCHANGED <<refs, page, settled>>
  /\ op' = NoOp
  /\ UNCHANGED <<manifest, exports, route, shown, poll, orphan, trips, approved>>

TakeConfirmed ==
  /\ op # NoOp /\ op.kind = "confirm" /\ op.ans \notin {NoRequest, Failed}
  /\ refs' = [NoRefs EXCEPT !.pollRetry = refs.pollRetry]
  /\ Send(ConfirmSucceeded(page, op.ans.answer, op.ans.version))
  /\ op' = NoOp
  /\ UNCHANGED <<manifest, exports, route, shown, poll, orphan, trips, approved>>

TakeRevision ==
  /\ op # NoOp /\ op.kind = "revise" /\ op.ans \notin {NoRequest, Failed}
  /\ refs' = [refs EXCEPT !.persisted = NoPersisted,
                          !.source = [q |-> op.q, ver |-> op.ans.prior]]
  /\ Send(RevisionReady(page, op.q, op.ans.seed, op.ans.version))
  /\ route' = IF op.follow THEN Question ELSE route
  /\ op' = NoOp
  /\ UNCHANGED <<manifest, exports, shown, poll, orphan, trips, approved>>

TakeExport ==
  /\ op # NoOp /\ op.kind = "export" /\ op.ans \notin {NoRequest, Failed}
  /\ LET v == op.ans.version
     IN  CASE op.ans.status = "complete" ->
                /\ Send(ExportSucceeded(page, v, v)) /\ route' = Export(v)
                /\ refs' = [refs EXCEPT !.attempt = NoAttempt]
           [] op.ans.status = "failed" ->
                /\ Send(ExportFailed(page, v)) /\ UNCHANGED route
                /\ refs' = [refs EXCEPT !.attempt = NoAttempt]
           [] OTHER ->
                /\ Send(ExportPending(page, v)) /\ route' = Export(v)
                /\ refs' = [refs EXCEPT !.attempt = [asked |-> op.req.aver, current |-> v]]
  /\ op' = NoOp
  /\ UNCHANGED <<manifest, exports, shown, poll, orphan, trips, approved>>

-----------------------------------------------------------------------------
(* Routes, loading and polling.                                            *)

\* Back, forward, or an address of this assignment.
Browse(r) ==
  /\ Ready /\ Loaded(page) /\ r # route
  /\ trips < MaxTrips /\ trips' = trips + 1
  /\ route' = r
  /\ UNCHANGED <<manifest, exports, page, op, refs, shown, poll, settled, orphan, approved>>

Reload ==
  /\ Ready /\ trips < MaxTrips /\ trips' = trips + 1
  /\ Loaded(page) \/ page.at = "rejected"
  /\ page' = InitialContext /\ op' = NoOp /\ refs' = NoRefs /\ settled' = TRUE
  /\ shown' = NoRoute /\ poll' = NoOp
  /\ orphan' = IF Waiting /\ op.kind \in LeftBehind THEN op.req ELSE NoRequest
  /\ UNCHANGED <<manifest, exports, route, approved>>

Loading      == [kind |-> "assignment"]
Following(v) == [kind |-> "export", id |-> v]

\* The effect aborts what the last route awaited.
EnterRoute ==
  /\ shown # route /\ shown' = route
  /\ LET retry == refs.pollRetry /\ route.mode = "export"
         p == CASE ~Loaded(page) -> StartAnalysis(Reset(page))
                [] Loaded(page) /\ route.mode = "review" /\ page.at # "worksheetReview" ->
                     OpenReviewRoute(page)
                [] /\ Loaded(page) /\ route.mode = "question"
                   /\ page.at \in {"worksheetReview", "exporting", "exportFailed", "exportComplete"} ->
                     OpenAssignmentRoute(page)
                [] /\ Loaded(page) /\ route.mode = "export"
                   /\ ~(page.at = "exportComplete" /\ page.result = route.id) ->
                     ExportPending(page, 0)
                [] OTHER -> page
     IN  /\ Send(p)
         /\ poll' = CASE ~Loaded(page) -> Loading
                      [] Loaded(page) /\ p # page /\ route.mode = "export" -> Following(route.id)
                      [] OTHER -> NoOp
         /\ refs' = [refs EXCEPT !.pollRetry = retry,
                                 !.persisted = IF Loaded(page) THEN @ ELSE NoPersisted]
  /\ UNCHANGED <<manifest, exports, op, route, orphan, trips, approved>>

\* The questions as the worksheet has them.
Order == CHOOSE s \in [1..Cardinality(QuestionIds) -> QuestionIds] :
           \A i, j \in DOMAIN s : i < j => s[i] < s[j]

\* mapAssignment: the first question with a draft and no answer, else the first
\* without an answer, else the first.
Drafted(m) == {i \in DOMAIN Order : /\ S!HasCandidate(m.questions[Order[i]])
                                   /\ ~S!HasAnswer(m.questions[Order[i]])}
Open(m)    == {i \in DOMAIN Order : ~S!HasAnswer(m.questions[Order[i]])}

RestoredIndex(m) ==
  CASE Drafted(m) # {} -> Min(Drafted(m))
    [] Drafted(m) = {} /\ Open(m) # {} -> Min(Open(m))
    [] OTHER -> 1

Restored(m) ==
  LET q == Order[RestoredIndex(m)]
  IN  [kind |-> "setup", active |-> RestoredIndex(m),
       confirmed |-> [x \in QuestionIds |-> MapAnswer(m.questions[x].confirmed)],
       cand |-> IF RestoredIndex(m) \in Drafted(m) THEN MapCandidate(q, m.questions[q].current)
                ELSE NoCandidate]

LoadAssignment ==
  /\ poll.kind = "assignment" /\ poll' = Restored(manifest)
  /\ UNCHANGED <<manifest, exports, page, op, refs, route, shown, settled, orphan, trips, approved>>

\* The version and the questions are those of the second read, getQuestionSetup.
RestoredPage(got, version, mode) ==
  LET p == AnalysisReady(page, version, Order, TRUE, got.confirmed, got.active, got.cand)
  IN  CASE mode = "question" -> QuestionSetupAccepted(p, version, Order, TRUE)
        [] mode = "review"   -> OpenReviewRoute(p)
        [] OTHER             -> ExportPending(p, 0)

LoadSetup ==
  /\ poll.kind = "setup"
  /\ Send(RestoredPage(poll, manifest.version, shown.mode))
  /\ refs' = [refs EXCEPT !.persisted =
                 IF poll.cand = NoCandidate THEN NoPersisted
                 ELSE [aver |-> manifest.version, cand |-> poll.cand]]
  /\ poll' = IF shown.mode = "export" THEN Following(shown.id) ELSE NoOp
  /\ UNCHANGED <<manifest, exports, op, route, shown, orphan, trips, approved>>

LoadFails ==
  /\ poll.kind \in {"assignment", "setup"} /\ poll' = NoOp
  /\ Send(AnalysisFailed(page))
  /\ UNCHANGED <<manifest, exports, op, refs, route, shown, orphan, trips, approved>>

\* get_export: the status of one export, and the version of the assignment now.
GetExport(id) == [status |-> exports[id], version |-> manifest.version]

\* One status of the export, as applyExportStatus takes it in.
PollExport ==
  /\ poll.kind = "export" /\ exports[poll.id] # "none"
  /\ LET status == GetExport(poll.id).status
         v      == GetExport(poll.id).version
         ended  == status # "creating"
         kept   == IF refs.attempt = NoAttempt THEN NoAttempt ELSE [refs.attempt EXCEPT !.current = v]
     IN  /\ Send(CASE status = "complete" -> ExportRestored(page, poll.id, v)
                   [] status = "failed"   -> ExportFailed(page, v)
                   [] OTHER               -> ExportPending(page, v))
         /\ refs' = [refs EXCEPT !.pollRetry = FALSE,
                                 !.attempt = IF ended THEN NoAttempt ELSE kept]
         /\ poll' = IF ended THEN NoOp ELSE poll
  /\ UNCHANGED <<manifest, exports, op, route, shown, orphan, trips, approved>>

PollFails ==
  /\ poll.kind = "export" /\ poll' = NoOp
  /\ Send(ExportFailed(page, 0))
  /\ refs' = [refs EXCEPT !.pollRetry = TRUE]
  /\ UNCHANGED <<manifest, exports, op, route, shown, orphan, trips, approved>>

-----------------------------------------------------------------------------
(* The specification.                                                      *)

Write ==
  \/ \E text \in Texts : Type(text) \/ Dictate(text)
  \/ AskRephrase \/ AskReview \/ KeepOriginal \/ UseSuggestion \/ Change \/ PressConfirm

Move ==
  \/ Continue \/ OpenReview \/ TypeInstead \/ ReviewAnswersAfterFailure \/ PressExport
  \/ \E q \in QuestionIds : Edit(q) \/ Answer(q) \/ VoiceNavigate(q)
  \/ \E r \in {Question, Review} \cup {Export(v) : v \in Exported} : Browse(r)
  \/ Reload

Server == Serve \/ ServeExport \/ LoseRequest

Take ==
  \/ TakeFailure \/ TakePersisted \/ TakeSelected \/ TakeRephrase \/ TakeReview
  \/ TakeConfirmed \/ TakeRevision \/ TakeExport

Load == LoadAssignment \/ LoadSetup \/ LoadFails \/ PollExport \/ PollFails

Next ==
  \/ Write \/ Move \/ Server \/ Take \/ Load
  \/ RunEffects \/ EnterRoute \/ ServeOrphan
  \/ \E v \in Versions : FinishExport(v)

Spec == Init /\ [][Next]_vars

-----------------------------------------------------------------------------
(* The operations of the API as the page's client is typed by them: what a  *)
(* request r holds, and its answer a once there is a body.                  *)

HasBody(a) == a \notin {NoRequest, Failed}

CandidateExchange(r, a) ==
  /\ r.text \in Texts /\ r.origin \in S!Origins
  /\ HasBody(a) => a.cand \in Candidate

RephraseExchange(r, a) ==
  /\ r.cand \in Candidate \cup {NoCandidate}
  /\ HasBody(a) => {a.cand, a.suggestion} \subseteq Candidate

ReviewExchange(a) ==
  HasBody(a) => /\ a.cand \in Candidate
                /\ a.review \in ReviewSnapshot /\ a.review.aver \in Versions

ConfirmExchange(r, a) ==
  /\ r.tok \in Nat \ {0}
  /\ HasBody(a) => a.answer \in ConfirmedAnswer

RevisionExchange(a) == HasBody(a) => a.seed \in Texts

\* One operation on an answer.
Exchange(r, a) ==
  /\ r.q \in QuestionIds /\ r.aver \in Versions
  /\ HasBody(a) => a.version \in Versions
  /\ \/ r.what = "candidate" /\ CandidateExchange(r, a)
     \/ r.what = "rephrase" /\ RephraseExchange(r, a)
     \/ r.what = "review" /\ ReviewExchange(a)
     \/ r.what = "confirm" /\ ConfirmExchange(r, a)
     \/ r.what = "revise" /\ RevisionExchange(a)

ExportExchange(r, a) ==
  /\ r.aver \in Versions
  /\ HasBody(a) => a.version \in Versions /\ a.status \in {"creating", "complete", "failed"}

\* What the page keeps of an assignment it loads.
AssignmentBody(w) ==
  /\ w.active \in Nat \ {0} /\ (Order # <<>> => w.active \in DOMAIN Order)
  /\ w.confirmed \in [QuestionIds -> ConfirmedAnswer \cup {NoAnswer}]
  /\ w.cand \in Candidate \cup {NoCandidate}

-----------------------------------------------------------------------------
(* Properties.                                                             *)

\* Every variable of the page has its shape, and every request and answer under way
\* is one of the API's, about a version within the bound.
TypeOK ==
  /\ S!IsManifest(manifest)
  /\ exports \in [Versions -> {"none", "creating", "complete", "failed"}]
  /\ IsContext(page)
  /\ Loaded(page) => page.version > 0
  /\ {settled, refs.pollRetry} \subseteq BOOLEAN
  /\ op # NoOp =>
       IF op.kind = "export" THEN ExportExchange(op.req, op.ans)
       ELSE /\ op.kind \in {"rephrase", "review", "select", "confirm", "revise"}
            /\ Exchange(op.req, op.ans)
  /\ orphan # NoRequest => Exchange(orphan, NoRequest)
  /\ poll.kind = "setup" => AssignmentBody(poll)
  /\ {route.mode, shown.mode} \subseteq {"none", "question", "review", "export"}
  /\ approved \subseteq QuestionIds \X Texts

\* Every answer the server holds is wording the student approved for that very
\* question in exact review, whatever requests were lost, repeated or left
\* behind: "Nothing is added until you confirm the exact text".
ExactTextConfirmed ==
  \A q \in QuestionIds :
    LET a == manifest.questions[q].confirmed
    IN  a.rev > 0 => <<q, a.text>> \in approved

\* The page never claims more than the server holds: its version is one the
\* server has reached, and an answer it shows as added is one a confirmation on
\* the server recorded under that number, with that wording.  (Not always for
\* that question: the README says when.)
PageNeverAhead ==
  /\ page.version <= manifest.version
  /\ \A q \in Answered(page) :
       \E r \in manifest.receipts : MapAnswer(r.answer) = page.confirmed[q]

\* A review that was asked for from the writing of an answer opens only for the
\* question that is still active, and on the wording on the page, if the page has
\* not put it away.  (The README says when that is not the latest draft.)
ReviewShowsLatestWording ==
  [][(op # NoOp /\ op.kind = "review" /\ op' # op /\ page'.review # page.review
      /\ page'.review # NoReview)
       => /\ page'.review.q = ActiveQuestion(page)
          /\ HasCandidate(page) => page'.review.text = page.cand.text]_vars

\* Storing a candidate never replaces words the student wrote while it was being
\* stored.
TypedWordsKept ==
  [][\A q \in QuestionIds :
       (/\ op # NoOp /\ op.kind \in {"rephrase", "review"} /\ op' # op
        /\ Loaded(page') /\ page.drafts[q].rev > op.rev)
         => page'.drafts[q].text = page.drafts[q].text]_vars

\* A page that is loaded again opens at the question the assignment was restored
\* for: the one with a draft, or the first without an answer.  (The code does not
\* keep this: accepting the set-up anew goes to the first question.)
ReloadRestoresQuestion ==
  [][~Loaded(page) /\ Loaded(page') /\ shown.mode = "question"
       => page'.active = poll.active]_vars

\* The exact review that can be confirmed is of the question that heads it.  (The
\* code does not keep this: a review of wording chosen in a comparison opens
\* wherever the voice agent has moved the student meanwhile.)
ReviewUnderItsQuestion ==
  page.at = "exactReview" /\ HasCurrentReview(page) => page.review.q = ActiveQuestion(page)
=============================================================================
