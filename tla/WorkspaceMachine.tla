-------------------------- MODULE WorkspaceMachine --------------------------
(***************************************************************************)
(* The student page's statechart, src/v2/domain/workspaceMachine.ts, as    *)
(* operators on the page's context: an operator is one event, Event(p, .)  *)
(* is the context after it, and a state of the chart without a transition  *)
(* for the event leaves p as it is.                                        *)
(*                                                                         *)
(* `at` is the active state.  The machine's `direct`, `guided`, `ready`    *)
(* and `questionChoice` states are entered only by the development         *)
(* fixtures and are left out; the voice indicator is in VoiceSession.      *)
(*                                                                         *)
(* Question ids are numbers in worksheet order.  A candidate the server    *)
(* stored carries its candidate_version; one that exists on the page only  *)
(* carries 0, for its id, derived from the question, equals no stored id.  *)
(***************************************************************************)
EXTENDS Integers, FiniteSets, FiniteSetsExt, SequencesExt

CONSTANTS
  QuestionIds,  \* numbers of the questions an assignment may have
  Texts,        \* the non-blank texts a student may write
  NoText        \* nothing written

\* 0 stands for no question.
ASSUME IdAssumption == QuestionIds \subseteq Nat \ {0}

-----------------------------------------------------------------------------
(* The context.                                                            *)

States == {"upload", "checking", "questionCheck", "questionEditing", "rejected",
           "conversation", "rephrasing", "comparison", "exactReview", "confirming",
           "answerAdded", "worksheetReview", "exporting", "exportFailed", "exportComplete"}

\* Every origin of the student's own words is "student".
Candidate   == [q : QuestionIds, ver : Nat, text : Texts, origin : {"student", "claros_rephrase"}]
NoCandidate == [q |-> 0, ver |-> 0, text |-> NoText, origin |-> "student"]

CandidateFor(q, text, origin) == [q |-> q, ver |-> 0, text |-> text, origin |-> origin]

\* `ack` is the acknowledgedCandidate, `rev` the localRevision.
QuestionDraft == [text : Texts, origin : {"student", "claros_rephrase"}, rev : Nat,
                  dirty : BOOLEAN, ack : Candidate \cup {NoCandidate}]
NoDraft == [text |-> NoText, origin |-> "student", rev |-> 0, dirty |-> FALSE, ack |-> NoCandidate]

ReviewSnapshot == [q : QuestionIds, tok : Nat, cand : Nat, text : Texts, aver : Nat]
NoReview == [q |-> 0, tok |-> 0, cand |-> 0, text |-> NoText, aver |-> 0]

ConfirmedAnswer == [rev : Nat, text : Texts]
NoAnswer == [rev |-> 0, text |-> NoText]

\* `result` is the version of the assignment the finished export shows.
InitialContext ==
  [at |-> "upload", version |-> 0, questions |-> <<>>, verified |-> FALSE, active |-> 1,
   cand |-> NoCandidate, original |-> NoCandidate, suggestion |-> NoCandidate,
   review |-> NoReview, confirmed |-> [q \in QuestionIds |-> NoAnswer],
   drafts |-> [q \in QuestionIds |-> NoDraft], epoch |-> 0, error |-> FALSE, result |-> 0]

IsContext(p) ==
  /\ DOMAIN p = DOMAIN InitialContext
  /\ p.at \in States
  /\ {p.version, p.epoch, p.result} \subseteq Nat /\ p.active \in Nat \ {0}
  /\ p.questions \in Seq(QuestionIds) /\ IsInjective(p.questions)
  /\ {p.verified, p.error} \subseteq BOOLEAN
  /\ {p.cand, p.original, p.suggestion} \subseteq Candidate \cup {NoCandidate}
  /\ p.review \in ReviewSnapshot \cup {NoReview}
  /\ p.confirmed \in [QuestionIds -> ConfirmedAnswer \cup {NoAnswer}]
  /\ p.drafts \in [QuestionIds -> QuestionDraft \cup {NoDraft}]

Loaded(p)         == p.questions # <<>>
HasQuestion(p)    == p.active \in DOMAIN p.questions
ActiveQuestion(p) == IF HasQuestion(p) THEN p.questions[p.active] ELSE 0
IndexOf(p, q)     == CHOOSE i \in DOMAIN p.questions : p.questions[i] = q
Shows(p, q)       == q \in Range(p.questions)

\* Guards of the machine.
HasCandidate(p) == p.cand # NoCandidate

HasCurrentReview(p) ==
  /\ p.review # NoReview
  /\ HasCandidate(p)
  /\ p.review.q = p.cand.q /\ p.review.cand = p.cand.ver
  /\ p.review.text = p.cand.text
  /\ p.review.aver = p.version

Answered(p)           == {q \in QuestionIds : p.confirmed[q] # NoAnswer}
HasConfirmedAnswer(p) == Answered(p) # {}
HasNextQuestion(p)    == p.active < Len(p.questions)

-----------------------------------------------------------------------------
(* Reset, analysis and question set-up.                                    *)

ClearForAnalysis(at) == [InitialContext EXCEPT !.at = at]

Reset(p) == ClearForAnalysis("upload")

StartAnalysis(p) ==
  IF p.at \in {"upload", "rejected"} THEN ClearForAnalysis("checking") ELSE p

AnalysisReady(p, version, questions, verified, confirmed, active, cand) ==
  IF p.at # "checking" THEN p
  ELSE [p EXCEPT !.at = "questionCheck", !.version = version, !.questions = questions,
                 !.verified = verified, !.confirmed = confirmed, !.active = active,
                 !.cand = cand, !.error = FALSE,
                 !.drafts = [q \in QuestionIds |->
                    IF cand # NoCandidate /\ q = cand.q
                    THEN [text |-> cand.text, origin |-> cand.origin, rev |-> 0,
                          dirty |-> FALSE, ack |-> cand]
                    ELSE NoDraft]]

AnalysisFailed(p) ==
  IF p.at = "checking" THEN [p EXCEPT !.at = "rejected", !.error = TRUE] ELSE p

InSetup(p) == p.at \in {"questionCheck", "questionEditing"}

ApplyQuestionSetup(p, version, questions, verified) ==
  [p EXCEPT !.version = version, !.questions = questions, !.verified = verified,
            !.active = 1, !.error = FALSE]

QuestionSetupUpdated(p, version, questions, verified) ==
  IF InSetup(p) THEN ApplyQuestionSetup(p, version, questions, verified) ELSE p

QuestionSetupAccepted(p, version, questions, verified) ==
  IF InSetup(p)
  THEN [ApplyQuestionSetup(p, version, questions, verified) EXCEPT !.at = "conversation"]
  ELSE p

EditQuestions(p) ==
  IF p.at = "questionCheck" THEN [p EXCEPT !.at = "questionEditing"] ELSE p

CancelQuestionEdit(p) ==
  IF p.at = "questionEditing" THEN [p EXCEPT !.at = "questionCheck"] ELSE p

RequestFailed(p) == [p EXCEPT !.error = TRUE]

-----------------------------------------------------------------------------
(* Writing an answer.                                                      *)

\* What every event that replaces the wording does with what was made of it.
Unreviewed(p) == [p EXCEPT !.review = NoReview, !.original = NoCandidate,
                           !.suggestion = NoCandidate, !.error = FALSE]

WriteCandidate(p, text, origin, changed) ==
  LET q == ActiveQuestion(p)
      d == p.drafts[q]
  IN  [Unreviewed(p) EXCEPT
         !.cand = CandidateFor(q, text, origin),
         !.drafts[q] = [text |-> text, origin |-> origin, dirty |-> TRUE, ack |-> d.ack,
                        rev |-> IF changed THEN d.rev + 1 ELSE d.rev]]

CandidateChanged(p, text) ==
  IF p.at # "conversation" \/ ~HasQuestion(p) THEN p
  ELSE WriteCandidate(p, text,
                      IF p.cand.text = text THEN p.cand.origin ELSE "student",
                      p.cand.text # text)

VoiceCaptured(p, text) ==
  IF p.at # "conversation" \/ ~HasQuestion(p) THEN p
  ELSE WriteCandidate(p, text, "student", TRUE)

\* Mutant of IsCurrentDraft: what the student wrote meanwhile is not looked at.
IsActiveDraft(p, q, rev, epoch) == ActiveQuestion(p) = q

\* An event without a local revision or epoch (here -1) matches any.
IsCurrentDraft(p, q, rev, epoch) ==
  /\ ActiveQuestion(p) = q
  /\ rev = -1 \/ (p.drafts[q] # NoDraft /\ p.drafts[q].rev = rev)
  /\ epoch \in {-1, p.epoch}

CandidatePersisted(p, version, cand, q, rev, epoch) ==
  LET current == IsCurrentDraft(p, q, rev, epoch)
      draft   == p.drafts[q]
      kept    == IF current \/ draft = NoDraft THEN cand ELSE draft
      stored  == [p EXCEPT
                   !.version = IF Loaded(p) THEN version ELSE @,
                   !.drafts[q] = [text |-> kept.text, origin |-> kept.origin,
                                  rev |-> IF draft = NoDraft /\ rev # -1 THEN rev ELSE draft.rev,
                                  dirty |-> ~current, ack |-> cand]]
  IN  IF current
      THEN [stored EXCEPT !.cand = cand, !.review = NoReview, !.error = FALSE]
      ELSE stored

\* The machine takes a request for clearer wording where the wording is written,
\* and again while it waits for one.
RequestRephrase(p) ==
  CASE p.at = "conversation" /\ HasCandidate(p) -> [p EXCEPT !.at = "rephrasing"]
    [] p.at = "rephrasing" -> [p EXCEPT !.error = FALSE]
    [] OTHER -> p

RephraseReady(p, original, suggestion, version) ==
  IF p.at # "rephrasing" THEN p
  ELSE IF ~HasCandidate(p) THEN [p EXCEPT !.at = "comparison"]
  ELSE [p EXCEPT !.at = "comparison", !.original = original, !.suggestion = suggestion,
                 !.version = version, !.error = FALSE]

RephraseFailed(p) == IF p.at = "rephrasing" THEN [p EXCEPT !.error = TRUE] ELSE p

-----------------------------------------------------------------------------
(* Exact review and confirmation.                                          *)

\* Mutant of ReviewReady: the review is made of the wording on the page, as the
\* fixtures make it, under the token the server issued.
ReviewOfPage(p, cand, review, version) ==
  IF p.cand = NoCandidate THEN p
  ELSE [Unreviewed(p) EXCEPT
          !.at = "exactReview", !.cand = [cand EXCEPT !.text = p.cand.text],
          !.review = [review EXCEPT !.text = p.cand.text], !.version = version]

\* Accepted in every state of the page.
ReviewReady(p, cand, review, version) ==
  [Unreviewed(p) EXCEPT !.at = "exactReview", !.cand = cand, !.review = review,
                        !.version = IF Loaded(p) THEN version ELSE @]

ChangeAnswer(p) ==
  IF p.at \in {"comparison", "exactReview", "answerAdded"}
  THEN [p EXCEPT !.at = "conversation", !.review = NoReview, !.error = FALSE]
  ELSE p

\* CONFIRM, and VOICE_CONFIRMATION with the canonical phrase.
Confirm(p) ==
  IF p.at = "exactReview" /\ HasCurrentReview(p) THEN [p EXCEPT !.at = "confirming"] ELSE p

ConfirmSucceeded(p, answer, version) ==
  IF p.at # "confirming" THEN p
  ELSE IF ~HasCandidate(p) \/ ~HasQuestion(p) THEN [p EXCEPT !.at = "answerAdded"]
  ELSE [p EXCEPT !.at = "answerAdded", !.confirmed[ActiveQuestion(p)] = answer,
                 !.version = version, !.error = FALSE]

\* Mutant of ConfirmFailed: the answer counts as added although the server's
\* reply was lost.
ConfirmFailedKeeps(p) ==
  IF p.at # "confirming" \/ ~HasQuestion(p) THEN p
  ELSE [p EXCEPT !.at = "answerAdded",
                 !.confirmed[ActiveQuestion(p)] = [rev |-> @.rev + 1, text |-> p.cand.text]]

ConfirmFailed(p) ==
  IF p.at = "confirming" THEN [p EXCEPT !.at = "exactReview", !.error = TRUE] ELSE p

-----------------------------------------------------------------------------
(* Moving between questions.                                               *)

\* Leaving a question: what is known of the one moved to comes from its draft.
DraftCandidate(p, q) ==
  LET d == p.drafts[q]
  IN  IF d = NoDraft THEN NoCandidate
      ELSE IF d.ack # NoCandidate /\ ~d.dirty THEN d.ack
      ELSE CandidateFor(q, d.text, d.origin)

MoveTo(p, index) ==
  [Unreviewed(p) EXCEPT !.active = index, !.epoch = @ + 1,
                        !.cand = DraftCandidate(p, p.questions[index])]

GoToQuestion(p, q) ==
  IF p.at \notin {"conversation", "answerAdded", "worksheetReview"} THEN p
  ELSE LET there == [p EXCEPT !.at = "conversation"]
       IN  IF ~Shows(p, q) \/ IndexOf(p, q) = p.active THEN there
           ELSE MoveTo(there, IndexOf(p, q))

ContinueToNext(p) ==
  CASE p.at # "answerAdded" -> p
    [] p.at = "answerAdded" /\ HasNextQuestion(p) ->
         MoveTo([p EXCEPT !.at = "conversation"], p.active + 1)
    [] OTHER -> [p EXCEPT !.at = "worksheetReview"]

\* Continue by typing, offered beside an added answer when voice is lost.
ContinueByTyping(p) ==
  IF p.at \in {"conversation", "answerAdded"}
  THEN [p EXCEPT !.at = "conversation", !.error = FALSE] ELSE p

\* REVISION_READY; the drafts are not touched.  Accepted in every state.
RevisionReady(p, q, seed, version) ==
  LET there == [p EXCEPT !.at = "conversation"]
  IN  IF ~Shows(p, q) \/ p.confirmed[q] = NoAnswer THEN there
      ELSE [Unreviewed(there) EXCEPT
              !.active = IndexOf(p, q),
              !.epoch = IF IndexOf(p, q) = p.active THEN @ ELSE @ + 1,
              !.cand = CandidateFor(q, seed, "student"),
              !.version = version]

-----------------------------------------------------------------------------
(* Worksheet review, export and routes.                                    *)

OpenWorksheetReview(p) ==
  IF p.at \in {"conversation", "answerAdded"} THEN [p EXCEPT !.at = "worksheetReview"] ELSE p

ReviewAnswers(p) ==
  IF p.at \in {"exportFailed", "exportComplete"} THEN [p EXCEPT !.at = "worksheetReview"] ELSE p

CreateExport(p) ==
  IF p.at = "worksheetReview" /\ HasConfirmedAnswer(p)
  THEN [p EXCEPT !.at = "exporting", !.error = FALSE] ELSE p

RetryExport(p) ==
  IF p.at = "exportFailed" THEN [p EXCEPT !.at = "exporting", !.error = FALSE] ELSE p

\* Mutant of TakeVersion: an event without a version clears the page's.
TakeVersionAlways(p, version) == version

\* An event that brings no version (0) keeps the page's.
TakeVersion(p, version) == IF version > 0 /\ Loaded(p) THEN version ELSE p.version

ExportSucceeded(p, result, version) ==
  IF p.at # "exporting" THEN p
  ELSE [p EXCEPT !.at = "exportComplete", !.result = result,
                 !.version = TakeVersion(p, version), !.error = FALSE]

ExportRestored(p, result, version) ==
  [p EXCEPT !.at = "exportComplete", !.result = result,
            !.version = TakeVersion(p, version), !.error = FALSE]

ExportPending(p, version) ==
  [p EXCEPT !.at = "exporting", !.result = 0,
            !.version = TakeVersion(p, version), !.error = FALSE]

ExportFailed(p, version) ==
  [p EXCEPT !.at = "exportFailed", !.result = 0,
            !.version = TakeVersion(p, version), !.error = TRUE]

OpenAssignmentRoute(p) ==
  [Unreviewed(p) EXCEPT !.at = "conversation", !.cand = NoCandidate, !.result = 0]

OpenReviewRoute(p) == [p EXCEPT !.at = "worksheetReview", !.error = FALSE]
=============================================================================
