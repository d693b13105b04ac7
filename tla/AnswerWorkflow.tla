--------------------------- MODULE AnswerWorkflow ---------------------------
(***************************************************************************)
(* The pure operations of backend/domain/workflow.py on the manifest of    *)
(* one assignment: question set-up, answer candidates, suggested wording,  *)
(* review tokens, confirmation and revision.                               *)
(*                                                                         *)
(* An operation Op(m, ...) is a guard CanOp(m, ..., t), the code's checks  *)
(* at time t, and the manifest Op(m, ...) it returns.  `assignment_version`*)
(* is part of the caller's request and is compared in the modules that     *)
(* hold requests (see RequireCurrentVersion).                              *)
(*                                                                         *)
(* Identifiers the code draws at random are replaced by the number that    *)
(* already names the object among everything ever stored: a candidate by   *)
(* its candidate_version, a confirmation by its revision, a review token   *)
(* by its position in the append-only review_tokens of its question.  The  *)
(* hash of a text is the text.  Export records are in ExportPipeline.      *)
(***************************************************************************)
EXTENDS Integers, Sequences

CONSTANTS
  QuestionIds,  \* every question an assignment may ever have
  Detected,     \* the questions analysis finds in the worksheet
  Texts,        \* the texts validate_exact_text accepts
  NoText,       \* the absence of a text
  ReviewTTL,    \* lifetime of a review token
  ExpiresAt     \* absolute lifetime of the assignment

ASSUME ConstantsAssumption ==
  /\ Detected \subseteq QuestionIds
  /\ NoText \notin Texts
  /\ ReviewTTL \in Nat \ {0}
  /\ ExpiresAt \in Nat

-----------------------------------------------------------------------------
(* Shapes.  `ver` and `rev` count from 1, so 0 marks the absent object.    *)

\* What a student types, says or arrives at with guidance refers to nothing that
\* is stored: "student_verbatim" stands for student_normalized and
\* student_after_guidance too.
Origins == {"student_verbatim", "student_edited", "claros_rephrase"}

Candidate   == [ver : Nat, text : Texts \cup {NoText}, origin : Origins]
NoCandidate == [ver |-> 0, text |-> NoText, origin |-> "student_verbatim"]

Answer   == [rev : Nat, cand : Nat, text : Texts \cup {NoText}, origin : Origins]
NoAnswer == [rev |-> 0, cand |-> 0, text |-> NoText, origin |-> "student_verbatim"]

\* `prior` is the confirmation the draft was opened from.
RevisionDraft == [prior : Nat, seed : Texts \cup {NoText}]
NoRevision    == [prior |-> 0, seed |-> NoText]

RephraseRecord == [original : Nat, suggestion : Nat, text : Texts]

ReviewToken == [cand : Nat, text : Texts \cup {NoText}, aver : Nat,
                expires : Nat, consumed : BOOLEAN, invalidated : BOOLEAN]

\* `cand` and `aver` are the request's fields that request_digest covers.
Receipt == [q : QuestionIds, tok : Nat, cand : Nat, aver : Nat,
            version : Nat, answer : Answer]

QuestionState ==
  [seq : Nat, current : Candidate, confirmed : Answer, revision : RevisionDraft,
   rephrases : SUBSET RephraseRecord, tokens : Seq(ReviewToken)]

NewQuestion ==
  [seq |-> 0, current |-> NoCandidate, confirmed |-> NoAnswer,
   revision |-> NoRevision, rephrases |-> {}, tokens |-> <<>>]

Status == {"ANALYZING", "READY", "ANALYSIS_FAILED"}

IsManifest(m) ==
  /\ m = [version |-> m.version, status |-> m.status, verified |-> m.verified,
          questions |-> m.questions, receipts |-> m.receipts]
  /\ m.version \in Nat \ {0}
  /\ m.status \in Status
  /\ m.verified \in BOOLEAN
  /\ DOMAIN m.questions \subseteq QuestionIds
  /\ m.questions \in [DOMAIN m.questions -> QuestionState]
  /\ m.receipts \subseteq Receipt

-----------------------------------------------------------------------------
(* Shared guards and helpers.                                              *)

\* The service's clock, up to the end of the assignment.
Times == 0..ExpiresAt

RequireActive(t) == t < ExpiresAt

\* Mutant of RequireCurrentVersion: a request from an older page is let in.
RequireKnownVersion(m, aver) == aver <= m.version

RequireCurrentVersion(m, aver) == aver = m.version

HasQuestion(m, q) == q \in DOMAIN m.questions

HasCandidate(s) == s.current.ver > 0
HasAnswer(s)    == s.confirmed.rev > 0

\* One question holds something a student or the service put there.
HasAnswerState(s) ==
  \/ s.seq > 0 \/ HasCandidate(s) \/ HasAnswer(s)
  \/ s.revision # NoRevision \/ s.rephrases # {} \/ s.tokens # <<>>

QuestionSetupIsLocked(m) ==
  \/ m.receipts # {}
  \/ \E q \in DOMAIN m.questions : HasAnswerState(m.questions[q])

RequireCandidate(s, cand) == HasCandidate(s) /\ s.current.ver = cand

ReplaceQuestion(m, q, s) == [m EXCEPT !.questions[q] = s]

Bump(m) == [m EXCEPT !.version = @ + 1]

WithQuestions(m, verified, Q) == [m EXCEPT !.verified = verified, !.questions = Q]

Fresh(S) == [q \in S |-> NewQuestion]

\* Mutant of InvalidateReviews: only the newest review is withdrawn.
InvalidateNewest(tokens) ==
  [i \in DOMAIN tokens |-> [tokens[i] EXCEPT !.invalidated = @ \/ i = Len(tokens)]]

InvalidateReviews(tokens) ==
  [i \in DOMAIN tokens |-> [tokens[i] EXCEPT !.invalidated = TRUE]]

-----------------------------------------------------------------------------
(* Creation and the end of analysis.                                       *)

NewManifest ==
  [version |-> 1, status |-> "ANALYZING", verified |-> TRUE,
   questions |-> Fresh({}), receipts |-> {}]

\* Attaching the analysis does not move the public version.
FinishAnalysis(m) ==
  [WithQuestions(m, FALSE, Fresh(Detected)) EXCEPT !.status = "READY"]

FailAnalysis(m) ==
  [WithQuestions(m, m.verified, Fresh({})) EXCEPT !.status = "ANALYSIS_FAILED"]

-----------------------------------------------------------------------------
(* Question set-up.  A correction keeps the state of the questions it      *)
(* keeps, as model_copy does, and starts the added ones empty.             *)

CanAcceptQuestionSetup(m, t) ==
  /\ RequireActive(t)
  /\ DOMAIN m.questions # {}
  /\ ~QuestionSetupIsLocked(m)

AcceptQuestionSetup(m) == Bump(WithQuestions(m, TRUE, m.questions))

\* What the page can ask for: one question added or removed, or one replaced or
\* all of them reordered in place.
IsCorrection(m, S) ==
  LET D == DOMAIN m.questions
  IN  \E q \in QuestionIds : S \in {D, D \cup {q}, D \ {q}}

CanReplaceQuestionSetup(m, S, t) ==
  /\ RequireActive(t)
  /\ ~QuestionSetupIsLocked(m)
  /\ S # {}

ReplaceQuestionSetup(m, S) ==
  Bump(WithQuestions(m, FALSE,
         [q \in S |-> IF HasQuestion(m, q) THEN m.questions[q] ELSE NewQuestion]))

\* A reset rebuilds every question from its detected definition.
CanResetQuestionSetup(m, t) ==
  Detected # {} /\ CanReplaceQuestionSetup(m, Detected, t)

ResetQuestionSetup(m) == Bump(WithQuestions(m, FALSE, Fresh(Detected)))

-----------------------------------------------------------------------------
(* Candidates and suggested wording.                                       *)

\* The candidate a student_edit must name: the current one, or the confirmed
\* one when a revision has cleared the current one.
EditedVersion(s) == IF HasCandidate(s) THEN s.current.ver ELSE s.confirmed.cand

\* Mutant of ValidOrigin: a selected suggestion may carry any text.
ValidOriginAnyText(s, text, origin, prior) ==
  \/ origin = "student_verbatim"
  \/ origin = "student_edited" /\ prior > 0 /\ prior = EditedVersion(s)
  \/ /\ origin = "claros_rephrase"
     /\ HasCandidate(s)
     /\ \E r \in s.rephrases : /\ r.suggestion = prior
                               /\ r.original = s.current.ver
                               /\ r.suggestion = s.seq + 1

\* `prior` is what the interaction refers to: the edited candidate of a
\* student_edit, the suggestion's version of a selected_rephrase.
ValidOrigin(s, text, origin, prior) ==
  \/ origin = "student_verbatim"
  \/ origin = "student_edited" /\ prior > 0 /\ prior = EditedVersion(s)
  \/ /\ origin = "claros_rephrase"
     /\ HasCandidate(s)
     /\ \E r \in s.rephrases : /\ r.suggestion = prior
                               /\ r.original = s.current.ver
                               /\ r.suggestion = s.seq + 1
                               /\ r.text = text

\* Mutant of ReadyForAnswers: answers are taken before the set-up is accepted.
ReadyUnverified(m, q, t) == RequireActive(t) /\ m.status = "READY" /\ HasQuestion(m, q)

ReadyForAnswers(m, q, t) ==
  /\ RequireActive(t)
  /\ m.status = "READY"
  /\ m.verified
  /\ HasQuestion(m, q)

CanReplaceCandidate(m, q, text, origin, prior, t) ==
  /\ ReadyForAnswers(m, q, t)
  /\ ValidOrigin(m.questions[q], text, origin, prior)

ReplaceCandidate(m, q, text, origin) ==
  LET s == m.questions[q]
      c == [ver |-> s.seq + 1, text |-> text, origin |-> origin]
  IN  Bump(ReplaceQuestion(m, q, [s EXCEPT !.seq = @ + 1, !.current = c,
                                           !.tokens = InvalidateReviews(@)]))

CanRecordRephrase(m, q, cand, t) ==
  /\ ReadyForAnswers(m, q, t)
  /\ RequireCandidate(m.questions[q], cand)

\* Mutant of RecordRephrase: a suggestion does not move the public version.
RecordRephraseQuietly(m, q, text) ==
  LET s == m.questions[q]
      r == [original |-> s.current.ver, suggestion |-> s.seq + 1, text |-> text]
  IN  ReplaceQuestion(m, q, [s EXCEPT !.rephrases = @ \cup {r}])

RecordRephrase(m, q, text) ==
  LET s == m.questions[q]
      r == [original |-> s.current.ver, suggestion |-> s.seq + 1, text |-> text]
  IN  Bump(ReplaceQuestion(m, q, [s EXCEPT !.rephrases = @ \cup {r}]))

-----------------------------------------------------------------------------
(* Review, confirmation and revision.                                      *)

CanIssueReview(m, q, cand, t) ==
  /\ RequireActive(t)
  /\ m.verified
  /\ HasQuestion(m, q)
  /\ RequireCandidate(m.questions[q], cand)

\* Changes the stored generation only: the public version stays.
IssueReview(m, q, t) ==
  LET s == m.questions[q]
      k == [cand |-> s.current.ver, text |-> s.current.text, aver |-> m.version,
            expires |-> t + ReviewTTL, consumed |-> FALSE, invalidated |-> FALSE]
  IN  ReplaceQuestion(m, q, [s EXCEPT !.tokens = Append(@, k)])

ReceiptsOf(m, q, tok) == {r \in m.receipts : r.q = q /\ r.tok = tok}

\* The checks every confirmation passes first, a replayed one included.
TokenUsable(m, q, tok, t) ==
  /\ RequireActive(t)
  /\ HasQuestion(m, q)
  /\ tok \in DOMAIN m.questions[q].tokens
  /\ t < m.questions[q].tokens[tok].expires
  /\ ~m.questions[q].tokens[tok].invalidated

\* Mutant of ReplayReceipts: the digest of the request is not compared.
ReplayAnyRequest(m, q, tok, cand, aver, t) ==
  {r \in ReceiptsOf(m, q, tok) : TokenUsable(m, q, tok, t)}

\* The receipts that answer this very request again.
ReplayReceipts(m, q, tok, cand, aver, t) ==
  {r \in ReceiptsOf(m, q, tok) : /\ TokenUsable(m, q, tok, t)
                                 /\ r.cand = cand /\ r.aver = aver}

\* Mutant of CanConfirmCandidate: the version the review was issued for is not
\* compared.
CanConfirmLater(m, q, tok, cand, aver, t) ==
  /\ TokenUsable(m, q, tok, t)
  /\ ReceiptsOf(m, q, tok) = {}
  /\ RequireCurrentVersion(m, aver)
  /\ m.verified
  /\ LET s == m.questions[q]
         k == s.tokens[tok]
     IN  ~k.consumed /\ RequireCandidate(s, cand) /\ k.cand = cand /\ k.text = s.current.text

CanConfirmCandidate(m, q, tok, cand, aver, t) ==
  /\ TokenUsable(m, q, tok, t)
  /\ ReceiptsOf(m, q, tok) = {}
  /\ RequireCurrentVersion(m, aver)
  /\ m.verified
  /\ LET s == m.questions[q]
         k == s.tokens[tok]
     IN  /\ ~k.consumed
         /\ RequireCandidate(s, cand)
         /\ k.cand = s.current.ver
         /\ k.aver = m.version
         /\ k.text = s.current.text

\* Mutant of ConsumeReview: the token stays unused.
ForgetReview(tokens, tok) == tokens

ConsumeReview(tokens, tok) == [tokens EXCEPT ![tok].consumed = TRUE]

\* Mutants of ConfirmCandidate, on the state s of the question it leaves and its
\* answer a.
Confirmed(m, q, tok, s, a) ==
  LET r == [q |-> q, tok |-> tok, cand |-> a.cand, aver |-> m.version,
            version |-> m.version + 1, answer |-> a]
  IN  Bump([ReplaceQuestion(m, q, [s EXCEPT !.confirmed = a, !.tokens = ConsumeReview(@, tok)])
              EXCEPT !.receipts = @ \cup {r}])

\* The open revision stays; the revision takes the candidate's number.
ConfirmKeepsDraft(m, q, tok) ==
  LET s == m.questions[q]
      a == [rev |-> s.confirmed.rev + 1, cand |-> s.current.ver,
            text |-> s.current.text, origin |-> s.current.origin]
  IN  Confirmed(m, q, tok, s, a)

ConfirmNumbersByCandidate(m, q, tok) ==
  LET s == m.questions[q]
      a == [rev |-> s.current.ver, cand |-> s.current.ver,
            text |-> s.current.text, origin |-> s.current.origin]
  IN  Confirmed(m, q, tok, [s EXCEPT !.revision = NoRevision], a)

ConfirmCandidate(m, q, tok) ==
  LET s == m.questions[q]
      a == [rev |-> s.confirmed.rev + 1, cand |-> s.current.ver,
            text |-> s.current.text, origin |-> s.current.origin]
      r == [q |-> q, tok |-> tok, cand |-> s.current.ver, aver |-> m.version,
            version |-> m.version + 1, answer |-> a]
  IN  Bump([ReplaceQuestion(m, q, [s EXCEPT !.confirmed = a, !.revision = NoRevision,
                                            !.tokens = ConsumeReview(@, tok)])
              EXCEPT !.receipts = @ \cup {r}])

CanBeginRevision(m, q, t) ==
  /\ RequireActive(t)
  /\ HasQuestion(m, q)
  /\ HasAnswer(m.questions[q])

\* Mutants of BeginRevision: the draft's fields are swapped; opening a draft
\* drops the answer it revises.
BeginRevisionSwapped(m, q) ==
  LET s == m.questions[q]
      d == [prior |-> s.confirmed.text, seed |-> s.confirmed.rev]
  IN  Bump(ReplaceQuestion(m, q, [s EXCEPT !.current = NoCandidate, !.revision = d,
                                           !.tokens = InvalidateReviews(@)]))

BeginRevisionDropsAnswer(m, q) ==
  LET s == m.questions[q]
      d == [prior |-> s.confirmed.rev, seed |-> s.confirmed.text]
  IN  Bump(ReplaceQuestion(m, q, [s EXCEPT !.current = NoCandidate, !.revision = d,
                                           !.confirmed = NoAnswer,
                                           !.tokens = InvalidateReviews(@)]))

BeginRevision(m, q) ==
  LET s == m.questions[q]
      d == [prior |-> s.confirmed.rev, seed |-> s.confirmed.text]
  IN  Bump(ReplaceQuestion(m, q, [s EXCEPT !.current = NoCandidate, !.revision = d,
                                           !.tokens = InvalidateReviews(@)]))

ConfirmedQuestions(m) == {q \in DOMAIN m.questions : HasAnswer(m.questions[q])}
=============================================================================
