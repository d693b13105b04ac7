----------------------- MODULE AtomicAssignment_proofs -----------------------
(***************************************************************************)
(* Proofs about AtomicAssignment, for every set of questions and texts,    *)
(* every lifetime, and histories of any length: first what a review and a  *)
(* confirmation mean, then what becomes of confirmed answers.              *)
(***************************************************************************)
EXTENDS AtomicAssignment, AnswerWorkflow_proofs

-----------------------------------------------------------------------------
(* The inductive invariant.                                                *)

\* Before analysis has ended well there is nothing to lose.
EmptyUntilReady ==
  manifest.status # "READY" =>
    manifest.receipts = {} /\ DOMAIN manifest.questions = {}

IInv ==
  /\ TypeOK
  /\ EmptyUntilReady
  /\ Loadable
  /\ LiveTokenIsCurrent
  /\ ConsumedOnce
  /\ ConfirmedAsReviewed

\* Nothing is on record before the end of analysis.
THEOREM InitIInv == Init => IInv
<1> SUFFICES ASSUME Init PROVE IInv
  OBVIOUS
<1>1. TypeOK
  BY NewManifestFacts DEF Init, TypeOK
<1>2. manifest.receipts = {} /\ DOMAIN manifest.questions = {}
  BY NewManifestFacts DEF Init
<1> QED
  BY <1>1, <1>2 DEF IInv, EmptyUntilReady, Loadable, LiveTokenIsCurrent, ConsumedOnce,
                    ConfirmedAsReviewed, QuestionSetupIsLocked

-----------------------------------------------------------------------------
(* Steps that change one question.                                         *)

\* What a question must satisfy on its own.
GoodQuestion(s) ==
  /\ s.current.ver <= s.seq
  /\ \A i \in DOMAIN s.tokens : ~s.tokens[i].invalidated =>
       s.tokens[i].cand = s.current.ver /\ s.tokens[i].text = s.current.text

\* The tokens of u continue those of s, with none consumed on the way.
ContinuesTokens(s, u) ==
  /\ DOMAIN s.tokens \subseteq DOMAIN u.tokens
  /\ \A i \in DOMAIN s.tokens :
       /\ u.tokens[i].cand = s.tokens[i].cand /\ u.tokens[i].text = s.tokens[i].text
       /\ u.tokens[i].aver = s.tokens[i].aver
       /\ u.tokens[i].consumed <=> s.tokens[i].consumed
  /\ \A i \in DOMAIN u.tokens \ DOMAIN s.tokens : ~u.tokens[i].consumed

\* A request that rewrites one question and files no receipt keeps IInv when it keeps
\* the invariants of that question.
LEMMA OneQuestionStep ==
  ASSUME IInv, manifest.verified,
         NEW q \in DOMAIN manifest.questions,
         OnlyQuestion(manifest, manifest', q),
         manifest'.receipts = manifest.receipts,
         GoodQuestion(manifest'.questions[q]),
         ContinuesTokens(manifest.questions[q], manifest'.questions[q])
  PROVE  IInv'
<1>1. TypeOK'
  BY DEF TypeOK, OnlyQuestion
<1>2. EmptyUntilReady'
  BY DEF IInv, EmptyUntilReady, OnlyQuestion
<1>3. Loadable'
  <2>1. manifest'.verified
    BY DEF OnlyQuestion
  <2>2. \A p \in DOMAIN manifest'.questions :
          manifest'.questions[p].current.ver <= manifest'.questions[p].seq
    BY DEF IInv, Loadable, OnlyQuestion, GoodQuestion
  <2> QED BY <2>1, <2>2 DEF IInv, Loadable
<1>4. LiveTokenIsCurrent'
  BY DEF IInv, LiveTokenIsCurrent, OnlyQuestion, GoodQuestion
<1>5. ConsumedOnce'
  <2> SUFFICES ASSUME NEW p \in DOMAIN manifest'.questions,
                      NEW i \in DOMAIN manifest'.questions[p].tokens
               PROVE  manifest'.questions[p].tokens[i].consumed
                        <=> ReceiptsOf(manifest', p, i) # {}
    BY DEF ConsumedOnce
  <2>1. ReceiptsOf(manifest', p, i) = ReceiptsOf(manifest, p, i)
    BY DEF ReceiptsOf
  <2>2. CASE p # q
    BY <2>1, <2>2 DEF IInv, ConsumedOnce, OnlyQuestion
  <2>3. CASE p = q /\ i \in DOMAIN manifest.questions[q].tokens
    BY <2>1, <2>3 DEF IInv, ConsumedOnce, ContinuesTokens
  <2>4. CASE p = q /\ i \notin DOMAIN manifest.questions[q].tokens
    BY <2>1, <2>4 DEF IInv, ConfirmedAsReviewed, ContinuesTokens, ReceiptsOf
  <2> QED BY <2>2, <2>3, <2>4
<1>6. ConfirmedAsReviewed'
  <2> SUFFICES ASSUME NEW r \in manifest.receipts
               PROVE  /\ r.q \in DOMAIN manifest'.questions
                      /\ r.tok \in DOMAIN manifest'.questions[r.q].tokens
                      /\ LET k == manifest'.questions[r.q].tokens[r.tok]
                         IN  r.answer.text = k.text /\ r.answer.cand = k.cand /\ r.aver = k.aver
    BY DEF ConfirmedAsReviewed
  <2>1. CASE r.q # q
    BY <2>1 DEF IInv, ConfirmedAsReviewed, OnlyQuestion
  <2>2. CASE r.q = q
    BY <2>2, SMTT(40) DEF IInv, ConfirmedAsReviewed, OnlyQuestion, ContinuesTokens
  <2> QED BY <2>1, <2>2
<1> QED
  BY <1>1, <1>2, <1>3, <1>4, <1>5, <1>6 DEF IInv

\* Invalidating every token of a question leaves no live one and consumes none.
LEMMA InvalidatedTokens ==
  ASSUME NEW s \in QuestionState, NEW u, u.tokens = InvalidateReviews(s.tokens)
  PROVE  /\ ContinuesTokens(s, u)
         /\ \A i \in DOMAIN u.tokens : u.tokens[i].invalidated
<1>1. s.tokens \in Seq(ReviewToken)
  BY DEF QuestionState
<1>2. \A i \in DOMAIN s.tokens : s.tokens[i] \in ReviewToken
  BY <1>1
<1>3. DOMAIN u.tokens = DOMAIN s.tokens
  BY <1>1, InvalidateFacts
<1>4. \A i \in DOMAIN s.tokens : u.tokens[i] = [s.tokens[i] EXCEPT !.invalidated = TRUE]
  BY <1>1, InvalidateFacts
<1>5. \A i \in DOMAIN s.tokens :
        /\ u.tokens[i].cand = s.tokens[i].cand /\ u.tokens[i].text = s.tokens[i].text
        /\ u.tokens[i].aver = s.tokens[i].aver
        /\ u.tokens[i].consumed = s.tokens[i].consumed
        /\ u.tokens[i].invalidated = TRUE
  BY <1>2, <1>4, InvalidateOne
<1> QED BY <1>3, <1>5, Zenon DEF ContinuesTokens

\* create_candidate keeps IInv.
LEMMA CreateCandidateStep == IInv /\ CreateCandidate => IInv'
<1> SUFFICES ASSUME IInv, NEW t \in Times, NEW q \in DOMAIN manifest.questions,
                    NEW text \in Texts, NEW origin \in Origins, NEW prior,
                    CanReplaceCandidate(manifest, q, text, origin, prior, t),
                    manifest' = ReplaceCandidate(manifest, q, text, origin)
             PROVE  IInv'
  BY DEF CreateCandidate
<1> DEFINE s == manifest.questions[q]
           u == manifest'.questions[q]
<1>1. IsManifest(manifest) /\ s \in QuestionState
  BY DEF IInv, TypeOK, IsManifest
<1>2. manifest.verified
  BY DEF CanReplaceCandidate, ReadyForAnswers
<1>3. /\ OnlyQuestion(manifest, manifest', q)
      /\ manifest'.receipts = manifest.receipts
      /\ u = [seq |-> s.seq + 1,
              current |-> [ver |-> s.seq + 1, text |-> text, origin |-> origin],
              confirmed |-> s.confirmed, revision |-> s.revision,
              rephrases |-> s.rephrases, tokens |-> InvalidateReviews(s.tokens)]
  BY <1>1, ReplaceCandidateFacts
<1>4. /\ ContinuesTokens(s, u)
      /\ \A i \in DOMAIN u.tokens : u.tokens[i].invalidated
  BY <1>1, <1>3, InvalidatedTokens
<1>5. u.current.ver <= u.seq
  BY <1>1, <1>3 DEF QuestionState
<1>6. GoodQuestion(u)
  BY <1>4, <1>5 DEF GoodQuestion
<1> QED BY <1>2, <1>3, <1>4, <1>6, OneQuestionStep

\* request_rephrase keeps IInv.
LEMMA RequestRephraseStep == IInv /\ RequestRephrase => IInv'
<1> SUFFICES ASSUME IInv, NEW t \in Times, NEW q \in DOMAIN manifest.questions,
                    NEW text \in Texts,
                    CanRecordRephrase(manifest, q, manifest.questions[q].current.ver, t),
                    manifest' = RecordRephrase(manifest, q, text)
             PROVE  IInv'
  BY DEF RequestRephrase
<1> DEFINE s == manifest.questions[q]
           u == manifest'.questions[q]
           r == [original |-> s.current.ver, suggestion |-> s.seq + 1, text |-> text]
<1>1. IsManifest(manifest) /\ s \in QuestionState
  BY DEF IInv, TypeOK, IsManifest
<1>2. manifest.verified
  BY DEF CanRecordRephrase, ReadyForAnswers
<1>3. /\ OnlyQuestion(manifest, manifest', q)
      /\ manifest'.receipts = manifest.receipts
      /\ u = [s EXCEPT !.rephrases = @ \cup {r}]
  BY <1>1, RecordRephraseFacts
<1>4. u.seq = s.seq /\ u.current = s.current /\ u.tokens = s.tokens
  BY <1>1, <1>3 DEF QuestionState
<1>5. ContinuesTokens(s, u)
  BY <1>4 DEF ContinuesTokens
<1>6. GoodQuestion(u)
  BY <1>4 DEF GoodQuestion, IInv, Loadable, LiveTokenIsCurrent
<1> QED BY <1>2, <1>3, <1>5, <1>6, OneQuestionStep

\* create_review keeps IInv: its token is of the current wording.
LEMMA CreateReviewStep == IInv /\ CreateReview => IInv'
<1> SUFFICES ASSUME IInv, NEW t \in Times, NEW q \in DOMAIN manifest.questions,
                    CanIssueReview(manifest, q, manifest.questions[q].current.ver, t),
                    manifest' = IssueReview(manifest, q, t)
             PROVE  IInv'
  BY DEF CreateReview
<1> DEFINE s == manifest.questions[q]
           u == manifest'.questions[q]
           k == [cand |-> s.current.ver, text |-> s.current.text, aver |-> manifest.version,
                 expires |-> t + ReviewTTL, consumed |-> FALSE, invalidated |-> FALSE]
<1>1. IsManifest(manifest) /\ s \in QuestionState
  BY DEF IInv, TypeOK, IsManifest
<1>2. manifest.verified
  BY DEF CanIssueReview
<1>3. /\ k \in ReviewToken
      /\ OnlyQuestion(manifest, manifest', q)
      /\ manifest'.receipts = manifest.receipts
      /\ u = [s EXCEPT !.tokens = Append(@, k)]
  BY <1>1, IssueReviewFacts
<1>4. k.cand = s.current.ver /\ k.text = s.current.text /\ ~k.consumed
  OBVIOUS
<1> HIDE DEF k
<1>5. u.seq = s.seq /\ u.current = s.current /\ u.tokens = Append(s.tokens, k)
  BY <1>1, <1>3 DEF QuestionState
<1>6. /\ DOMAIN u.tokens = DOMAIN s.tokens \cup {Len(s.tokens) + 1}
      /\ \A i \in DOMAIN s.tokens : u.tokens[i] = s.tokens[i]
      /\ u.tokens[Len(s.tokens) + 1] = k
  BY <1>1, <1>3, <1>5 DEF QuestionState
<1>7. ContinuesTokens(s, u)
  BY <1>4, <1>6 DEF ContinuesTokens
<1>8. GoodQuestion(u)
  BY <1>4, <1>5, <1>6 DEF GoodQuestion, IInv, Loadable, LiveTokenIsCurrent
<1> QED BY <1>2, <1>3, <1>7, <1>8, OneQuestionStep

\* A confirmed answer is answer state: the set-up is locked, hence verified.
LEMMA AnsweredVerified ==
  ASSUME IInv, NEW q \in DOMAIN manifest.questions, HasAnswer(manifest.questions[q])
  PROVE  manifest.verified
BY DEF IInv, Loadable, QuestionSetupIsLocked, HasAnswerState

\* begin_revision keeps IInv.
LEMMA ReviseAnswerStep == IInv /\ ReviseAnswer => IInv'
<1> SUFFICES ASSUME IInv, NEW t \in Times, NEW q \in DOMAIN manifest.questions,
                    CanBeginRevision(manifest, q, t),
                    manifest' = BeginRevision(manifest, q)
             PROVE  IInv'
  BY DEF ReviseAnswer
<1> DEFINE s == manifest.questions[q]
           u == manifest'.questions[q]
<1>1. IsManifest(manifest) /\ s \in QuestionState
  BY DEF IInv, TypeOK, IsManifest
<1>2. manifest.verified
  BY AnsweredVerified DEF CanBeginRevision
<1>3. /\ OnlyQuestion(manifest, manifest', q)
      /\ manifest'.receipts = manifest.receipts
      /\ u = [seq |-> s.seq, current |-> NoCandidate, confirmed |-> s.confirmed,
              revision |-> [prior |-> s.confirmed.rev, seed |-> s.confirmed.text],
              rephrases |-> s.rephrases, tokens |-> InvalidateReviews(s.tokens)]
  BY <1>1, BeginRevisionFacts
<1>4. /\ ContinuesTokens(s, u)
      /\ \A i \in DOMAIN u.tokens : u.tokens[i].invalidated
  BY <1>1, <1>3, InvalidatedTokens
<1>5. u.current.ver <= u.seq
  BY <1>1, <1>3 DEF QuestionState, NoCandidate
<1>6. GoodQuestion(u)
  BY <1>4, <1>5 DEF GoodQuestion
<1> QED BY <1>2, <1>3, <1>4, <1>6, OneQuestionStep

\* The one step that consumes a token and adds the receipt for it.
LEMMA ConfirmAnswerStep == IInv /\ ConfirmAnswer => IInv'
<1> SUFFICES ASSUME IInv, NEW t \in Times, NEW q \in DOMAIN manifest.questions,
                    NEW tok \in DOMAIN manifest.questions[q].tokens,
                    CanConfirmCandidate(manifest, q, tok, manifest.questions[q].current.ver,
                                        manifest.version, t),
                    manifest' = ConfirmCandidate(manifest, q, tok)
             PROVE  IInv'
  BY DEF ConfirmAnswer
<1> DEFINE s == manifest.questions[q]
           u == manifest'.questions[q]
           k == s.tokens[tok]
           a == [rev |-> s.confirmed.rev + 1, cand |-> s.current.ver,
                 text |-> s.current.text, origin |-> s.current.origin]
           r == [q |-> q, tok |-> tok, cand |-> s.current.ver, aver |-> manifest.version,
                 version |-> manifest.version + 1, answer |-> a]
<1>1. IsManifest(manifest) /\ s \in QuestionState /\ s.tokens \in Seq(ReviewToken)
  BY DEF IInv, TypeOK, IsManifest, QuestionState
<1>2. /\ manifest.verified /\ ReceiptsOf(manifest, q, tok) = {}
      /\ k.cand = s.current.ver /\ k.text = s.current.text /\ k.aver = manifest.version
  BY DEF CanConfirmCandidate
<1>3. /\ OnlyQuestion(manifest, manifest', q)
      /\ manifest'.receipts = manifest.receipts \cup {r}
      /\ u = [seq |-> s.seq, current |-> s.current, confirmed |-> a,
              revision |-> NoRevision, rephrases |-> s.rephrases,
              tokens |-> ConsumeReview(s.tokens, tok)]
  BY <1>1, ConfirmCandidateFacts
<1>4. /\ u.seq = s.seq /\ u.current = s.current
      /\ u.tokens = ConsumeReview(s.tokens, tok)
  BY <1>3
<1>5. /\ r.q = q /\ r.tok = tok /\ r.aver = manifest.version
      /\ r.answer.text = s.current.text /\ r.answer.cand = s.current.ver
  OBVIOUS
<1> HIDE DEF r
<1>6. /\ DOMAIN u.tokens = DOMAIN s.tokens
      /\ \A i \in DOMAIN s.tokens \ {tok} : u.tokens[i] = s.tokens[i]
      /\ u.tokens[tok].cand = k.cand /\ u.tokens[tok].text = k.text
      /\ u.tokens[tok].aver = k.aver
      /\ u.tokens[tok].invalidated = k.invalidated
      /\ u.tokens[tok].consumed = TRUE
  <2>1. ASSUME NEW z, z = u.tokens
        PROVE  /\ DOMAIN z = DOMAIN s.tokens
               /\ \A i \in DOMAIN s.tokens \ {tok} : z[i] = s.tokens[i]
               /\ z[tok].cand = k.cand /\ z[tok].text = k.text
               /\ z[tok].aver = k.aver
               /\ z[tok].invalidated = k.invalidated
               /\ z[tok].consumed = TRUE
    <3> DEFINE old == s.tokens
    <3>1. old \in Seq(ReviewToken) /\ tok \in DOMAIN old /\ z = ConsumeReview(old, tok)
      BY <1>1, <1>4, <2>1
    <3> HIDE DEF s, u
    <3> HIDE DEF old
    <3>2. /\ DOMAIN z = DOMAIN old
          /\ \A i \in DOMAIN old \ {tok} : z[i] = old[i]
          /\ z[tok].cand = old[tok].cand /\ z[tok].text = old[tok].text
          /\ z[tok].aver = old[tok].aver
          /\ z[tok].invalidated = old[tok].invalidated
          /\ z[tok].consumed = TRUE
      BY <3>1, ConsumeFacts, Zenon
    <3> QED BY <3>2, Zenon DEF old
  <2> QED BY <2>1, Zenon
<1>6a. \A i \in DOMAIN s.tokens :
         /\ u.tokens[i].cand = s.tokens[i].cand /\ u.tokens[i].text = s.tokens[i].text
         /\ u.tokens[i].aver = s.tokens[i].aver
  <2> SUFFICES ASSUME NEW i \in DOMAIN s.tokens
               PROVE  /\ u.tokens[i].cand = s.tokens[i].cand
                      /\ u.tokens[i].text = s.tokens[i].text
                      /\ u.tokens[i].aver = s.tokens[i].aver
    OBVIOUS
  <2>1. CASE i = tok
    BY <2>1, <1>6
  <2>2. CASE i # tok
    BY <2>2, <1>6
  <2> QED BY <2>1, <2>2
<1>7. TypeOK' /\ EmptyUntilReady'
  BY <1>3 DEF TypeOK, OnlyQuestion, IInv, EmptyUntilReady
<1>8. Loadable'
  <2>1. manifest'.verified
    BY <1>2, <1>3 DEF OnlyQuestion
  <2>2. \A p \in DOMAIN manifest'.questions :
          manifest'.questions[p].current.ver <= manifest'.questions[p].seq
    BY <1>3, <1>4 DEF IInv, Loadable, OnlyQuestion
  <2>3. \A x, y \in manifest'.receipts : (x.q = y.q /\ x.tok = y.tok) => x = y
    BY <1>2, <1>3, <1>5 DEF IInv, Loadable, ReceiptsOf
  <2> QED BY <2>1, <2>2, <2>3 DEF Loadable
<1>9. LiveTokenIsCurrent'
  <2> SUFFICES ASSUME NEW p \in DOMAIN manifest'.questions,
                      NEW i \in DOMAIN manifest'.questions[p].tokens,
                      ~manifest'.questions[p].tokens[i].invalidated
               PROVE  LET z == manifest'.questions[p]
                      IN  z.tokens[i].cand = z.current.ver /\ z.tokens[i].text = z.current.text
    BY DEF LiveTokenIsCurrent
  <2>1. CASE p # q
    BY <2>1, <1>3 DEF IInv, LiveTokenIsCurrent, OnlyQuestion
  <2>2. CASE p = q /\ i # tok
    BY <2>2, <1>4, <1>6 DEF IInv, LiveTokenIsCurrent
  <2>3. CASE p = q /\ i = tok
    BY <2>3, <1>2, <1>4, <1>6
  <2> QED BY <2>1, <2>2, <2>3
<1>10. ConsumedOnce'
  <2> SUFFICES ASSUME NEW p \in DOMAIN manifest'.questions,
                      NEW i \in DOMAIN manifest'.questions[p].tokens
               PROVE  manifest'.questions[p].tokens[i].consumed
                        <=> ReceiptsOf(manifest', p, i) # {}
    BY DEF ConsumedOnce
  <2>1. CASE p = q /\ i = tok
    BY <2>1, <1>3, <1>5, <1>6 DEF ReceiptsOf
  <2>2. CASE ~(p = q /\ i = tok)
    <3>1. ReceiptsOf(manifest', p, i) = ReceiptsOf(manifest, p, i)
      BY <2>2, <1>3, <1>5 DEF ReceiptsOf
    <3>2. /\ p \in DOMAIN manifest.questions
          /\ i \in DOMAIN manifest.questions[p].tokens
          /\ manifest'.questions[p].tokens[i] = manifest.questions[p].tokens[i]
      BY <2>2, <1>3, <1>6 DEF OnlyQuestion
    <3> QED BY <3>1, <3>2 DEF IInv, ConsumedOnce
  <2> QED BY <2>1, <2>2
<1>11. ConfirmedAsReviewed'
  <2> SUFFICES ASSUME NEW x \in manifest.receipts \cup {r}
               PROVE  /\ x.q \in DOMAIN manifest'.questions
                      /\ x.tok \in DOMAIN manifest'.questions[x.q].tokens
                      /\ LET z == manifest'.questions[x.q].tokens[x.tok]
                         IN  x.answer.text = z.text /\ x.answer.cand = z.cand /\ x.aver = z.aver
    BY <1>3 DEF ConfirmedAsReviewed
  <2>1. CASE x = r
    BY <2>1, <1>2, <1>3, <1>5, <1>6 DEF OnlyQuestion
  <2>2. CASE x \in manifest.receipts /\ x.q # q
    BY <2>2, <1>3, SMTT(40) DEF IInv, ConfirmedAsReviewed, OnlyQuestion
  <2>3. CASE x \in manifest.receipts /\ x.q = q
    <3>1. /\ x.q \in DOMAIN manifest.questions /\ x.tok \in DOMAIN s.tokens
          /\ x.answer.text = s.tokens[x.tok].text /\ x.answer.cand = s.tokens[x.tok].cand
          /\ x.aver = s.tokens[x.tok].aver
      BY <2>3 DEF IInv, ConfirmedAsReviewed
    <3> QED BY <3>1, <2>3, <1>3, <1>6, <1>6a DEF OnlyQuestion
  <2> QED BY <2>1, <2>2, <2>3
<1> QED
  BY <1>7, <1>8, <1>9, <1>10, <1>11 DEF IInv

-----------------------------------------------------------------------------
(* Steps that replace the questions: only while nothing depends on them.   *)

\* A new question holds no answer state, so it does not lock the set-up.
LEMMA NewQuestionEmpty ==
  /\ ~HasAnswerState(NewQuestion) /\ NewQuestion.tokens = <<>>
  /\ NewQuestion.current.ver <= NewQuestion.seq
BY DEF HasAnswerState, NewQuestion, NoCandidate, NoAnswer, NoRevision, HasCandidate, HasAnswer

\* Starting over with empty questions keeps IInv while nothing is on record.
LEMMA FreshQuestionsStep ==
  ASSUME IsManifest(manifest'), manifest'.receipts = {},
         EmptyUntilReady',
         \A q \in DOMAIN manifest'.questions :
           /\ ~HasAnswerState(manifest'.questions[q])
           /\ manifest'.questions[q].current.ver <= manifest'.questions[q].seq
  PROVE  IInv'
<1>1. \A q \in DOMAIN manifest'.questions : manifest'.questions[q].tokens = <<>>
  BY DEF HasAnswerState
<1>2. Loadable'
  BY DEF Loadable, QuestionSetupIsLocked
<1>3. LiveTokenIsCurrent' /\ ConsumedOnce'
  BY <1>1 DEF LiveTokenIsCurrent, ConsumedOnce
<1> QED
  BY <1>2, <1>3 DEF IInv, TypeOK, ConfirmedAsReviewed

\* Accepting the set-up keeps IInv.
LEMMA AcceptSetupStep == IInv /\ AcceptSetup => IInv'
<1> SUFFICES ASSUME IInv, NEW t \in Times, CanAcceptQuestionSetup(manifest, t),
                    manifest' = AcceptQuestionSetup(manifest)
             PROVE  IInv'
  BY DEF AcceptSetup
<1> DEFINE k == WithQuestions(manifest, TRUE, manifest.questions)
           S == DOMAIN manifest.questions
<1>1. /\ IsManifest(manifest)
      /\ S \in SUBSET QuestionIds /\ manifest.questions \in [S -> QuestionState]
  BY DEF IInv, TypeOK, IsManifest
<1>2. /\ IsManifest(k) /\ k.status = manifest.status
      /\ k.receipts = manifest.receipts /\ k.questions = manifest.questions
  <2> HIDE DEF S
  <2> QED BY <1>1, WithQuestionsFacts
<1> HIDE DEF k
<1>3. /\ IsManifest(manifest') /\ manifest'.status = manifest.status
      /\ manifest'.receipts = manifest.receipts /\ manifest'.questions = manifest.questions
  BY <1>2, BumpFacts DEF AcceptQuestionSetup, k
<1>4. /\ manifest.receipts = {}
      /\ \A q \in DOMAIN manifest.questions :
           /\ ~HasAnswerState(manifest.questions[q])
           /\ manifest.questions[q].current.ver <= manifest.questions[q].seq
  BY DEF CanAcceptQuestionSetup, QuestionSetupIsLocked, IInv, Loadable
<1>5. EmptyUntilReady'
  BY <1>3 DEF IInv, EmptyUntilReady
<1> QED BY <1>3, <1>4, <1>5, FreshQuestionsStep

\* A set-up change keeps IInv: the lock leaves it only empty questions.
LEMMA ChangeSetupStep == IInv /\ ChangeSetup => IInv'
<1> SUFFICES ASSUME IInv, NEW t \in Times, manifest.status = "READY",
                    \/ \E S \in SUBSET QuestionIds :
                         /\ CanReplaceQuestionSetup(manifest, S, t)
                         /\ manifest' = ReplaceQuestionSetup(manifest, S)
                    \/ /\ CanResetQuestionSetup(manifest, t)
                       /\ manifest' = ResetQuestionSetup(manifest)
             PROVE  IInv'
  BY DEF ChangeSetup
<1>1. IsManifest(manifest)
  BY DEF IInv, TypeOK
<1>2. ~QuestionSetupIsLocked(manifest)
  BY DEF CanResetQuestionSetup, CanReplaceQuestionSetup
<1>3. /\ manifest.receipts = {}
      /\ \A q \in DOMAIN manifest.questions :
           /\ ~HasAnswerState(manifest.questions[q])
           /\ manifest.questions[q].current.ver <= manifest.questions[q].seq
  BY <1>2 DEF QuestionSetupIsLocked, IInv, Loadable
<1>4. ASSUME NEW S \in SUBSET QuestionIds, NEW Q \in [S -> QuestionState],
             \A q \in S : /\ ~HasAnswerState(Q[q])
                          /\ Q[q].current.ver <= Q[q].seq,
             manifest' = Bump(WithQuestions(manifest, FALSE, Q))
      PROVE  IInv'
  <2> DEFINE k == WithQuestions(manifest, FALSE, Q)
  <2>1. /\ IsManifest(k) /\ k.status = manifest.status
        /\ k.receipts = manifest.receipts /\ k.questions = Q
    BY <1>1, WithQuestionsFacts
  <2> HIDE DEF k
  <2>2. /\ IsManifest(manifest') /\ manifest'.status = manifest.status
        /\ manifest'.receipts = {} /\ manifest'.questions = Q
    BY <1>3, <1>4, <2>1, BumpFacts DEF k
  <2>3. EmptyUntilReady'
    BY <2>2 DEF EmptyUntilReady
  <2> QED BY <1>4, <2>2, <2>3, FreshQuestionsStep
<1>5. CASE \E S \in SUBSET QuestionIds : manifest' = ReplaceQuestionSetup(manifest, S)
  <2> PICK S \in SUBSET QuestionIds : manifest' = ReplaceQuestionSetup(manifest, S)
    BY <1>5
  <2> DEFINE Q == [q \in S |-> IF HasQuestion(manifest, q) THEN manifest.questions[q]
                                                          ELSE NewQuestion]
  <2>1. Q \in [S -> QuestionState]
    BY <1>1, NewQuestionType DEF IsManifest, HasQuestion
  <2>2. \A q \in S : /\ ~HasAnswerState(Q[q])
                     /\ Q[q].current.ver <= Q[q].seq
    BY <1>3, NewQuestionEmpty DEF HasQuestion
  <2>3. manifest' = Bump(WithQuestions(manifest, FALSE, Q))
    BY DEF ReplaceQuestionSetup
  <2> HIDE DEF Q
  <2> QED BY <1>4, <2>1, <2>2, <2>3
<1>6. CASE manifest' = ResetQuestionSetup(manifest)
  <2>1. Detected \in SUBSET QuestionIds /\ Fresh(Detected) \in [Detected -> QuestionState]
    BY FreshType, ConstantsAssumption
  <2>2. \A q \in Detected : /\ ~HasAnswerState(Fresh(Detected)[q])
                            /\ Fresh(Detected)[q].current.ver <= Fresh(Detected)[q].seq
    BY NewQuestionEmpty DEF Fresh
  <2> QED BY <1>4, <1>6, <2>1, <2>2 DEF ResetQuestionSetup
<1> QED BY <1>5, <1>6

\* Both ends of analysis keep IInv.
LEMMA EndAnalysisStep == IInv /\ EndAnalysis => IInv'
<1> SUFFICES ASSUME IInv, EndAnalysis
             PROVE  IInv'
  OBVIOUS
<1>1. /\ IsManifest(manifest) /\ manifest.receipts = {} /\ manifest.verified \in BOOLEAN
      /\ \/ manifest' = FinishAnalysis(manifest)
         \/ manifest' = FailAnalysis(manifest)
  BY DEF IInv, TypeOK, EmptyUntilReady, EndAnalysis, IsManifest
<1>2. ASSUME NEW S \in SUBSET QuestionIds, NEW b \in BOOLEAN, NEW status \in Status,
             manifest' = [WithQuestions(manifest, b, Fresh(S)) EXCEPT !.status = status],
             status = "READY" \/ S = {}
      PROVE  IInv'
  <2> DEFINE k == WithQuestions(manifest, b, Fresh(S))
  <2>1. IsManifest(k) /\ k.receipts = manifest.receipts /\ k.questions = Fresh(S)
    BY <1>1, FreshType, WithQuestionsFacts
  <2> HIDE DEF k
  <2>2. /\ IsManifest(manifest') /\ manifest'.status = status
        /\ manifest'.receipts = {} /\ manifest'.questions = Fresh(S)
    BY <1>1, <1>2, <2>1, WithStatusFacts DEF k
  <2>3. EmptyUntilReady'
    BY <1>2, <2>2 DEF EmptyUntilReady, Fresh
  <2>4. \A q \in DOMAIN manifest'.questions :
          /\ ~HasAnswerState(manifest'.questions[q])
          /\ manifest'.questions[q].current.ver <= manifest'.questions[q].seq
    BY <2>2, NewQuestionEmpty DEF Fresh
  <2> QED BY <2>2, <2>3, <2>4, FreshQuestionsStep
<1>3. CASE manifest' = FinishAnalysis(manifest)
  BY <1>2, <1>3, ConstantsAssumption DEF FinishAnalysis, Status
<1>4. CASE manifest' = FailAnalysis(manifest)
  BY <1>1, <1>2, <1>4 DEF FailAnalysis, Status
<1> QED BY <1>1, <1>3, <1>4

-----------------------------------------------------------------------------
(* The invariants as theorems.                                             *)

\* Every request keeps the inductive invariant.
THEOREM StepIInv == IInv /\ [Next]_manifest => IInv'
<1> SUFFICES ASSUME IInv, [Next]_manifest
             PROVE  IInv'
  OBVIOUS
<1>1. CASE EndAnalysis
  BY <1>1, EndAnalysisStep
<1>2. CASE AcceptSetup
  BY <1>2, AcceptSetupStep
<1>3. CASE ChangeSetup
  BY <1>3, ChangeSetupStep
<1>4. CASE CreateCandidate
  BY <1>4, CreateCandidateStep
<1>5. CASE RequestRephrase
  BY <1>5, RequestRephraseStep
<1>6. CASE CreateReview
  BY <1>6, CreateReviewStep
<1>7. CASE ConfirmAnswer
  BY <1>7, ConfirmAnswerStep
<1>8. CASE ReviseAnswer
  BY <1>8, ReviseAnswerStep
<1>9. CASE UNCHANGED manifest
  BY <1>9 DEF IInv, TypeOK, EmptyUntilReady, Loadable, LiveTokenIsCurrent, ConsumedOnce,
              ConfirmedAsReviewed, ReceiptsOf, QuestionSetupIsLocked
<1> QED
  BY <1>1, <1>2, <1>3, <1>4, <1>5, <1>6, <1>7, <1>8, <1>9 DEF Next

\* IInv holds in every reachable state of the atomic service.
THEOREM Invariance == Spec => []IInv
<1>1. Init => IInv
  BY InitIInv
<1>2. IInv /\ [Next]_manifest => IInv'
  BY StepIInv
<1> QED BY <1>1, <1>2, PTL DEF Spec

\* The manifest keeps its shape through every history of requests.
THEOREM TypeCorrect == Spec => []TypeOK
<1>1. IInv => TypeOK
  BY DEF IInv
<1> QED BY <1>1, Invariance, PTL

\* No history of requests stores a manifest that could not be loaded again.
THEOREM AlwaysLoadable == Spec => []Loadable
<1>1. IInv => Loadable
  BY DEF IInv
<1> QED BY <1>1, Invariance, PTL

\* A review confirms at most once, and only the wording it showed.
THEOREM ReviewsAreHonoured == Spec => [](LiveTokenIsCurrent /\ ConsumedOnce /\ ConfirmedAsReviewed)
<1>1. IInv => LiveTokenIsCurrent /\ ConsumedOnce /\ ConfirmedAsReviewed
  BY DEF IInv
<1> QED BY <1>1, Invariance, PTL

-----------------------------------------------------------------------------
(* What a step does to the history of answers.                             *)

\* One question's part of RevisionOfLatest and SuggestedWordingIsRecorded.
RevisesLatest(s) ==
  s.revision # NoRevision =>
    HasAnswer(s) /\ s.revision = [prior |-> s.confirmed.rev, seed |-> s.confirmed.text]

IsSuggested(s, v, x) ==
  \E r \in s.rephrases : r.suggestion = v /\ r.text = x /\ r.original < v

WordingRecorded(s) ==
  /\ s.current.origin = "claros_rephrase" => IsSuggested(s, s.current.ver, s.current.text)
  /\ s.confirmed.origin = "claros_rephrase" => IsSuggested(s, s.confirmed.cand, s.confirmed.text)

GoodHistory(s) == RevisesLatest(s) /\ WordingRecorded(s)

HInv == RevisionsComplete /\ \A q \in DOMAIN manifest.questions : GoodHistory(manifest.questions[q])

\* The history question by question is what the runs check.
LEMMA HInvMeans == HInv <=> RevisionsComplete /\ RevisionOfLatest /\ SuggestedWordingIsRecorded
BY DEF HInv, GoodHistory, RevisesLatest, WordingRecorded, IsSuggested, RevisionOfLatest,
       SuggestedWordingIsRecorded

\* A question starts with no history.
LEMMA NewQuestionHistory == GoodHistory(NewQuestion) /\ NewQuestion.confirmed = NoAnswer
BY DEF GoodHistory, RevisesLatest, WordingRecorded, NewQuestion, NoCandidate, NoAnswer

\* The end of analysis and the changes of the set-up.
SetupStep == EndAnalysis \/ AcceptSetup \/ ChangeSetup

\* They happen before there is any history.
LEMMA SetupFacts ==
  ASSUME IInv, SetupStep
  PROVE  /\ manifest.receipts = {} /\ manifest'.receipts = {}
         /\ \A q \in DOMAIN manifest.questions : ~HasAnswerState(manifest.questions[q])
         /\ \A q \in DOMAIN manifest'.questions :
              \/ manifest'.questions[q] = NewQuestion
              \/ /\ q \in DOMAIN manifest.questions
                 /\ manifest'.questions[q] = manifest.questions[q]
         /\ manifest'.version = manifest.version + 1 \/ manifest.status = "ANALYZING"
<1>1. IsManifest(manifest) /\ manifest.verified \in BOOLEAN
  BY DEF IInv, TypeOK, IsManifest
<1>2. ASSUME NEW b \in BOOLEAN, NEW S \in SUBSET QuestionIds, NEW Q \in [S -> QuestionState],
             manifest' = Bump(WithQuestions(manifest, b, Q)),
             ~QuestionSetupIsLocked(manifest),
             \A q \in S : Q[q] = NewQuestion
                          \/ (q \in DOMAIN manifest.questions /\ Q[q] = manifest.questions[q])
      PROVE  /\ manifest.receipts = {} /\ manifest'.receipts = {}
             /\ \A q \in DOMAIN manifest.questions : ~HasAnswerState(manifest.questions[q])
             /\ \A q \in DOMAIN manifest'.questions :
                  \/ manifest'.questions[q] = NewQuestion
                  \/ /\ q \in DOMAIN manifest.questions
                     /\ manifest'.questions[q] = manifest.questions[q]
             /\ manifest'.version = manifest.version + 1
  <2> DEFINE k == WithQuestions(manifest, b, Q)
  <2>1. /\ IsManifest(k) /\ k.version = manifest.version
        /\ k.receipts = manifest.receipts /\ k.questions = Q
    BY <1>1, WithQuestionsFacts
  <2> HIDE DEF k
  <2>2. /\ manifest'.version = manifest.version + 1
        /\ manifest'.receipts = manifest.receipts /\ manifest'.questions = Q
    BY <1>2, <2>1, BumpFacts DEF k
  <2> QED
    BY <1>2, <2>2 DEF QuestionSetupIsLocked
<1>3. CASE AcceptSetup
  <2>1. manifest' = Bump(WithQuestions(manifest, TRUE, manifest.questions))
        /\ ~QuestionSetupIsLocked(manifest)
    BY <1>3 DEF AcceptSetup, AcceptQuestionSetup, CanAcceptQuestionSetup
  <2>2. /\ DOMAIN manifest.questions \in SUBSET QuestionIds
        /\ manifest.questions \in [DOMAIN manifest.questions -> QuestionState]
    BY <1>1 DEF IsManifest
  <2> QED
    BY <1>2, <2>1, <2>2
<1>4. CASE ChangeSetup
  <2>1. PICK t \in Times :
          \/ \E S \in SUBSET QuestionIds :
               /\ CanReplaceQuestionSetup(manifest, S, t)
               /\ manifest' = ReplaceQuestionSetup(manifest, S)
          \/ /\ CanResetQuestionSetup(manifest, t)
             /\ manifest' = ResetQuestionSetup(manifest)
    BY <1>4 DEF ChangeSetup
  <2>2. ~QuestionSetupIsLocked(manifest)
    BY <2>1 DEF CanResetQuestionSetup, CanReplaceQuestionSetup
  <2>3. CASE \E S \in SUBSET QuestionIds : manifest' = ReplaceQuestionSetup(manifest, S)
    <3> PICK S \in SUBSET QuestionIds : manifest' = ReplaceQuestionSetup(manifest, S)
      BY <2>3
    <3> DEFINE Q == [q \in S |-> IF HasQuestion(manifest, q) THEN manifest.questions[q]
                                                            ELSE NewQuestion]
    <3>1. Q \in [S -> QuestionState]
      BY <1>1, NewQuestionType DEF IsManifest, HasQuestion
    <3>2. \A q \in S : Q[q] = NewQuestion
                       \/ (q \in DOMAIN manifest.questions /\ Q[q] = manifest.questions[q])
      BY DEF HasQuestion
    <3>3. manifest' = Bump(WithQuestions(manifest, FALSE, Q))
      BY DEF ReplaceQuestionSetup
    <3> HIDE DEF Q
    <3> QED
      BY <1>2, <2>2, <3>1, <3>2, <3>3
  <2>4. CASE manifest' = ResetQuestionSetup(manifest)
    <3>1. Detected \in SUBSET QuestionIds /\ Fresh(Detected) \in [Detected -> QuestionState]
      BY FreshType, ConstantsAssumption
    <3>2. \A q \in Detected : Fresh(Detected)[q] = NewQuestion
      BY DEF Fresh
    <3> QED
      BY <1>2, <2>2, <2>4, <3>1, <3>2 DEF ResetQuestionSetup
  <2> QED
    BY <2>1, <2>3, <2>4
<1>5. CASE EndAnalysis
  <2>1. manifest.status = "ANALYZING" /\ manifest.receipts = {} /\ DOMAIN manifest.questions = {}
    BY <1>5 DEF EndAnalysis, IInv, EmptyUntilReady
  <2>2. ASSUME NEW S \in SUBSET QuestionIds, NEW b \in BOOLEAN, NEW status \in Status,
               manifest' = [WithQuestions(manifest, b, Fresh(S)) EXCEPT !.status = status]
        PROVE  /\ manifest'.receipts = {}
               /\ \A q \in DOMAIN manifest'.questions : manifest'.questions[q] = NewQuestion
    <3> DEFINE k == WithQuestions(manifest, b, Fresh(S))
    <3>1. IsManifest(k) /\ k.receipts = manifest.receipts /\ k.questions = Fresh(S)
      BY <1>1, FreshType, WithQuestionsFacts
    <3> HIDE DEF k
    <3>2. manifest'.receipts = {} /\ manifest'.questions = Fresh(S)
      BY <2>1, <2>2, <3>1, WithStatusFacts DEF k
    <3> QED
      BY <3>2 DEF Fresh
  <2>3. CASE manifest' = FinishAnalysis(manifest)
    BY <2>1, <2>2, <2>3, ConstantsAssumption DEF FinishAnalysis, Status
  <2>4. CASE manifest' = FailAnalysis(manifest)
    BY <1>1, <2>1, <2>2, <2>4 DEF FailAnalysis, Status
  <2> QED
    BY <1>5, <2>3, <2>4 DEF EndAnalysis
<1> QED
  BY <1>3, <1>4, <1>5 DEF SetupStep

\* A step on one question that confirms nothing.
KeepsAnswer(q) ==
  /\ OnlyQuestion(manifest, manifest', q) /\ manifest'.receipts = manifest.receipts
  /\ manifest'.questions[q].confirmed = manifest.questions[q].confirmed

\* A question's state as anyone but its review tokens' owner sees it.
WithoutTokens(s) == [s EXCEPT !.tokens = <<>>]

\* The public version stands still only when a review is issued.
ShowsNothing(q) ==
  \E z : manifest'.questions[q] = [manifest.questions[q] EXCEPT !.tokens = z]

\* The requests that write a question without confirming.
LEMMA WritingFacts ==
  ASSUME IInv, \A q \in DOMAIN manifest.questions : GoodHistory(manifest.questions[q]),
         CreateCandidate \/ RequestRephrase \/ CreateReview \/ ReviseAnswer
  PROVE  \E q \in DOMAIN manifest.questions :
           /\ KeepsAnswer(q) /\ GoodHistory(manifest'.questions[q])
           /\ \/ manifest'.version = manifest.version + 1
              \/ manifest'.version = manifest.version /\ ShowsNothing(q)
<1>1. /\ IsManifest(manifest)
      /\ \A q \in DOMAIN manifest.questions : /\ manifest.questions[q] \in QuestionState
                                              /\ GoodHistory(manifest.questions[q])
                                              /\ manifest.questions[q].current.ver <= manifest.questions[q].seq
  BY DEF IInv, TypeOK, IsManifest, Loadable
<1>2. CASE CreateCandidate
  <2>1. PICK t \in Times, q \in DOMAIN manifest.questions, text \in Texts, origin \in Origins :
          \E prior : /\ CanReplaceCandidate(manifest, q, text, origin, prior, t)
                     /\ manifest' = ReplaceCandidate(manifest, q, text, origin)
    BY <1>2 DEF CreateCandidate
  <2>2. PICK prior : /\ CanReplaceCandidate(manifest, q, text, origin, prior, t)
                     /\ manifest' = ReplaceCandidate(manifest, q, text, origin)
    BY <2>1
  <2> DEFINE s == manifest.questions[q]
             u == manifest'.questions[q]
  <2>3. /\ OnlyQuestion(manifest, manifest', q)
        /\ manifest'.version = manifest.version + 1 /\ manifest'.receipts = manifest.receipts
        /\ u = [seq |-> s.seq + 1,
                current |-> [ver |-> s.seq + 1, text |-> text, origin |-> origin],
                confirmed |-> s.confirmed, revision |-> s.revision,
                rephrases |-> s.rephrases, tokens |-> InvalidateReviews(s.tokens)]
    BY <1>1, <2>2, ReplaceCandidateFacts
  <2>4. origin = "claros_rephrase" => IsSuggested(s, s.seq + 1, text)
    <3>1. s \in QuestionState /\ s.current.ver <= s.seq
      BY <1>1
    <3>2. ASSUME origin = "claros_rephrase"
          PROVE  \E r \in s.rephrases : r.original = s.current.ver /\ r.suggestion = s.seq + 1 /\ r.text = text
      BY <2>2, <3>2 DEF CanReplaceCandidate, ValidOrigin
    <3> QED
      BY <3>1, <3>2 DEF IsSuggested, QuestionState, Candidate
  <2>5. RevisesLatest(u)
    BY <1>1, <2>3 DEF GoodHistory, RevisesLatest, HasAnswer
  <2>6. WordingRecorded(u)
    BY <1>1, <2>3, <2>4 DEF GoodHistory, WordingRecorded, IsSuggested
  <2> QED
    BY <2>3, <2>5, <2>6 DEF KeepsAnswer, GoodHistory
<1>3. CASE RequestRephrase
  <2>1. PICK q \in DOMAIN manifest.questions, text \in Texts :
          manifest' = RecordRephrase(manifest, q, text)
    BY <1>3 DEF RequestRephrase
  <2> DEFINE s == manifest.questions[q]
             u == manifest'.questions[q]
             r == [original |-> s.current.ver, suggestion |-> s.seq + 1, text |-> text]
  <2>2. /\ OnlyQuestion(manifest, manifest', q)
        /\ manifest'.version = manifest.version + 1 /\ manifest'.receipts = manifest.receipts
        /\ u = [s EXCEPT !.rephrases = @ \cup {r}]
    BY <1>1, <2>1, RecordRephraseFacts
  <2> HIDE DEF r
  <2>3. /\ u.current = s.current /\ u.confirmed = s.confirmed /\ u.revision = s.revision
        /\ u.rephrases = s.rephrases \cup {r}
    BY <1>1, <2>2 DEF QuestionState
  <2>4. GoodHistory(u)
    BY <1>1, <2>3 DEF GoodHistory, RevisesLatest, WordingRecorded, IsSuggested, HasAnswer
  <2> QED
    BY <2>2, <2>3, <2>4 DEF KeepsAnswer
<1>4. CASE CreateReview
  <2>1. PICK t \in Times, q \in DOMAIN manifest.questions : manifest' = IssueReview(manifest, q, t)
    BY <1>4 DEF CreateReview
  <2> DEFINE s == manifest.questions[q]
             u == manifest'.questions[q]
             k == [cand |-> s.current.ver, text |-> s.current.text, aver |-> manifest.version,
                   expires |-> t + ReviewTTL, consumed |-> FALSE, invalidated |-> FALSE]
  <2>2. /\ OnlyQuestion(manifest, manifest', q)
        /\ manifest'.version = manifest.version /\ manifest'.receipts = manifest.receipts
        /\ u = [s EXCEPT !.tokens = Append(@, k)]
    BY <1>1, <2>1, IssueReviewFacts
  <2> HIDE DEF k
  <2>3. /\ u.current = s.current /\ u.confirmed = s.confirmed /\ u.revision = s.revision
        /\ u.rephrases = s.rephrases
    BY <1>1, <2>2 DEF QuestionState
  <2>4. GoodHistory(u)
    BY <1>1, <2>3 DEF GoodHistory, RevisesLatest, WordingRecorded, IsSuggested, HasAnswer
  <2>5. ShowsNothing(q)
    BY <2>2 DEF ShowsNothing
  <2> QED
    BY <2>2, <2>3, <2>4, <2>5 DEF KeepsAnswer
<1>5. CASE ReviseAnswer
  <2>1. PICK t \in Times, q \in DOMAIN manifest.questions :
          CanBeginRevision(manifest, q, t) /\ manifest' = BeginRevision(manifest, q)
    BY <1>5 DEF ReviseAnswer
  <2> DEFINE s == manifest.questions[q]
             u == manifest'.questions[q]
  <2>2. /\ OnlyQuestion(manifest, manifest', q)
        /\ manifest'.version = manifest.version + 1 /\ manifest'.receipts = manifest.receipts
        /\ u = [seq |-> s.seq, current |-> NoCandidate, confirmed |-> s.confirmed,
                revision |-> [prior |-> s.confirmed.rev, seed |-> s.confirmed.text],
                rephrases |-> s.rephrases, tokens |-> InvalidateReviews(s.tokens)]
    BY <1>1, <2>1, BeginRevisionFacts
  <2>3. HasAnswer(s)
    BY <2>1 DEF CanBeginRevision
  <2>4. RevisesLatest(u)
    BY <2>2, <2>3 DEF RevisesLatest, HasAnswer
  <2>5. WordingRecorded(u)
    BY <1>1, <2>2 DEF GoodHistory, WordingRecorded, IsSuggested, NoCandidate
  <2> QED
    BY <2>2, <2>4, <2>5 DEF KeepsAnswer, GoodHistory
<1> QED
  BY <1>2, <1>3, <1>4, <1>5

\* The confirmation of a question, as its history sees it.
ConfirmsAnswer(q, r) ==
  /\ OnlyQuestion(manifest, manifest', q)
  /\ manifest'.receipts = manifest.receipts \cup {r}
  /\ r.q = q /\ r.answer = manifest'.questions[q].confirmed
  /\ r.answer.rev = manifest.questions[q].confirmed.rev + 1
  /\ r.version = manifest.version + 1 /\ manifest'.version = manifest.version + 1

\* The request that confirms.
LEMMA ConfirmFacts ==
  ASSUME IInv, \A q \in DOMAIN manifest.questions : GoodHistory(manifest.questions[q]),
         ConfirmAnswer
  PROVE  \E q \in DOMAIN manifest.questions :
           GoodHistory(manifest'.questions[q]) /\ \E r : ConfirmsAnswer(q, r)
<1>1. PICK q \in DOMAIN manifest.questions : \E tok \in DOMAIN manifest.questions[q].tokens :
        manifest' = ConfirmCandidate(manifest, q, tok)
  BY DEF ConfirmAnswer
<1>2. PICK tok \in DOMAIN manifest.questions[q].tokens :
        manifest' = ConfirmCandidate(manifest, q, tok)
  BY <1>1
<1> DEFINE s == manifest.questions[q]
           u == manifest'.questions[q]
           a == [rev |-> s.confirmed.rev + 1, cand |-> s.current.ver,
                 text |-> s.current.text, origin |-> s.current.origin]
           r == [q |-> q, tok |-> tok, cand |-> s.current.ver, aver |-> manifest.version,
                 version |-> manifest.version + 1, answer |-> a]
<1>3. IsManifest(manifest) /\ GoodHistory(s)
  BY DEF IInv, TypeOK
<1>4. /\ OnlyQuestion(manifest, manifest', q)
      /\ manifest'.version = manifest.version + 1 /\ manifest'.receipts = manifest.receipts \cup {r}
      /\ u = [seq |-> s.seq, current |-> s.current, confirmed |-> a,
              revision |-> NoRevision, rephrases |-> s.rephrases,
              tokens |-> ConsumeReview(s.tokens, tok)]
  BY <1>2, <1>3, ConfirmCandidateFacts
<1>5. /\ r.q = q /\ r.answer = u.confirmed /\ r.answer.rev = s.confirmed.rev + 1
      /\ r.version = manifest.version + 1
  BY <1>4
<1>6. GoodHistory(u)
  BY <1>3, <1>4 DEF GoodHistory, RevisesLatest, WordingRecorded, IsSuggested
<1> HIDE DEF r
<1>7. ConfirmsAnswer(q, r)
  BY <1>4, <1>5 DEF ConfirmsAnswer
<1> QED
  BY <1>6, <1>7

-----------------------------------------------------------------------------
(* The history is good.                                                    *)

\* A new assignment has no history (service.create_assignment).
THEOREM InitHInv == Init => HInv
<1> SUFFICES ASSUME Init PROVE HInv
  OBVIOUS
<1>1. manifest.receipts = {} /\ DOMAIN manifest.questions = {}
  BY NewManifestFacts DEF Init
<1> QED
  BY <1>1 DEF HInv, RevisionsComplete, NoAnswer

\* The revisions of each question stay 1, 2, ... when a step keeps its answer.
LEMMA SameRevisions ==
  ASSUME RevisionsComplete, manifest'.receipts = manifest.receipts,
         DOMAIN manifest'.questions = DOMAIN manifest.questions,
         \A q \in DOMAIN manifest.questions :
           manifest'.questions[q].confirmed = manifest.questions[q].confirmed
  PROVE  RevisionsComplete'
BY DEF RevisionsComplete

\* A confirmation adds the next revision of one question.
LEMMA NextRevision ==
  ASSUME RevisionsComplete, TypeOK, NEW q \in DOMAIN manifest.questions, NEW r, ConfirmsAnswer(q, r)
  PROVE  RevisionsComplete'
<1> SUFFICES ASSUME NEW p \in QuestionIds
             PROVE  LET mine == {x \in manifest'.receipts : x.q = p}
                        last == IF p \in DOMAIN manifest'.questions
                                THEN manifest'.questions[p].confirmed ELSE NoAnswer
                    IN  /\ {x.answer.rev : x \in mine} = 1..last.rev
                        /\ \A x, y \in mine : x.answer.rev = y.answer.rev => x = y
                        /\ \A x \in mine : x.answer.rev = last.rev => x.answer = last
  BY DEF RevisionsComplete
<1> DEFINE old  == {x \in manifest.receipts : x.q = p}
           new  == {x \in manifest'.receipts : x.q = p}
           prev == IF p \in DOMAIN manifest.questions
                   THEN manifest.questions[p].confirmed ELSE NoAnswer
           last == IF p \in DOMAIN manifest'.questions
                   THEN manifest'.questions[p].confirmed ELSE NoAnswer
<1>1. /\ {x.answer.rev : x \in old} = 1..prev.rev
      /\ \A x, y \in old : x.answer.rev = y.answer.rev => x = y
      /\ \A x \in old : x.answer.rev = prev.rev => x.answer = prev
  BY DEF RevisionsComplete
<1>2. CASE p # q
  <2>1. new = old /\ last = prev
    BY <1>2 DEF ConfirmsAnswer, OnlyQuestion
  <2> QED
    BY <1>1, <2>1
<1>3. CASE p = q
  <2>1. /\ new = old \cup {r} /\ last = r.answer /\ r.answer.rev = prev.rev + 1
    BY <1>3 DEF ConfirmsAnswer, OnlyQuestion
  <2>2. prev.rev \in Nat
    BY <1>3 DEF TypeOK, IsManifest, QuestionState, Answer
  <2>3. \A x \in old : x.answer.rev \in 1..prev.rev
    BY <1>1
  <2> HIDE DEF old, new, prev, last
  <2>4. {x.answer.rev : x \in new} = {x.answer.rev : x \in old} \cup {r.answer.rev}
    BY <2>1
  <2>5. 1..(prev.rev + 1) = (1..prev.rev) \cup {prev.rev + 1}
    BY <2>2
  <2>6. {x.answer.rev : x \in new} = 1..last.rev
    BY <1>1, <2>1, <2>4, <2>5
  <2>7. \A x \in old : x.answer.rev # r.answer.rev
    BY <2>1, <2>2, <2>3
  <2>8. \A x, y \in new : x.answer.rev = y.answer.rev => x = y
    BY <1>1, <2>1, <2>7
  <2>9. \A x \in new : x.answer.rev = last.rev => x.answer = last
    BY <2>1, <2>7
  <2> QED
    BY <2>6, <2>8, <2>9 DEF new, last
<1> QED
  BY <1>2, <1>3

\* Every request keeps the history good.
THEOREM StepHInv == IInv /\ HInv /\ [Next]_manifest => HInv'
<1> SUFFICES ASSUME IInv, HInv, [Next]_manifest PROVE HInv'
  OBVIOUS
<1>1. CASE SetupStep
  <2>1. \A q \in DOMAIN manifest'.questions : GoodHistory(manifest'.questions[q])
    BY <1>1, SetupFacts, NewQuestionHistory DEF HInv
  <2>2. \A q \in DOMAIN manifest'.questions : manifest'.questions[q].confirmed.rev = 0
    <3>1. \A q \in DOMAIN manifest.questions : manifest.questions[q].confirmed.rev = 0
      BY <1>1, SetupFacts DEF HasAnswerState, HasAnswer, IInv, TypeOK, IsManifest, QuestionState, Answer
    <3> QED
      BY <1>1, <3>1, SetupFacts, NewQuestionHistory DEF NoAnswer
  <2>3. manifest'.receipts = {}
    BY <1>1, SetupFacts
  <2>4. RevisionsComplete'
    BY <2>2, <2>3 DEF RevisionsComplete, NoAnswer
  <2> QED
    BY <2>1, <2>4 DEF HInv
<1>2. CASE CreateCandidate \/ RequestRephrase \/ CreateReview \/ ReviseAnswer
  <2>1. PICK q \in DOMAIN manifest.questions : KeepsAnswer(q) /\ GoodHistory(manifest'.questions[q])
    BY <1>2, WritingFacts DEF HInv
  <2>2. \A p \in DOMAIN manifest'.questions : GoodHistory(manifest'.questions[p])
    BY <2>1 DEF HInv, KeepsAnswer, OnlyQuestion
  <2>3. \A p \in DOMAIN manifest.questions :
          manifest'.questions[p].confirmed = manifest.questions[p].confirmed
    BY <2>1 DEF KeepsAnswer, OnlyQuestion
  <2>4. RevisionsComplete'
    BY <2>1, <2>3, SameRevisions DEF HInv, KeepsAnswer, OnlyQuestion
  <2> QED
    BY <2>2, <2>4 DEF HInv
<1>3. CASE ConfirmAnswer
  <2>1. PICK q \in DOMAIN manifest.questions :
          GoodHistory(manifest'.questions[q]) /\ \E r : ConfirmsAnswer(q, r)
    BY <1>3, ConfirmFacts DEF HInv
  <2>2. PICK r : ConfirmsAnswer(q, r)
    BY <2>1
  <2>3. \A p \in DOMAIN manifest'.questions : GoodHistory(manifest'.questions[p])
    BY <2>1, <2>2 DEF HInv, ConfirmsAnswer, OnlyQuestion
  <2>4. RevisionsComplete'
    BY <2>2, NextRevision DEF HInv, IInv
  <2> QED
    BY <2>3, <2>4 DEF HInv
<1>4. CASE UNCHANGED manifest
  BY <1>4 DEF HInv, RevisionsComplete
<1> QED
  BY <1>1, <1>2, <1>3, <1>4 DEF Next, SetupStep

\* The revisions of a question are 1, 2, ... and the last is the answer an export
\* prints; wording attributed to Claros was suggested by the server; an open
\* revision is of the latest answer.
THEOREM HistoryIsGood ==
  Spec => [](RevisionsComplete /\ SuggestedWordingIsRecorded /\ RevisionOfLatest)
<1>1. HInv => RevisionsComplete /\ SuggestedWordingIsRecorded /\ RevisionOfLatest
  BY HInvMeans
<1> QED
  BY <1>1, InitHInv, StepHInv, Invariance, PTL DEF Spec

-----------------------------------------------------------------------------
(* What no step may do.                                                    *)

\* Without its tokens a question is the same, whatever tokens it had.
LEMMA TokensAside ==
  ASSUME NEW s \in QuestionState, NEW z, NEW u, u = [s EXCEPT !.tokens = z]
  PROVE  WithoutTokens(u) = WithoutTokens(s)
<1> DEFINE Rec(t) == [seq |-> s.seq, current |-> s.current, confirmed |-> s.confirmed,
                      revision |-> s.revision, rephrases |-> s.rephrases, tokens |-> t]
<1>1. u = Rec(z) /\ WithoutTokens(s) = Rec(<<>>)
  BY DEF QuestionState, WithoutTokens
<1>2. WithoutTokens(u) = Rec(<<>>)
  BY <1>1 DEF WithoutTokens
<1> QED
  BY <1>1, <1>2

\* The step that the action properties are about.
LEMMA NoAnswerLost ==
  ASSUME IInv, HInv, Next
  PROVE  /\ manifest.receipts \subseteq manifest'.receipts
         /\ \A r \in manifest'.receipts \ manifest.receipts :
              r.version = manifest'.version /\ r.version > manifest.version
         /\ \A q \in ConfirmedQuestions(manifest) :
              /\ q \in ConfirmedQuestions(manifest')
              /\ LET old == manifest.questions[q].confirmed
                     new == manifest'.questions[q].confirmed
                 IN  new = old \/ new.rev = old.rev + 1
         /\ manifest.status # "ANALYZING" /\ manifest'.version = manifest.version
              => PublicState(manifest') = PublicState(manifest)
<1>1. manifest.version \in Nat
  BY DEF IInv, TypeOK, IsManifest
<1>2. CASE SetupStep
  BY <1>1, <1>2, SetupFacts DEF ConfirmedQuestions, HasAnswerState
<1>3. CASE CreateCandidate \/ RequestRephrase \/ CreateReview \/ ReviseAnswer
  <2>1. PICK q \in DOMAIN manifest.questions :
          /\ KeepsAnswer(q)
          /\ \/ manifest'.version = manifest.version + 1
             \/ manifest'.version = manifest.version /\ ShowsNothing(q)
    BY <1>3, WritingFacts DEF HInv
  <2>2. \A p \in DOMAIN manifest.questions :
          /\ p \in DOMAIN manifest'.questions
          /\ manifest'.questions[p].confirmed = manifest.questions[p].confirmed
    BY <2>1 DEF KeepsAnswer, OnlyQuestion
  <2>3. manifest'.receipts = manifest.receipts
    BY <2>1 DEF KeepsAnswer
  <2>4. ASSUME manifest'.version = manifest.version
        PROVE  PublicState(manifest') = PublicState(manifest)
    <3>0. ShowsNothing(q)
      BY <1>1, <2>1, <2>4
    <3>1. PICK z : manifest'.questions[q] = [manifest.questions[q] EXCEPT !.tokens = z]
      BY <3>0, Zenon DEF ShowsNothing
    <3>2. manifest.questions[q] \in QuestionState
      BY DEF IInv, TypeOK, IsManifest
    <3>3. WithoutTokens(manifest'.questions[q]) = WithoutTokens(manifest.questions[q])
      BY <3>1, <3>2, TokensAside
    <3>4. DOMAIN manifest'.questions = DOMAIN manifest.questions /\ manifest'.verified = manifest.verified
      BY <2>1 DEF KeepsAnswer, OnlyQuestion
    <3>5. \A p \in DOMAIN manifest.questions :
            [manifest'.questions[p] EXCEPT !.tokens = <<>>] = [manifest.questions[p] EXCEPT !.tokens = <<>>]
      BY <2>1, <3>3 DEF KeepsAnswer, OnlyQuestion, WithoutTokens
    <3> QED
      BY <3>4, <3>5 DEF PublicState
  <2> QED
    BY <2>2, <2>3, <2>4 DEF ConfirmedQuestions, HasAnswer
<1>4. CASE ConfirmAnswer
  <2>1. PICK q \in DOMAIN manifest.questions : \E r : ConfirmsAnswer(q, r)
    BY <1>4, ConfirmFacts DEF HInv
  <2>2. PICK r : ConfirmsAnswer(q, r)
    BY <2>1
  <2>3. manifest.questions[q].confirmed.rev \in Nat
    BY DEF IInv, TypeOK, IsManifest, QuestionState, Answer
  <2>4. \A p \in DOMAIN manifest.questions :
          /\ p \in DOMAIN manifest'.questions
          /\ \/ manifest'.questions[p].confirmed = manifest.questions[p].confirmed
             \/ /\ manifest'.questions[p].confirmed.rev = manifest.questions[p].confirmed.rev + 1
                /\ manifest'.questions[p].confirmed.rev > 0
    BY <2>2, <2>3 DEF ConfirmsAnswer, OnlyQuestion
  <2>5. \A x \in manifest'.receipts \ manifest.receipts :
          x.version = manifest'.version /\ x.version > manifest.version
    BY <1>1, <2>2 DEF ConfirmsAnswer
  <2>6. manifest.receipts \subseteq manifest'.receipts /\ manifest'.version # manifest.version
    BY <1>1, <2>2 DEF ConfirmsAnswer
  <2> QED
    BY <2>4, <2>5, <2>6 DEF ConfirmedQuestions, HasAnswer
<1> QED
  BY <1>2, <1>3, <1>4 DEF Next, SetupStep

\* Both invariants hold at every step.
LEMMA GoodAlways == Spec => [](IInv /\ HInv)
BY InitHInv, StepHInv, Invariance, PTL DEF Spec

\* Receipts, which answer a replayed confirmation, are never taken back or changed
\* (workflow.confirm_answer, the only writer of receipts).
THEOREM NoReceiptLost == Spec => ReceiptsPermanent
<1>1. IInv /\ HInv /\ [Next]_manifest =>
        [/\ manifest.receipts \subseteq manifest'.receipts
         /\ \A r \in manifest'.receipts \ manifest.receipts :
              r.version = manifest'.version /\ r.version > manifest.version]_manifest
  BY NoAnswerLost
<1> QED
  BY <1>1, GoodAlways, PTL DEF Spec, ReceiptsPermanent

\* A confirmed answer stays until its next revision is confirmed, whatever is
\* suggested, reviewed or revised meanwhile.
THEOREM NoConfirmedAnswerLost == Spec => ConfirmedNeverLost
<1>1. IInv /\ HInv /\ [Next]_manifest =>
        [\A q \in ConfirmedQuestions(manifest) :
           /\ q \in ConfirmedQuestions(manifest')
           /\ LET old == manifest.questions[q].confirmed
                  new == manifest'.questions[q].confirmed
              IN  new = old \/ new.rev = old.rev + 1]_manifest
  BY NoAnswerLost
<1> QED
  BY <1>1, GoodAlways, PTL DEF Spec, ConfirmedNeverLost

\* After analysis nothing public changes under an unchanged version, so that the
\* expected_version of a request names one state of the answers.
THEOREM VersionIsHonest == Spec => VersionNamesAnswers
<1>1. IInv /\ HInv /\ [Next]_manifest =>
        [manifest.status # "ANALYZING" /\ manifest'.version = manifest.version
           => PublicState(manifest') = PublicState(manifest)]_manifest
  BY NoAnswerLost
<1> QED
  BY <1>1, GoodAlways, PTL DEF Spec, VersionNamesAnswers
=============================================================================
