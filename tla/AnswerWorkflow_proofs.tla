------------------------ MODULE AnswerWorkflow_proofs ------------------------
(***************************************************************************)
(* Lemmas about the operations of AnswerWorkflow: what each one does to a  *)
(* well-formed manifest, for every set of questions and texts.             *)
(***************************************************************************)
EXTENDS AnswerWorkflow, TLAPS

-----------------------------------------------------------------------------
(* What each operation does to a well-formed manifest: it stays well-formed*)
(* and the parts the operation names, and no others, change.               *)

\* Putting a question state back touches that question and nothing else.
LEMMA ReplaceQuestionFacts ==
  ASSUME NEW m, IsManifest(m), NEW q \in DOMAIN m.questions, NEW s \in QuestionState
  PROVE  LET n == ReplaceQuestion(m, q, s) IN
           /\ IsManifest(n)
           /\ n.version = m.version /\ n.status = m.status
           /\ n.verified = m.verified /\ n.receipts = m.receipts
           /\ n.questions = [m.questions EXCEPT ![q] = s]
  BY DEF IsManifest, ReplaceQuestion

\* Moving the public version touches nothing else.
LEMMA BumpFacts ==
  ASSUME NEW m, IsManifest(m)
  PROVE  LET n == Bump(m) IN
           /\ IsManifest(n)
           /\ n.version = m.version + 1 /\ n.status = m.status
           /\ n.verified = m.verified /\ n.receipts = m.receipts
           /\ n.questions = m.questions
  BY DEF IsManifest, Bump

\* Invalidating one token keeps what it was issued for.
LEMMA InvalidateOne ==
  ASSUME NEW k \in ReviewToken
  PROVE  LET n == [k EXCEPT !.invalidated = TRUE] IN
           /\ n \in ReviewToken
           /\ n.cand = k.cand /\ n.text = k.text /\ n.aver = k.aver
           /\ n.consumed = k.consumed /\ n.invalidated = TRUE
<1> DEFINE n == [k EXCEPT !.invalidated = TRUE]
<1>1. n \in ReviewToken
  BY DEF ReviewToken
<1>2. n.cand = k.cand /\ n.text = k.text /\ n.aver = k.aver
  BY DEF ReviewToken
<1>3. n.consumed = k.consumed
  BY DEF ReviewToken
<1>4. n.invalidated = TRUE
  BY DEF ReviewToken
<1> QED BY <1>1, <1>2, <1>3, <1>4

\* Invalidation keeps every token, in its place.
LEMMA InvalidateFacts ==
  ASSUME NEW tokens \in Seq(ReviewToken)
  PROVE  LET new == InvalidateReviews(tokens) IN
           /\ new \in Seq(ReviewToken)
           /\ DOMAIN new = DOMAIN tokens
           /\ \A i \in DOMAIN tokens :
                new[i] = [tokens[i] EXCEPT !.invalidated = TRUE]
<1>1. \A i \in DOMAIN tokens : tokens[i] \in ReviewToken
  OBVIOUS
<1>2. \A i \in DOMAIN tokens : [tokens[i] EXCEPT !.invalidated = TRUE] \in ReviewToken
  BY <1>1, InvalidateOne
<1> QED BY <1>1, <1>2 DEF InvalidateReviews

\* The new state of a question with a new candidate.
LEMMA NewCandidateState ==
  ASSUME NEW s \in QuestionState, NEW c, NEW tokens
  PROVE  [s EXCEPT !.seq = @ + 1, !.current = c, !.tokens = tokens] =
           [seq |-> s.seq + 1, current |-> c, confirmed |-> s.confirmed,
            revision |-> s.revision, rephrases |-> s.rephrases, tokens |-> tokens]
<1> DEFINE s1 == [s EXCEPT !.seq = @ + 1]
           s2 == [s1 EXCEPT !.current = c]
           s3 == [s2 EXCEPT !.tokens = tokens]
<1>1. s1 = [seq |-> s.seq + 1, current |-> s.current, confirmed |-> s.confirmed,
            revision |-> s.revision, rephrases |-> s.rephrases, tokens |-> s.tokens]
  BY DEF QuestionState
<1> HIDE DEF s1
<1>2. s2 = [seq |-> s.seq + 1, current |-> c, confirmed |-> s.confirmed,
            revision |-> s.revision, rephrases |-> s.rephrases, tokens |-> s.tokens]
  BY <1>1
<1> HIDE DEF s2
<1>3. s3 = [seq |-> s.seq + 1, current |-> c, confirmed |-> s.confirmed,
            revision |-> s.revision, rephrases |-> s.rephrases, tokens |-> tokens]
  BY <1>2
<1> QED BY <1>3 DEF s1, s2, s3

\* The new state of a question whose revision is opened.
LEMMA RevisedState ==
  ASSUME NEW s \in QuestionState, NEW c, NEW d, NEW tokens
  PROVE  [s EXCEPT !.current = c, !.revision = d, !.tokens = tokens] =
           [seq |-> s.seq, current |-> c, confirmed |-> s.confirmed,
            revision |-> d, rephrases |-> s.rephrases, tokens |-> tokens]
<1> DEFINE s1 == [s EXCEPT !.current = c]
           s2 == [s1 EXCEPT !.revision = d]
           s3 == [s2 EXCEPT !.tokens = tokens]
<1>1. s1 = [seq |-> s.seq, current |-> c, confirmed |-> s.confirmed,
            revision |-> s.revision, rephrases |-> s.rephrases, tokens |-> s.tokens]
  BY DEF QuestionState
<1> HIDE DEF s1
<1>2. s2 = [seq |-> s.seq, current |-> c, confirmed |-> s.confirmed,
            revision |-> d, rephrases |-> s.rephrases, tokens |-> s.tokens]
  BY <1>1
<1> HIDE DEF s2
<1>3. s3 = [seq |-> s.seq, current |-> c, confirmed |-> s.confirmed,
            revision |-> d, rephrases |-> s.rephrases, tokens |-> tokens]
  BY <1>2
<1> QED BY <1>3 DEF s1, s2, s3

\* The new state of a question whose answer is confirmed.
LEMMA ConfirmedState ==
  ASSUME NEW s \in QuestionState, NEW a, NEW d, NEW tokens
  PROVE  [s EXCEPT !.confirmed = a, !.revision = d, !.tokens = tokens] =
           [seq |-> s.seq, current |-> s.current, confirmed |-> a,
            revision |-> d, rephrases |-> s.rephrases, tokens |-> tokens]
<1> DEFINE s1 == [s EXCEPT !.confirmed = a]
           s2 == [s1 EXCEPT !.revision = d]
           s3 == [s2 EXCEPT !.tokens = tokens]
<1>1. s1 = [seq |-> s.seq, current |-> s.current, confirmed |-> a,
            revision |-> s.revision, rephrases |-> s.rephrases, tokens |-> s.tokens]
  BY DEF QuestionState
<1> HIDE DEF s1
<1>2. s2 = [seq |-> s.seq, current |-> s.current, confirmed |-> a,
            revision |-> d, rephrases |-> s.rephrases, tokens |-> s.tokens]
  BY <1>1
<1> HIDE DEF s2
<1>3. s3 = [seq |-> s.seq, current |-> s.current, confirmed |-> a,
            revision |-> d, rephrases |-> s.rephrases, tokens |-> tokens]
  BY <1>2
<1> QED BY <1>3 DEF s1, s2, s3

\* A change of one question: the others are as they were.
OnlyQuestion(m, n, q) ==
  /\ IsManifest(n)
  /\ n.status = m.status /\ n.verified = m.verified
  /\ DOMAIN n.questions = DOMAIN m.questions
  /\ \A p \in DOMAIN m.questions \ {q} : n.questions[p] = m.questions[p]

\* Storing a new state of one question and moving the version.
LEMMA ReplaceAndBump ==
  ASSUME NEW m, IsManifest(m), NEW q \in DOMAIN m.questions, NEW u \in QuestionState
  PROVE  LET n == Bump(ReplaceQuestion(m, q, u)) IN
           /\ OnlyQuestion(m, n, q)
           /\ n.version = m.version + 1 /\ n.receipts = m.receipts
           /\ n.questions[q] = u
<1> DEFINE k == ReplaceQuestion(m, q, u)
<1>1. /\ IsManifest(k) /\ k.version = m.version /\ k.status = m.status
      /\ k.verified = m.verified /\ k.receipts = m.receipts
      /\ k.questions = [m.questions EXCEPT ![q] = u]
  BY ReplaceQuestionFacts
<1> HIDE DEF k
<1>2. LET n == Bump(k) IN
        /\ IsManifest(n)
        /\ n.version = k.version + 1 /\ n.status = k.status
        /\ n.verified = k.verified /\ n.receipts = k.receipts
        /\ n.questions = k.questions
  BY <1>1, BumpFacts
<1> QED BY <1>1, <1>2 DEF OnlyQuestion, IsManifest, k

\* What create_candidate leaves behind.
LEMMA ReplaceCandidateFacts ==
  ASSUME NEW m, IsManifest(m), NEW q \in DOMAIN m.questions,
         NEW text \in Texts, NEW origin \in Origins
  PROVE  LET n == ReplaceCandidate(m, q, text, origin)
             s == m.questions[q]
         IN  /\ OnlyQuestion(m, n, q)
             /\ n.version = m.version + 1 /\ n.receipts = m.receipts
             /\ n.questions[q] =
                  [seq |-> s.seq + 1,
                   current |-> [ver |-> s.seq + 1, text |-> text, origin |-> origin],
                   confirmed |-> s.confirmed, revision |-> s.revision,
                   rephrases |-> s.rephrases, tokens |-> InvalidateReviews(s.tokens)]
<1> DEFINE s == m.questions[q]
           c == [ver |-> s.seq + 1, text |-> text, origin |-> origin]
           u == [seq |-> s.seq + 1, current |-> c, confirmed |-> s.confirmed,
                 revision |-> s.revision, rephrases |-> s.rephrases,
                 tokens |-> InvalidateReviews(s.tokens)]
<1>1. s \in QuestionState
  BY DEF IsManifest
<1>2. c \in Candidate
  BY <1>1 DEF Candidate, QuestionState
<1>3. InvalidateReviews(s.tokens) \in Seq(ReviewToken)
  BY <1>1, InvalidateFacts DEF QuestionState
<1>4. u \in QuestionState
  BY <1>1, <1>2, <1>3 DEF QuestionState
<1>5. ReplaceCandidate(m, q, text, origin) = Bump(ReplaceQuestion(m, q, u))
  BY <1>1, NewCandidateState DEF ReplaceCandidate
<1> QED
  BY <1>4, <1>5, ReplaceAndBump

\* What request_rephrase leaves behind: one more record, tokens untouched.
LEMMA RecordRephraseFacts ==
  ASSUME NEW m, IsManifest(m), NEW q \in DOMAIN m.questions, NEW text \in Texts
  PROVE  LET n == RecordRephrase(m, q, text)
             s == m.questions[q]
             r == [original |-> s.current.ver, suggestion |-> s.seq + 1, text |-> text]
         IN  /\ OnlyQuestion(m, n, q)
             /\ n.version = m.version + 1 /\ n.receipts = m.receipts
             /\ n.questions[q] = [s EXCEPT !.rephrases = @ \cup {r}]
<1> DEFINE s == m.questions[q]
           r == [original |-> s.current.ver, suggestion |-> s.seq + 1, text |-> text]
           u == [s EXCEPT !.rephrases = @ \cup {r}]
<1>1. s \in QuestionState
  BY DEF IsManifest
<1>2. r \in RephraseRecord
  BY <1>1 DEF RephraseRecord, QuestionState, Candidate
<1>3. u \in QuestionState
  BY <1>1, <1>2, SMTT(40) DEF QuestionState
<1> QED
  BY <1>3, ReplaceAndBump DEF RecordRephrase

\* What create_review leaves behind: one more token, of the current wording.
LEMMA IssueReviewFacts ==
  ASSUME NEW m, IsManifest(m), NEW q \in DOMAIN m.questions, NEW t \in Times
  PROVE  LET n == IssueReview(m, q, t)
             s == m.questions[q]
             k == [cand |-> s.current.ver, text |-> s.current.text, aver |-> m.version,
                   expires |-> t + ReviewTTL, consumed |-> FALSE, invalidated |-> FALSE]
         IN  /\ k \in ReviewToken
             /\ OnlyQuestion(m, n, q)
             /\ n.version = m.version /\ n.receipts = m.receipts
             /\ n.questions[q] = [s EXCEPT !.tokens = Append(@, k)]
<1> DEFINE s == m.questions[q]
           k == [cand |-> s.current.ver, text |-> s.current.text, aver |-> m.version,
                 expires |-> t + ReviewTTL, consumed |-> FALSE, invalidated |-> FALSE]
           u == [s EXCEPT !.tokens = Append(@, k)]
<1>1. s \in QuestionState
  BY DEF IsManifest
<1>2. t + ReviewTTL \in Nat
  BY ConstantsAssumption DEF Times
<1>3. k \in ReviewToken
  BY <1>1, <1>2 DEF ReviewToken, QuestionState, Candidate, IsManifest
<1>4. u \in QuestionState
  <2>1. Append(s.tokens, k) \in Seq(ReviewToken)
    BY <1>1, <1>3 DEF QuestionState
  <2> HIDE DEF k
  <2> QED BY <1>1, <2>1 DEF QuestionState
<1> HIDE DEF u
<1>5. LET n == ReplaceQuestion(m, q, u) IN
        /\ IsManifest(n)
        /\ n.version = m.version /\ n.status = m.status
        /\ n.verified = m.verified /\ n.receipts = m.receipts
        /\ n.questions = [m.questions EXCEPT ![q] = u]
  BY <1>4, ReplaceQuestionFacts
<1>6. IssueReview(m, q, t) = ReplaceQuestion(m, q, u)
  BY DEF IssueReview, u
<1> QED
  BY <1>3, <1>5, <1>6 DEF OnlyQuestion, IsManifest, u

\* What begin_revision leaves behind: no candidate and no live token.
LEMMA BeginRevisionFacts ==
  ASSUME NEW m, IsManifest(m), NEW q \in DOMAIN m.questions
  PROVE  LET n == BeginRevision(m, q)
             s == m.questions[q]
         IN  /\ OnlyQuestion(m, n, q)
             /\ n.version = m.version + 1 /\ n.receipts = m.receipts
             /\ n.questions[q] =
                  [seq |-> s.seq, current |-> NoCandidate, confirmed |-> s.confirmed,
                   revision |-> [prior |-> s.confirmed.rev, seed |-> s.confirmed.text],
                   rephrases |-> s.rephrases, tokens |-> InvalidateReviews(s.tokens)]
<1> DEFINE s == m.questions[q]
           d == [prior |-> s.confirmed.rev, seed |-> s.confirmed.text]
           u == [seq |-> s.seq, current |-> NoCandidate, confirmed |-> s.confirmed,
                 revision |-> d, rephrases |-> s.rephrases,
                 tokens |-> InvalidateReviews(s.tokens)]
<1>1. s \in QuestionState
  BY DEF IsManifest
<1>2. d \in RevisionDraft
  BY <1>1 DEF RevisionDraft, QuestionState, Answer
<1>3. NoCandidate \in Candidate
  BY DEF NoCandidate, Candidate, Origins
<1>4. InvalidateReviews(s.tokens) \in Seq(ReviewToken)
  BY <1>1, InvalidateFacts DEF QuestionState
<1>5. u \in QuestionState
  BY <1>1, <1>2, <1>3, <1>4 DEF QuestionState
<1>6. BeginRevision(m, q) = Bump(ReplaceQuestion(m, q, u))
  BY <1>1, RevisedState, ZenonT(40) DEF BeginRevision
<1> QED
  BY <1>5, <1>6, ReplaceAndBump

\* Consuming a token changes nothing else of it, and no other token.
LEMMA ConsumeFacts ==
  ASSUME NEW tokens \in Seq(ReviewToken), NEW tok \in DOMAIN tokens
  PROVE  LET new == ConsumeReview(tokens, tok) IN
           /\ new \in Seq(ReviewToken)
           /\ DOMAIN new = DOMAIN tokens
           /\ \A i \in DOMAIN tokens \ {tok} : new[i] = tokens[i]
           /\ new[tok].cand = tokens[tok].cand /\ new[tok].text = tokens[tok].text
           /\ new[tok].aver = tokens[tok].aver
           /\ new[tok].invalidated = tokens[tok].invalidated
           /\ new[tok].consumed = TRUE
<1> DEFINE k == tokens[tok]
           n == [k EXCEPT !.consumed = TRUE]
           new == [tokens EXCEPT ![tok] = n]
<1>1. k \in ReviewToken
  OBVIOUS
<1> HIDE DEF k
<1>2. n \in ReviewToken
  BY <1>1 DEF ReviewToken
<1>3. n.cand = k.cand /\ n.text = k.text /\ n.aver = k.aver
  BY <1>1 DEF ReviewToken
<1>4. n.invalidated = k.invalidated
  BY <1>1 DEF ReviewToken
<1>5. n.consumed = TRUE
  BY <1>1 DEF ReviewToken
<1> HIDE DEF n
<1>6. new \in Seq(ReviewToken) /\ DOMAIN new = DOMAIN tokens
  BY <1>2
<1>7. new[tok] = n /\ \A i \in DOMAIN tokens \ {tok} : new[i] = tokens[i]
  OBVIOUS
<1>8. ConsumeReview(tokens, tok) = new
  BY DEF ConsumeReview, n, k
<1> HIDE DEF new
<1>9. new[tok].invalidated = tokens[tok].invalidated
  BY <1>4, <1>7 DEF k
<1> QED BY <1>3, <1>5, <1>6, <1>7, <1>8, <1>9 DEF k

\* Filing a receipt touches nothing else.
LEMMA AddReceiptFacts ==
  ASSUME NEW k, IsManifest(k), NEW r \in Receipt
  PROVE  LET j == [k EXCEPT !.receipts = @ \cup {r}] IN
           /\ IsManifest(j)
           /\ j.version = k.version /\ j.status = k.status
           /\ j.verified = k.verified /\ j.receipts = k.receipts \cup {r}
           /\ j.questions = k.questions
<1> DEFINE j == [k EXCEPT !.receipts = @ \cup {r}]
<1>1. j = [version |-> k.version, status |-> k.status, verified |-> k.verified,
           questions |-> k.questions, receipts |-> k.receipts \cup {r}]
  BY DEF IsManifest
<1>2. k.receipts \cup {r} \subseteq Receipt
  BY DEF IsManifest
<1> HIDE DEF j
<1> QED BY <1>1, <1>2 DEF IsManifest

\* What confirm_answer leaves behind: the answer, the consumed token and the receipt.
LEMMA ConfirmCandidateFacts ==
  ASSUME NEW m, IsManifest(m), NEW q \in DOMAIN m.questions,
         NEW tok \in DOMAIN m.questions[q].tokens
  PROVE  LET n == ConfirmCandidate(m, q, tok)
             s == m.questions[q]
             a == [rev |-> s.confirmed.rev + 1, cand |-> s.current.ver,
                   text |-> s.current.text, origin |-> s.current.origin]
             r == [q |-> q, tok |-> tok, cand |-> s.current.ver, aver |-> m.version,
                   version |-> m.version + 1, answer |-> a]
         IN  /\ OnlyQuestion(m, n, q)
             /\ n.version = m.version + 1 /\ n.receipts = m.receipts \cup {r}
             /\ n.questions[q] =
                  [seq |-> s.seq, current |-> s.current, confirmed |-> a,
                   revision |-> NoRevision, rephrases |-> s.rephrases,
                   tokens |-> ConsumeReview(s.tokens, tok)]
<1> DEFINE s == m.questions[q]
           a == [rev |-> s.confirmed.rev + 1, cand |-> s.current.ver,
                 text |-> s.current.text, origin |-> s.current.origin]
           r == [q |-> q, tok |-> tok, cand |-> s.current.ver, aver |-> m.version,
                 version |-> m.version + 1, answer |-> a]
           u == [seq |-> s.seq, current |-> s.current, confirmed |-> a,
                 revision |-> NoRevision, rephrases |-> s.rephrases,
                 tokens |-> ConsumeReview(s.tokens, tok)]
           k == ReplaceQuestion(m, q, u)
           j == [k EXCEPT !.receipts = @ \cup {r}]
<1>1. s \in QuestionState
  BY DEF IsManifest
<1>2. a \in Answer
  BY <1>1 DEF Answer, QuestionState, Candidate
<1>3. NoRevision \in RevisionDraft
  BY DEF NoRevision, RevisionDraft
<1>4. ConsumeReview(s.tokens, tok) \in Seq(ReviewToken)
  BY <1>1, ConsumeFacts DEF QuestionState
<1>5. u \in QuestionState
  BY <1>1, <1>2, <1>3, <1>4 DEF QuestionState
<1>6. r \in Receipt
  <2>1. tok \in Nat
    BY <1>1 DEF QuestionState
  <2>2. q \in QuestionIds /\ m.version \in Nat /\ s.current.ver \in Nat
    BY <1>1 DEF IsManifest, QuestionState, Candidate
  <2> HIDE DEF a, s
  <2> QED BY <1>2, <2>1, <2>2 DEF Receipt
<1>7. ConfirmCandidate(m, q, tok) = Bump(j)
  <2>1. ASSUME NEW b, NEW z \in QuestionState
        PROVE  [z EXCEPT !.confirmed = b, !.revision = NoRevision,
                         !.tokens = ConsumeReview(@, tok)] =
               [seq |-> z.seq, current |-> z.current, confirmed |-> b,
                revision |-> NoRevision, rephrases |-> z.rephrases,
                tokens |-> ConsumeReview(z.tokens, tok)]
    BY ConfirmedState
  <2>2. u = [s EXCEPT !.confirmed = a, !.revision = NoRevision,
                      !.tokens = ConsumeReview(@, tok)]
    <3> HIDE DEF a, s
    <3> QED BY <1>1, <2>1
  <2> HIDE DEF u
  <2> QED BY <2>2 DEF ConfirmCandidate
<1> HIDE DEF u, r
<1>8. /\ IsManifest(k) /\ k.version = m.version /\ k.status = m.status
      /\ k.verified = m.verified /\ k.receipts = m.receipts
      /\ k.questions = [m.questions EXCEPT ![q] = u]
  BY <1>5, ReplaceQuestionFacts
<1> HIDE DEF k
<1>9. /\ IsManifest(j) /\ j.version = k.version /\ j.status = k.status
      /\ j.verified = k.verified /\ j.receipts = k.receipts \cup {r}
      /\ j.questions = k.questions
  BY <1>6, <1>8, AddReceiptFacts
<1> HIDE DEF j
<1>10. LET n == Bump(j) IN
        /\ IsManifest(n)
        /\ n.version = j.version + 1 /\ n.status = j.status
        /\ n.verified = j.verified /\ n.receipts = j.receipts
        /\ n.questions = j.questions
  BY <1>9, BumpFacts
<1>11. OnlyQuestion(m, Bump(j), q)
  BY <1>8, <1>9, <1>10 DEF OnlyQuestion, IsManifest
<1>12. Bump(j).questions[q] = u
  BY <1>8, <1>9, <1>10
<1> QED
  BY <1>7, <1>8, <1>9, <1>10, <1>11, <1>12 DEF u, r, IsManifest

\* Replacing the questions and their verification.
LEMMA WithQuestionsFacts ==
  ASSUME NEW m, IsManifest(m), NEW b \in BOOLEAN,
         NEW S \in SUBSET QuestionIds, NEW Q \in [S -> QuestionState]
  PROVE  LET n == WithQuestions(m, b, Q) IN
           /\ IsManifest(n)
           /\ n.version = m.version /\ n.status = m.status
           /\ n.receipts = m.receipts /\ n.questions = Q
<1> DEFINE k == [m EXCEPT !.verified = b]
           j == [k EXCEPT !.questions = Q]
<1>1. k = [version |-> m.version, status |-> m.status, verified |-> b,
           questions |-> m.questions, receipts |-> m.receipts]
  BY DEF IsManifest
<1> HIDE DEF k
<1>2. j = [version |-> m.version, status |-> m.status, verified |-> b,
           questions |-> Q, receipts |-> m.receipts]
  BY <1>1
<1> HIDE DEF j
<1>3. IsManifest(j)
  BY <1>2 DEF IsManifest
<1>4. WithQuestions(m, b, Q) = j
  BY DEF WithQuestions, j, k
<1> QED BY <1>2, <1>3, <1>4

\* A question with nothing in it is well formed.
LEMMA NewQuestionType == NewQuestion \in QuestionState
<1>1. NoCandidate \in Candidate
  BY DEF NoCandidate, Candidate, Origins
<1>2. NoAnswer \in Answer
  BY DEF NoAnswer, Answer, Origins
<1>3. NoRevision \in RevisionDraft
  BY DEF NoRevision, RevisionDraft
<1>4. <<>> \in Seq(ReviewToken)
  OBVIOUS
<1> QED BY <1>1, <1>2, <1>3, <1>4 DEF NewQuestion, QuestionState

\* A manifest between creation and the end of analysis.
LEMMA NewManifestFacts ==
  /\ IsManifest(NewManifest)
  /\ NewManifest.receipts = {} /\ DOMAIN NewManifest.questions = {}
BY NewQuestionType DEF NewManifest, IsManifest, Status, Fresh

\* So is a set of such questions.
LEMMA FreshType ==
  ASSUME NEW S \in SUBSET QuestionIds
  PROVE  Fresh(S) \in [S -> QuestionState]
BY NewQuestionType DEF Fresh

\* Moving the analysis status touches nothing else.
LEMMA WithStatusFacts ==
  ASSUME NEW m, IsManifest(m), NEW status \in Status
  PROVE  LET n == [m EXCEPT !.status = status] IN
           /\ IsManifest(n) /\ n.version = m.version /\ n.status = status
           /\ n.receipts = m.receipts /\ n.questions = m.questions
<1> DEFINE n == [m EXCEPT !.status = status]
<1>1. n = [version |-> m.version, status |-> status, verified |-> m.verified,
           questions |-> m.questions, receipts |-> m.receipts]
  BY DEF IsManifest
<1> HIDE DEF n
<1> QED BY <1>1 DEF IsManifest
=============================================================================
