------------------------ MODULE WorkspacePage_proofs ------------------------
(***************************************************************************)
(* What the page promises the student, for every set of questions and      *)
(* texts and every bound: the server holds no answer the student did not   *)
(* approve in exact review (ExactTextConfirmed), the page claims no answer *)
(* and no version the server does not have (PageNeverAhead), no late       *)
(* answer replaces words written meanwhile (TypedWordsKept), and a review  *)
(* opens on the wording that is on the page (ReviewShowsLatestWording).    *)
(*                                                                         *)
(* A confirmation passes from the server's review token through the reply, *)
(* the page's review, the effect, the request and the network back to the  *)
(* token.  The invariant follows it: at each station the token exists and  *)
(* has the wording shown, and from the press of the button on that wording *)
(* is approved.  Tokens' wordings never change, receipts and the version   *)
(* only grow (Later), which is why nothing that is late is wrong.          *)
(*                                                                         *)
(* The second invariant, LInv, is about the awaits: what the code read     *)
(* before one (the draft's revision, the navigation epoch, the wording it  *)
(* sends) is a lower bound for what the page has after it, and while it    *)
(* still matches, the page still shows that wording.  It needs the         *)
(* server's side too: under one number a candidate keeps one wording.      *)
(*                                                                         *)
(* Then there is the picture beside the page (WorksheetPreview): a         *)
(* completed copy that is shown has in it what the page shows as added     *)
(* (CopyHoldsAddedAnswers).                                                *)
(*                                                                         *)
(* The last part proves TypeOK with a third invariant, TInv: the shapes of *)
(* what is stored, asked and answered, and a budget (Within).  A version   *)
(* stays under the bound because what is still owed is counted before it   *)
(* is done: the changes a mutation under way may make (Owed), the request  *)
(* a reload left behind (Left), and the press of "Add answer" that has not *)
(* become a request yet (Pressed).                                         *)
(***************************************************************************)
EXTENDS WorksheetPreview, SequenceTheorems, FiniteSetTheorems, WellFoundedInduction, TLAPS

-----------------------------------------------------------------------------
(* The invariant.                                                          *)

AnswerRequests == {"candidate", "rephrase", "review", "confirm", "revise"}

ManifestFields == {"version", "status", "verified", "questions", "receipts"}
StateFields    == {"seq", "current", "confirmed", "revision", "rephrases", "tokens"}
TokenFields    == {"cand", "text", "aver", "expires", "consumed", "invalidated"}
OpFields       == {"kind", "step", "q", "rev", "text", "epoch", "follow", "req", "ans"}

AreTokens(ts) ==
  /\ Len(ts) \in Nat
  /\ ts = [i \in 1..Len(ts) |-> ts[i]]
  /\ \A i \in 1..Len(ts) : DOMAIN ts[i] = TokenFields

\* The server's record has its shape, and no receipt is from the future.
WellFormed(m) ==
  /\ DOMAIN m = ManifestFields
  /\ m.version \in Nat
  /\ DOMAIN m.questions = QuestionIds
  /\ \A q \in QuestionIds : /\ DOMAIN m.questions[q] = StateFields
                            /\ AreTokens(m.questions[q].tokens)
  /\ \A r \in m.receipts : r.version \in 0..m.version

\* Every answer was approved and has its receipt.
Recorded(m, ok) ==
  \A q \in QuestionIds :
    LET a == m.questions[q].confirmed
    IN  \/ a = S!NoAnswer
        \/ <<q, a.text>> \in ok /\ \E r \in m.receipts : r.answer = a

\* The question q has a review token tok, and what that token is about.
HasToken(m, q, tok) == q \in QuestionIds /\ tok \in 1..Len(m.questions[q].tokens)
Wording(m, q, tok)  == m.questions[q].tokens[tok].text

Issued(m, q, tok, text) == HasToken(m, q, tok) /\ Wording(m, q, tok) = text

Shown(m, a) == a = NoAnswer \/ \E r \in m.receipts : MapAnswer(r.answer) = a

GoodReview(m, v) == v = NoReview \/ Issued(m, v.q, v.tok, v.text)

\* What the page has is the server's, and a review being confirmed is approved.
GoodPage(p, m, ok) ==
  /\ DOMAIN p = DOMAIN InitialContext
  /\ p.version \in 0..m.version
  /\ DOMAIN p.confirmed = QuestionIds
  /\ \A q \in QuestionIds : Shown(m, p.confirmed[q])
  /\ GoodReview(m, p.review)
  /\ p.at = "confirming" /\ p.review # NoReview => <<p.review.q, p.review.text>> \in ok

\* A confirmation that is sent names a token whose wording is approved.
GoodRequest(r, m, ok) ==
  /\ r.what \in AnswerRequests
  /\ r.what = "confirm" =>
       HasToken(m, r.q, r.tok) /\ <<r.q, Wording(m, r.q, r.tok)>> \in ok

Reviewing(o)  == o.kind \in {"review", "select"} /\ o.step = "main"
Answers(o)    == o.ans \notin {NoRequest, Failed}

GoodOp(o, m, ok) ==
  o # NoOp =>
    /\ DOMAIN o = OpFields
    /\ o.kind \in {"rephrase", "review", "select", "confirm", "revise", "export"}
    /\ o.kind # "export" => GoodRequest(o.req, m, ok)
    /\ Reviewing(o) => o.req.what = "review"
    /\ o.kind = "confirm" => o.req.what = "confirm"
    /\ Answers(o) =>
         /\ o.ans.version \in 0..m.version
         /\ Reviewing(o) => Issued(m, o.ans.review.q, o.ans.review.tok, o.ans.review.text)
         /\ o.kind = "confirm" => Shown(m, o.ans.answer)

GoodPoll(w, m) ==
  w.kind = "setup" =>
    /\ DOMAIN w.confirmed = QuestionIds
    /\ \A q \in QuestionIds : Shown(m, w.confirmed[q])

PInv ==
  /\ WellFormed(manifest)
  /\ Recorded(manifest, approved)
  /\ GoodPage(page, manifest, approved)
  /\ GoodOp(op, manifest, approved)
  /\ orphan # NoRequest => GoodRequest(orphan, manifest, approved)
  /\ GoodPoll(poll, manifest)

\* What no operation of the server undoes.
Later(m, n) ==
  /\ n.version \in Nat /\ m.version <= n.version
  /\ m.receipts \subseteq n.receipts
  /\ \A q, tok : HasToken(m, q, tok) =>
                   HasToken(n, q, tok) /\ Wording(n, q, tok) = Wording(m, q, tok)

-----------------------------------------------------------------------------
(* Review tokens are only added and marked.                                *)

\* A record of tokens is a sequence.
LEMMA TokensAreSeq ==
  ASSUME NEW ts, AreTokens(ts)
  PROVE  ts \in Seq({ts[i] : i \in 1..Len(ts)}) /\ DOMAIN ts = 1..Len(ts)
<1>1. Len(ts) \in Nat /\ ts = [i \in 1..Len(ts) |-> ts[i]]
  BY DEF AreTokens
<1>2. ts \in [1..Len(ts) -> {ts[i] : i \in 1..Len(ts)}] /\ DOMAIN ts = 1..Len(ts)
  BY <1>1
<1> QED
  BY <1>1, <1>2, SeqDef, Zenon

\* A function on 1..n is a sequence of length n.
LEMMA FunctionsAreTokens ==
  ASSUME NEW n \in Nat, NEW ts, ts = [i \in 1..n |-> ts[i]],
         \A i \in 1..n : DOMAIN ts[i] = TokenFields
  PROVE  AreTokens(ts) /\ Len(ts) = n
<1>1. ts \in [1..n -> {ts[i] : i \in 1..n}] /\ DOMAIN ts = 1..n
  OBVIOUS
<1>2. ts \in Seq({ts[i] : i \in 1..n})
  BY <1>1, SeqDef, Zenon
<1>3. Len(ts) = n
  BY <1>1, <1>2, LenProperties
<1> QED
  BY <1>3 DEF AreTokens

\* Withdrawing the reviews of a question (_invalidate_reviews) keeps each
\* token's wording.
LEMMA ReviewsWithdrawn ==
  ASSUME NEW ts, AreTokens(ts)
  PROVE  /\ AreTokens(S!InvalidateReviews(ts))
         /\ Len(S!InvalidateReviews(ts)) = Len(ts)
         /\ \A i \in 1..Len(ts) : S!InvalidateReviews(ts)[i].text = ts[i].text
<1> DEFINE us == S!InvalidateReviews(ts)
<1>1. DOMAIN ts = 1..Len(ts) /\ Len(ts) \in Nat /\ \A i \in 1..Len(ts) : DOMAIN ts[i] = TokenFields
  BY TokensAreSeq DEF AreTokens
<1>2. us = [i \in 1..Len(ts) |-> [ts[i] EXCEPT !.invalidated = TRUE]]
  BY <1>1 DEF S!InvalidateReviews
<1>3. us = [i \in 1..Len(ts) |-> us[i]] /\ \A i \in 1..Len(ts) : us[i] = [ts[i] EXCEPT !.invalidated = TRUE]
  BY <1>2
<1> HIDE DEF us
<1>4. \A i \in 1..Len(ts) : DOMAIN us[i] = TokenFields /\ us[i].text = ts[i].text
  BY <1>1, <1>3 DEF TokenFields
<1>5. AreTokens(us) /\ Len(us) = Len(ts)
  BY <1>1, <1>3, <1>4, FunctionsAreTokens
<1> QED
  BY <1>4, <1>5 DEF us

\* Using up a review keeps each token's wording.
LEMMA ReviewConsumed ==
  ASSUME NEW ts, AreTokens(ts), NEW tok
  PROVE  /\ AreTokens(S!ConsumeReview(ts, tok))
         /\ Len(S!ConsumeReview(ts, tok)) = Len(ts)
         /\ \A i \in 1..Len(ts) : S!ConsumeReview(ts, tok)[i].text = ts[i].text
<1> DEFINE us == S!ConsumeReview(ts, tok)
<1>1. DOMAIN ts = 1..Len(ts) /\ Len(ts) \in Nat /\ \A i \in 1..Len(ts) : DOMAIN ts[i] = TokenFields
  BY TokensAreSeq DEF AreTokens
<1>2. us = [i \in 1..Len(ts) |-> IF i = tok THEN [ts[tok] EXCEPT !.consumed = TRUE] ELSE ts[i]]
  BY <1>1 DEF S!ConsumeReview
<1>3. /\ us = [i \in 1..Len(ts) |-> us[i]]
      /\ \A i \in 1..Len(ts) : us[i] = IF i = tok THEN [ts[tok] EXCEPT !.consumed = TRUE] ELSE ts[i]
  BY <1>2
<1> HIDE DEF us
<1>4. \A i \in 1..Len(ts) : DOMAIN us[i] = TokenFields /\ us[i].text = ts[i].text
  BY <1>1, <1>3 DEF TokenFields
<1>5. AreTokens(us) /\ Len(us) = Len(ts)
  BY <1>1, <1>3, <1>4, FunctionsAreTokens
<1> QED
  BY <1>4, <1>5 DEF us

\* A new review is appended.
LEMMA ReviewAppended ==
  ASSUME NEW ts, AreTokens(ts), NEW k, DOMAIN k = TokenFields
  PROVE  /\ AreTokens(Append(ts, k))
         /\ Len(Append(ts, k)) = Len(ts) + 1
         /\ \A i \in 1..Len(ts) : Append(ts, k)[i].text = ts[i].text
         /\ Append(ts, k)[Len(ts) + 1] = k
<1> DEFINE T  == {ts[i] : i \in 1..Len(ts)} \cup {k}
           us == Append(ts, k)
<1>1. ts \in Seq({ts[i] : i \in 1..Len(ts)}) /\ Len(ts) \in Nat
      /\ \A i \in 1..Len(ts) : DOMAIN ts[i] = TokenFields
  BY TokensAreSeq DEF AreTokens
<1>2. ts \in Seq(T) /\ k \in T
  BY <1>1, SeqMonotonic
<1> HIDE DEF T
<1>3. /\ us \in Seq(T) /\ Len(us) = Len(ts) + 1
      /\ \A i \in 1..Len(ts) : us[i] = ts[i]
      /\ us[Len(ts) + 1] = k
  BY <1>2, AppendProperties
<1>4. us \in [1..Len(us) -> T] /\ Len(us) \in Nat
  BY <1>3, LenProperties, Zenon
<1> HIDE DEF us
<1>5. us = [i \in 1..Len(us) |-> us[i]]
  BY <1>4
<1>6. \A i \in 1..Len(us) : DOMAIN us[i] = TokenFields
  <2> SUFFICES ASSUME NEW i \in 1..Len(us) PROVE DOMAIN us[i] = TokenFields
    OBVIOUS
  <2>1. CASE i \in 1..Len(ts)
    BY <1>1, <1>3, <2>1
  <2>2. CASE i = Len(ts) + 1
    BY <1>3, <2>2
  <2> QED
    BY <1>1, <1>3, <2>1, <2>2
<1> QED
  BY <1>1, <1>3, <1>4, <1>5, <1>6 DEF AreTokens, us

-----------------------------------------------------------------------------
(* The operations of the server.                                           *)

\* n is m with a new record s of question q, which keeps the tokens it had.
Replaces(m, n, q, s) ==
  /\ DOMAIN s = StateFields /\ AreTokens(s.tokens)
  /\ Len(m.questions[q].tokens) <= Len(s.tokens)
  /\ \A i \in 1..Len(m.questions[q].tokens) :
        s.tokens[i].text = m.questions[q].tokens[i].text
  /\ DOMAIN n = ManifestFields
  /\ n.questions = [m.questions EXCEPT ![q] = s]
  /\ n.version \in Nat /\ m.version <= n.version
  /\ m.receipts \subseteq n.receipts
  /\ \A r \in n.receipts : r \in m.receipts \/ r.version = n.version

\* Such a manifest is well-formed and later.
LEMMA QuestionReplaced ==
  ASSUME NEW m, WellFormed(m), NEW q \in QuestionIds, NEW s, NEW n, Replaces(m, n, q, s)
  PROVE  WellFormed(n) /\ Later(m, n)
<1>1. DOMAIN n.questions = QuestionIds
      /\ \A x \in QuestionIds : n.questions[x] = IF x = q THEN s ELSE m.questions[x]
  BY DEF WellFormed, Replaces
<1>2. \A x \in QuestionIds : DOMAIN n.questions[x] = StateFields /\ AreTokens(n.questions[x].tokens)
  BY <1>1 DEF WellFormed, Replaces
<1>3. \A r \in n.receipts : r.version \in 0..n.version
  BY DEF WellFormed, Replaces
<1>4. WellFormed(n)
  BY <1>1, <1>2, <1>3 DEF WellFormed, Replaces
<1>5. Len(m.questions[q].tokens) \in Nat /\ Len(s.tokens) \in Nat
  BY DEF WellFormed, AreTokens, Replaces
<1>6. \A x, tok : HasToken(m, x, tok) => HasToken(n, x, tok) /\ Wording(n, x, tok) = Wording(m, x, tok)
  BY <1>1, <1>5 DEF HasToken, Wording, Replaces
<1> QED
  BY <1>4, <1>6 DEF Later, Replaces

\* Storing a candidate.
LEMMA CandidateStored ==
  ASSUME NEW m, WellFormed(m), NEW q \in QuestionIds, NEW text, NEW origin
  PROVE  LET n == S!ReplaceCandidate(m, q, text, origin)
         IN  /\ WellFormed(n) /\ Later(m, n)
             /\ \A x \in QuestionIds : n.questions[x].confirmed = m.questions[x].confirmed
<1> DEFINE s == m.questions[q]
           c == [ver |-> s.seq + 1, text |-> text, origin |-> origin]
           z == [s EXCEPT !.seq = @ + 1, !.current = c, !.tokens = S!InvalidateReviews(@)]
           n == S!ReplaceCandidate(m, q, text, origin)
<1>1. /\ DOMAIN m = ManifestFields /\ m.version \in Nat /\ DOMAIN m.questions = QuestionIds
      /\ DOMAIN s = StateFields /\ AreTokens(s.tokens)
  BY DEF WellFormed
<1>2. /\ DOMAIN z = StateFields /\ z.confirmed = s.confirmed
      /\ z.tokens = S!InvalidateReviews(s.tokens)
  BY <1>1 DEF StateFields
<1>3. /\ DOMAIN n = ManifestFields
      /\ n.questions = [m.questions EXCEPT ![q] = z]
      /\ n.version = m.version + 1 /\ n.receipts = m.receipts
  BY <1>1 DEF ManifestFields, S!ReplaceCandidate, S!Bump, S!ReplaceQuestion
<1> HIDE DEF n, z
<1>4. AreTokens(z.tokens) /\ Len(z.tokens) = Len(s.tokens)
      /\ \A i \in 1..Len(s.tokens) : z.tokens[i].text = s.tokens[i].text
  BY <1>1, <1>2, ReviewsWithdrawn
<1>5. Len(s.tokens) \in Nat
  BY <1>1 DEF AreTokens
<1>6a. Replaces(m, n, q, z)
  BY <1>1, <1>2, <1>3, <1>4, <1>5 DEF Replaces
<1>6. WellFormed(n) /\ Later(m, n)
  BY <1>1, <1>6a, QuestionReplaced
<1>7. \A x \in QuestionIds : n.questions[x].confirmed = m.questions[x].confirmed
  BY <1>1, <1>2, <1>3
<1> QED
  BY <1>6, <1>7 DEF n

\* Recording a suggestion.
LEMMA RephraseRecorded ==
  ASSUME NEW m, WellFormed(m), NEW q \in QuestionIds, NEW text
  PROVE  LET n == S!RecordRephrase(m, q, text)
         IN  /\ WellFormed(n) /\ Later(m, n)
             /\ \A x \in QuestionIds : n.questions[x].confirmed = m.questions[x].confirmed
<1> DEFINE s == m.questions[q]
           r == [original |-> s.current.ver, suggestion |-> s.seq + 1, text |-> text]
           z == [s EXCEPT !.rephrases = @ \cup {r}]
           n == S!RecordRephrase(m, q, text)
<1>1. /\ DOMAIN m = ManifestFields /\ m.version \in Nat /\ DOMAIN m.questions = QuestionIds
      /\ DOMAIN s = StateFields /\ AreTokens(s.tokens)
  BY DEF WellFormed
<1>2. DOMAIN z = StateFields /\ z.confirmed = s.confirmed /\ z.tokens = s.tokens
  BY <1>1 DEF StateFields
<1>3. /\ DOMAIN n = ManifestFields
      /\ n.questions = [m.questions EXCEPT ![q] = z]
      /\ n.version = m.version + 1 /\ n.receipts = m.receipts
  BY <1>1 DEF ManifestFields, S!RecordRephrase, S!Bump, S!ReplaceQuestion
<1> HIDE DEF n, z
<1>4. Len(s.tokens) \in Nat
  BY <1>1 DEF AreTokens
<1>5a. Replaces(m, n, q, z)
  BY <1>1, <1>2, <1>3, <1>4 DEF Replaces
<1>5. WellFormed(n) /\ Later(m, n)
  BY <1>1, <1>5a, QuestionReplaced
<1>6. \A x \in QuestionIds : n.questions[x].confirmed = m.questions[x].confirmed
  BY <1>1, <1>2, <1>3
<1> QED
  BY <1>5, <1>6 DEF n

\* Issuing a review: the new token has the wording of the candidate.
LEMMA ReviewIssued ==
  ASSUME NEW m, WellFormed(m), NEW q \in QuestionIds
  PROVE  LET n == S!IssueReview(m, q, Now)
             s == n.questions[q]
         IN  /\ WellFormed(n) /\ Later(m, n)
             /\ \A x \in QuestionIds : n.questions[x].confirmed = m.questions[x].confirmed
             /\ Issued(n, q, Len(s.tokens), s.current.text)
<1> DEFINE s == m.questions[q]
           k == [cand |-> s.current.ver, text |-> s.current.text, aver |-> m.version,
                 expires |-> Now + 1, consumed |-> FALSE, invalidated |-> FALSE]
           z == [s EXCEPT !.tokens = Append(@, k)]
           n == S!IssueReview(m, q, Now)
<1>1. /\ DOMAIN m = ManifestFields /\ m.version \in Nat /\ DOMAIN m.questions = QuestionIds
      /\ DOMAIN s = StateFields /\ AreTokens(s.tokens)
  BY DEF WellFormed
<1>2. /\ DOMAIN z = StateFields /\ z.confirmed = s.confirmed /\ z.current = s.current
      /\ z.tokens = Append(s.tokens, k)
  BY <1>1 DEF StateFields
<1>3. /\ DOMAIN n = ManifestFields
      /\ n.questions = [m.questions EXCEPT ![q] = z]
      /\ n.version = m.version /\ n.receipts = m.receipts
  BY <1>1 DEF ManifestFields, S!IssueReview, S!ReplaceQuestion
<1>4. DOMAIN k = TokenFields /\ k.text = s.current.text
  BY DEF TokenFields
<1> HIDE DEF n, z, k
<1>5. /\ AreTokens(z.tokens) /\ Len(z.tokens) = Len(s.tokens) + 1
      /\ \A i \in 1..Len(s.tokens) : z.tokens[i].text = s.tokens[i].text
      /\ z.tokens[Len(s.tokens) + 1] = k
  BY <1>1, <1>2, <1>4, ReviewAppended
<1>6. Len(s.tokens) \in Nat
  BY <1>1 DEF AreTokens
<1>7a. Replaces(m, n, q, z)
  BY <1>1, <1>2, <1>3, <1>5, <1>6 DEF Replaces
<1>7. WellFormed(n) /\ Later(m, n)
  BY <1>1, <1>7a, QuestionReplaced
<1>8. \A x \in QuestionIds : n.questions[x].confirmed = m.questions[x].confirmed
  BY <1>1, <1>2, <1>3
<1>9. n.questions[q] = z
  BY <1>1, <1>3
<1>10. Issued(n, q, Len(z.tokens), z.current.text)
  BY <1>2, <1>4, <1>5, <1>6, <1>9 DEF Issued, HasToken, Wording
<1> QED
  BY <1>7, <1>8, <1>9, <1>10 DEF n

\* Confirming: the answer has the wording of the token, and a receipt.
LEMMA AnswerConfirmed ==
  ASSUME NEW m, WellFormed(m), NEW q, NEW tok, NEW cand, NEW aver,
         S!CanConfirmCandidate(m, q, tok, cand, aver, Now)
  PROVE  LET n == S!ConfirmCandidate(m, q, tok)
             a == n.questions[q].confirmed
         IN  /\ HasToken(m, q, tok)
             /\ WellFormed(n) /\ Later(m, n)
             /\ \A x \in QuestionIds \ {q} : n.questions[x].confirmed = m.questions[x].confirmed
             /\ a.text = Wording(m, q, tok)
             /\ \E r \in n.receipts : r.q = q /\ r.tok = tok /\ r.answer = a
<1> DEFINE s == m.questions[q]
           a == [rev |-> s.confirmed.rev + 1, cand |-> s.current.ver,
                 text |-> s.current.text, origin |-> s.current.origin]
           r == [q |-> q, tok |-> tok, cand |-> s.current.ver, aver |-> m.version,
                 version |-> m.version + 1, answer |-> a]
           z == [s EXCEPT !.confirmed = a, !.revision = S!NoRevision,
                          !.tokens = S!ConsumeReview(@, tok)]
           n == S!ConfirmCandidate(m, q, tok)
<1>1. /\ q \in QuestionIds /\ tok \in DOMAIN s.tokens /\ s.tokens[tok].text = s.current.text
  BY DEF S!CanConfirmCandidate, S!TokenUsable, S!HasQuestion, WellFormed
<1>2. /\ DOMAIN m = ManifestFields /\ m.version \in Nat /\ DOMAIN m.questions = QuestionIds
      /\ DOMAIN s = StateFields /\ AreTokens(s.tokens)
  BY <1>1 DEF WellFormed
<1>3. DOMAIN s.tokens = 1..Len(s.tokens) /\ Len(s.tokens) \in Nat
  BY <1>2, TokensAreSeq DEF AreTokens
<1>4. HasToken(m, q, tok) /\ Wording(m, q, tok) = a.text
  BY <1>1, <1>3 DEF HasToken, Wording
<1>5. DOMAIN z = StateFields /\ z.confirmed = a /\ z.tokens = S!ConsumeReview(s.tokens, tok)
  BY <1>2 DEF StateFields
<1>6. /\ DOMAIN n = ManifestFields
      /\ n.questions = [m.questions EXCEPT ![q] = z]
      /\ n.version = m.version + 1 /\ n.receipts = m.receipts \cup {r}
  BY <1>2 DEF ManifestFields, S!ConfirmCandidate, S!Bump, S!ReplaceQuestion
<1>7. r.q = q /\ r.tok = tok /\ r.answer = a /\ r.version = m.version + 1
  OBVIOUS
<1> HIDE DEF n, z, a, r
<1>8. AreTokens(z.tokens) /\ Len(z.tokens) = Len(s.tokens)
      /\ \A i \in 1..Len(s.tokens) : z.tokens[i].text = s.tokens[i].text
  BY <1>2, <1>5, ReviewConsumed
<1>9a. Replaces(m, n, q, z)
  BY <1>1, <1>2, <1>3, <1>5, <1>6, <1>7, <1>8 DEF Replaces
<1>9. WellFormed(n) /\ Later(m, n)
  BY <1>1, <1>9a, QuestionReplaced
<1>10. /\ n.questions[q].confirmed = a
       /\ \A x \in QuestionIds \ {q} : n.questions[x].confirmed = m.questions[x].confirmed
  BY <1>1, <1>2, <1>5, <1>6
<1>11. \E y \in n.receipts : y.q = q /\ y.tok = tok /\ y.answer = a
  BY <1>6, <1>7
<1> QED
  BY <1>4, <1>9, <1>10, <1>11 DEF n

\* Opening a revision.
LEMMA RevisionBegun ==
  ASSUME NEW m, WellFormed(m), NEW q \in QuestionIds
  PROVE  LET n == S!BeginRevision(m, q)
         IN  /\ WellFormed(n) /\ Later(m, n)
             /\ \A x \in QuestionIds : n.questions[x].confirmed = m.questions[x].confirmed
<1> DEFINE s == m.questions[q]
           d == [prior |-> s.confirmed.rev, seed |-> s.confirmed.text]
           z == [s EXCEPT !.current = S!NoCandidate, !.revision = d,
                          !.tokens = S!InvalidateReviews(@)]
           n == S!BeginRevision(m, q)
<1>1. /\ DOMAIN m = ManifestFields /\ m.version \in Nat /\ DOMAIN m.questions = QuestionIds
      /\ DOMAIN s = StateFields /\ AreTokens(s.tokens)
  BY DEF WellFormed
<1>2. /\ DOMAIN z = StateFields /\ z.confirmed = s.confirmed
      /\ z.tokens = S!InvalidateReviews(s.tokens)
  BY <1>1 DEF StateFields
<1>3. /\ DOMAIN n = ManifestFields
      /\ n.questions = [m.questions EXCEPT ![q] = z]
      /\ n.version = m.version + 1 /\ n.receipts = m.receipts
  BY <1>1 DEF ManifestFields, S!BeginRevision, S!Bump, S!ReplaceQuestion
<1> HIDE DEF n, z
<1>4. AreTokens(z.tokens) /\ Len(z.tokens) = Len(s.tokens)
      /\ \A i \in 1..Len(s.tokens) : z.tokens[i].text = s.tokens[i].text
  BY <1>1, <1>2, ReviewsWithdrawn
<1>5. Len(s.tokens) \in Nat
  BY <1>1 DEF AreTokens
<1>6a. Replaces(m, n, q, z)
  BY <1>1, <1>2, <1>3, <1>4, <1>5 DEF Replaces
<1>6. WellFormed(n) /\ Later(m, n)
  BY <1>1, <1>6a, QuestionReplaced
<1>7. \A x \in QuestionIds : n.questions[x].confirmed = m.questions[x].confirmed
  BY <1>1, <1>2, <1>3
<1> QED
  BY <1>6, <1>7 DEF n

-----------------------------------------------------------------------------
(* What a handled request leaves behind.                                   *)

\* The server is in order afterwards, and the reply names a version it has.
Handles(m, h, ok) ==
  /\ WellFormed(h.m) /\ Later(m, h.m) /\ Recorded(h.m, ok)
  /\ h.ans # Failed => h.ans.version \in 0..h.m.version

\* A manifest is as late as itself.
LEMMA LaterReflexive == ASSUME NEW m, WellFormed(m) PROVE Later(m, m)
BY DEF WellFormed, Later

\* Answers stay recorded where no answer changes.
LEMMA StaysRecorded ==
  ASSUME NEW m, NEW n, NEW ok, Recorded(m, ok), Later(m, n),
         \A x \in QuestionIds : n.questions[x].confirmed = m.questions[x].confirmed
  PROVE  Recorded(n, ok)
BY DEF Recorded, Later

\* The reply is the body or is lost.
LEMMA HandledReplies ==
  ASSUME NEW n, NEW body, NEW h \in Handled(n, body)
  PROVE  h.m = n /\ (h.ans # Failed => h.ans = body)
BY DEF Handled

\* A refusal changes nothing.
LEMMA RefusedReplies ==
  ASSUME NEW m, WellFormed(m), NEW ok, Recorded(m, ok), NEW h \in Refused(m)
  PROVE  Handles(m, h, ok) /\ h.ans = Failed
<1>1. h.m = m /\ h.ans = Failed
  BY DEF Refused
<1> QED
  BY <1>1, LaterReflexive DEF Handles

\* A candidate.
LEMMA CandidateServed ==
  ASSUME NEW m, WellFormed(m), NEW ok, Recorded(m, ok), NEW r, NEW h \in CandidateReplies(m, r)
  PROVE  Handles(m, h, ok)
<1> DEFINE may == /\ S!RequireCurrentVersion(m, r.aver)
                  /\ S!CanReplaceCandidate(m, r.q, r.text, r.origin, r.prior, Now)
           n == S!ReplaceCandidate(m, r.q, r.text, r.origin)
           body == [ok |-> TRUE, version |-> n.version,
                    cand |-> MapCandidate(r.q, n.questions[r.q].current)]
<1>1. CASE may
  <2>1. h \in Handled(n, body)
    BY <1>1 DEF CandidateReplies
  <2>2. r.q \in QuestionIds
    BY <1>1 DEF S!CanReplaceCandidate, S!ReadyForAnswers, S!HasQuestion, WellFormed
  <2>3. body.version = n.version
    OBVIOUS
  <2> HIDE DEF body, n
  <2>4. h.m = n /\ (h.ans # Failed => h.ans.version = n.version)
    BY <2>1, <2>3, HandledReplies
  <2>5. /\ WellFormed(n) /\ Later(m, n)
        /\ \A x \in QuestionIds : n.questions[x].confirmed = m.questions[x].confirmed
    BY <2>2, CandidateStored DEF n
  <2>6. Recorded(n, ok)
    BY <2>5, StaysRecorded
  <2> QED
    BY <2>4, <2>5, <2>6 DEF Handles, WellFormed
<1>2. CASE ~may
  BY <1>2, RefusedReplies DEF CandidateReplies
<1> QED
  BY <1>1, <1>2

\* A suggestion.
LEMMA RephraseServed ==
  ASSUME NEW m, WellFormed(m), NEW ok, Recorded(m, ok), NEW r, NEW h \in RephraseReplies(m, r)
  PROVE  Handles(m, h, ok)
<1> DEFINE may == /\ S!RequireCurrentVersion(m, r.aver)
                  /\ r.cand.q = r.q
                  /\ S!CanRecordRephrase(m, r.q, r.cand.ver, Now)
<1>1. CASE may
  <2>1. PICK text : h \in LET n == S!RecordRephrase(m, r.q, text)
                              s == CHOOSE x \in n.questions[r.q].rephrases :
                                     \A y \in n.questions[r.q].rephrases : y.suggestion <= x.suggestion
                          IN  Handled(n, [ok |-> TRUE, version |-> n.version, cand |-> r.cand,
                                          suggestion |-> [q |-> r.q, ver |-> s.suggestion, text |-> s.text,
                                                          origin |-> "claros_rephrase"]])
    BY <1>1, ZenonT(30) DEF RephraseReplies
  <2> DEFINE n == S!RecordRephrase(m, r.q, text)
             s == CHOOSE x \in n.questions[r.q].rephrases :
                    \A y \in n.questions[r.q].rephrases : y.suggestion <= x.suggestion
             body == [ok |-> TRUE, version |-> n.version, cand |-> r.cand,
                      suggestion |-> [q |-> r.q, ver |-> s.suggestion, text |-> s.text,
                                      origin |-> "claros_rephrase"]]
  <2>2. h \in Handled(n, body)
    BY <2>1, Zenon
  <2>3. r.q \in QuestionIds
    BY <1>1 DEF S!CanRecordRephrase, S!ReadyForAnswers, S!HasQuestion, WellFormed
  <2>4. body.version = n.version
    OBVIOUS
  <2> HIDE DEF body, n, s
  <2>5. h.m = n /\ (h.ans # Failed => h.ans.version = n.version)
    BY <2>2, <2>4, HandledReplies
  <2>6. /\ WellFormed(n) /\ Later(m, n)
        /\ \A x \in QuestionIds : n.questions[x].confirmed = m.questions[x].confirmed
    BY <2>3, RephraseRecorded DEF n
  <2>7. Recorded(n, ok)
    BY <2>6, StaysRecorded
  <2> QED
    BY <2>5, <2>6, <2>7 DEF Handles, WellFormed
<1>2. CASE ~may
  BY <1>2, RefusedReplies DEF RephraseReplies
<1> QED
  BY <1>1, <1>2

\* A review: the reply shows the token that was issued.
LEMMA ReviewServed ==
  ASSUME NEW m, WellFormed(m), NEW ok, Recorded(m, ok), NEW r, NEW h \in ReviewReplies(m, r)
  PROVE  /\ Handles(m, h, ok)
         /\ h.ans # Failed =>
              Issued(h.m, h.ans.review.q, h.ans.review.tok, h.ans.review.text)
<1> DEFINE may == /\ S!RequireCurrentVersion(m, r.aver)
                  /\ r.cand.q = r.q
                  /\ S!CanIssueReview(m, r.q, r.cand.ver, Now)
           n == S!IssueReview(m, r.q, Now)
           s == n.questions[r.q]
           body == [ok |-> TRUE, version |-> n.version, cand |-> MapCandidate(r.q, s.current),
                    review |-> [q |-> r.q, tok |-> Len(s.tokens), cand |-> s.current.ver,
                                text |-> s.current.text, aver |-> n.version]]
<1>1. CASE may
  <2>1. h \in Handled(n, body)
    BY <1>1 DEF ReviewReplies
  <2>2. r.q \in QuestionIds
    BY <1>1 DEF S!CanIssueReview, S!HasQuestion, WellFormed
  <2>3. /\ body.version = n.version
        /\ body.review.q = r.q /\ body.review.tok = Len(s.tokens)
        /\ body.review.text = s.current.text
    OBVIOUS
  <2> HIDE DEF body, n
  <2>4. h.m = n /\ (h.ans # Failed => h.ans = body)
    BY <2>1, HandledReplies
  <2>5. /\ WellFormed(n) /\ Later(m, n)
        /\ \A x \in QuestionIds : n.questions[x].confirmed = m.questions[x].confirmed
        /\ Issued(n, r.q, Len(s.tokens), s.current.text)
    BY <2>2, ReviewIssued DEF n
  <2>6. Recorded(n, ok)
    BY <2>5, StaysRecorded
  <2>7. h.ans # Failed => Issued(h.m, h.ans.review.q, h.ans.review.tok, h.ans.review.text)
    BY <2>3, <2>4, <2>5
  <2> QED
    BY <2>3, <2>4, <2>5, <2>6, <2>7 DEF Handles, WellFormed
<1>2. CASE ~may
  BY <1>2, RefusedReplies DEF ReviewReplies
<1> QED
  BY <1>1, <1>2

\* A confirmation of an approved wording leaves approved answers, and the reply
\* is a receipt's.
LEMMA ConfirmServed ==
  ASSUME NEW m, WellFormed(m), NEW ok, Recorded(m, ok),
         NEW r, GoodRequest(r, m, ok), r.what = "confirm", NEW h \in ConfirmReplies(m, r)
  PROVE  Handles(m, h, ok) /\ (h.ans # Failed => Shown(h.m, h.ans.answer))
<1> DEFINE made == S!ReplayReceipts(m, r.q, r.tok, r.cand.ver, r.aver, Now) # {}
           n    == IF made THEN m ELSE S!ConfirmCandidate(m, r.q, r.tok)
           k    == CHOOSE x \in S!ReceiptsOf(n, r.q, r.tok) : TRUE
           body == [ok |-> TRUE, version |-> k.version, answer |-> MapAnswer(k.answer)]
           may  == /\ r.cand.q = r.q
                   /\ made \/ S!CanConfirmCandidate(m, r.q, r.tok, r.cand.ver, r.aver, Now)
<1>1. CASE may
  <2>1. h \in Handled(n, body)
    BY <1>1 DEF ConfirmReplies
  <2>2. body.version = k.version /\ body.answer = MapAnswer(k.answer)
    OBVIOUS
  <2>3. WellFormed(n) /\ Later(m, n) /\ Recorded(n, ok) /\ S!ReceiptsOf(n, r.q, r.tok) # {}
    <3>1. CASE made
      BY <3>1, LaterReflexive DEF S!ReplayReceipts
    <3>2. CASE ~made
      <4> DEFINE c == S!ConfirmCandidate(m, r.q, r.tok)
      <4>1. S!CanConfirmCandidate(m, r.q, r.tok, r.cand.ver, r.aver, Now) /\ n = c
        BY <1>1, <3>2
      <4> HIDE DEF made
      <4>2. /\ HasToken(m, r.q, r.tok)
            /\ WellFormed(c) /\ Later(m, c)
            /\ \A x \in QuestionIds \ {r.q} : c.questions[x].confirmed = m.questions[x].confirmed
            /\ c.questions[r.q].confirmed.text = Wording(m, r.q, r.tok)
            /\ \E x \in c.receipts : x.q = r.q /\ x.tok = r.tok
                                     /\ x.answer = c.questions[r.q].confirmed
        BY <4>1, AnswerConfirmed
      <4> HIDE DEF c
      <4>3. <<r.q, Wording(m, r.q, r.tok)>> \in ok
        BY DEF GoodRequest
      <4>4. Recorded(c, ok)
        <5> SUFFICES ASSUME NEW q \in QuestionIds
                     PROVE  LET a == c.questions[q].confirmed
                            IN  \/ a = S!NoAnswer
                                \/ <<q, a.text>> \in ok /\ \E x \in c.receipts : x.answer = a
          BY DEF Recorded
        <5>1. CASE q = r.q
          BY <4>2, <4>3, <5>1
        <5>2. CASE q # r.q
          BY <4>2, <5>2 DEF Recorded, Later
        <5> QED
          BY <5>1, <5>2
      <4>5. S!ReceiptsOf(c, r.q, r.tok) # {}
        BY <4>2 DEF S!ReceiptsOf
      <4> QED
        BY <4>1, <4>2, <4>4, <4>5
    <3> QED
      BY <3>1, <3>2
  <2> HIDE DEF body, n
  <2>4. h.m = n /\ (h.ans # Failed => h.ans = body)
    BY <2>1, HandledReplies
  <2>5. k \in n.receipts
    BY <2>3 DEF S!ReceiptsOf
  <2> HIDE DEF k
  <2>6. k.version \in 0..n.version
    BY <2>3, <2>5 DEF WellFormed
  <2>7. Shown(n, MapAnswer(k.answer))
    BY <2>5 DEF Shown
  <2> QED
    BY <2>2, <2>3, <2>4, <2>6, <2>7 DEF Handles
<1>2. CASE ~may
  BY <1>2, RefusedReplies DEF ConfirmReplies
<1> QED
  BY <1>1, <1>2

\* The start of a revision.
LEMMA RevisionServed ==
  ASSUME NEW m, WellFormed(m), NEW ok, Recorded(m, ok), NEW r, NEW h \in RevisionReplies(m, r)
  PROVE  Handles(m, h, ok)
<1> DEFINE may == S!RequireCurrentVersion(m, r.aver) /\ S!CanBeginRevision(m, r.q, Now)
           n == S!BeginRevision(m, r.q)
           s == n.questions[r.q]
           body == [ok |-> TRUE, version |-> n.version, seed |-> s.revision.seed,
                    prior |-> s.confirmed.cand]
<1>1. CASE may
  <2>1. h \in Handled(n, body)
    BY <1>1 DEF RevisionReplies
  <2>2. r.q \in QuestionIds
    BY <1>1 DEF S!CanBeginRevision, S!HasQuestion, WellFormed
  <2>3. body.version = n.version
    OBVIOUS
  <2> HIDE DEF body, n
  <2>4. h.m = n /\ (h.ans # Failed => h.ans.version = n.version)
    BY <2>1, <2>3, HandledReplies
  <2>5. /\ WellFormed(n) /\ Later(m, n)
        /\ \A x \in QuestionIds : n.questions[x].confirmed = m.questions[x].confirmed
    BY <2>2, RevisionBegun DEF n
  <2>6. Recorded(n, ok)
    BY <2>5, StaysRecorded
  <2> QED
    BY <2>4, <2>5, <2>6 DEF Handles, WellFormed
<1>2. CASE ~may
  BY <1>2, RefusedReplies DEF RevisionReplies
<1> QED
  BY <1>1, <1>2

\* Any request the page sends.
LEMMA RequestServed ==
  ASSUME NEW m, WellFormed(m), NEW ok, Recorded(m, ok),
         NEW r, GoodRequest(r, m, ok), NEW h \in Replies(m, r)
  PROVE  /\ Handles(m, h, ok)
         /\ r.what = "review" /\ h.ans # Failed =>
              Issued(h.m, h.ans.review.q, h.ans.review.tok, h.ans.review.text)
         /\ r.what = "confirm" /\ h.ans # Failed => Shown(h.m, h.ans.answer)
<1>1. CASE r.what = "candidate"
  BY <1>1, CandidateServed DEF Replies
<1>2. CASE r.what = "rephrase"
  BY <1>2, RephraseServed DEF Replies
<1>3. CASE r.what = "review"
  BY <1>3, ReviewServed DEF Replies
<1>4. CASE r.what = "confirm"
  BY <1>4, ConfirmServed DEF Replies
<1>5. CASE r.what = "revise"
  BY <1>5, RevisionServed DEF Replies
<1> QED
  BY <1>1, <1>2, <1>3, <1>4, <1>5 DEF GoodRequest, AnswerRequests

-----------------------------------------------------------------------------
(* The page's events.                                                      *)

PageFields == {"at", "version", "questions", "verified", "active", "cand", "original",
               "suggestion", "review", "confirmed", "drafts", "epoch", "error", "result"}

\* The context has these fields.
LEMMA ContextFields == DOMAIN InitialContext = PageFields
BY DEF InitialContext, PageFields

\* An event that brings no answer and no review; its version is the server's.
Turns(p, n, m) ==
  /\ DOMAIN n = DOMAIN p
  /\ n.version = p.version \/ n.version \in 0..m.version
  /\ n.confirmed = p.confirmed
  /\ n.review \in {p.review, NoReview}
  /\ n.at = "confirming" => p.at = "confirming"

\* Such an event keeps a good page.
LEMMA TurnsKeep ==
  ASSUME NEW m, NEW ok, NEW p, GoodPage(p, m, ok), NEW n, Turns(p, n, m)
  PROVE  GoodPage(n, m, ok)
BY DEF GoodPage, GoodReview, Turns

\* The events of writing.
LEMMA WritingTurns ==
  ASSUME NEW m, NEW p, DOMAIN p = PageFields
  PROVE  /\ \A text : Turns(p, CandidateChanged(p, text), m)
         /\ \A text : Turns(p, VoiceCaptured(p, text), m)
         /\ Turns(p, RequestRephrase(p), m)
         /\ Turns(p, ChangeAnswer(p), m)
<1>1. ASSUME NEW text, NEW origin, NEW changed
      PROVE  LET n == WriteCandidate(p, text, origin, changed)
             IN  /\ DOMAIN n = DOMAIN p /\ n.version = p.version /\ n.confirmed = p.confirmed
                 /\ n.review = NoReview /\ n.at = p.at
  BY DEF WriteCandidate, Unreviewed, PageFields
<1>2. ASSUME NEW text PROVE Turns(p, CandidateChanged(p, text), m)
  BY <1>1 DEF CandidateChanged, Turns
<1>3. ASSUME NEW text PROVE Turns(p, VoiceCaptured(p, text), m)
  BY <1>1 DEF VoiceCaptured, Turns
<1>4. Turns(p, RequestRephrase(p), m)
  BY DEF RequestRephrase, Turns, PageFields
<1>5. Turns(p, ChangeAnswer(p), m)
  BY DEF ChangeAnswer, Turns, PageFields
<1> QED
  BY <1>2, <1>3, <1>4, <1>5

\* The events of moving between questions and views.
LEMMA MovingTurns ==
  ASSUME NEW m, NEW p, DOMAIN p = PageFields
  PROVE  /\ \A q : Turns(p, GoToQuestion(p, q), m)
         /\ Turns(p, ContinueToNext(p), m)
         /\ Turns(p, ContinueByTyping(p), m)
         /\ Turns(p, OpenWorksheetReview(p), m)
         /\ Turns(p, ReviewAnswers(p), m)
         /\ Turns(p, OpenAssignmentRoute(p), m)
         /\ Turns(p, OpenReviewRoute(p), m)
<1> DEFINE there == [p EXCEPT !.at = "conversation"]
<1>1. /\ DOMAIN there = PageFields /\ there.version = p.version
      /\ there.confirmed = p.confirmed /\ there.review = p.review /\ there.at = "conversation"
  BY DEF PageFields
<1>2. Turns(p, there, m)
  BY <1>1 DEF Turns
<1> HIDE DEF there
<1>3. ASSUME NEW i PROVE Turns(p, MoveTo(there, i), m)
  BY <1>1 DEF MoveTo, Unreviewed, Turns, PageFields
<1>4. ASSUME NEW q PROVE Turns(p, GoToQuestion(p, q), m)
  BY <1>2, <1>3 DEF GoToQuestion, Turns, there
<1>5. Turns(p, ContinueToNext(p), m)
  <2>1. Turns(p, [p EXCEPT !.at = "worksheetReview"], m) /\ Turns(p, p, m)
    BY DEF Turns, PageFields
  <2> QED
    BY <1>3, <2>1 DEF ContinueToNext, there
<1>6. /\ Turns(p, ContinueByTyping(p), m)
      /\ Turns(p, OpenWorksheetReview(p), m)
      /\ Turns(p, ReviewAnswers(p), m)
  BY DEF ContinueByTyping, OpenWorksheetReview, ReviewAnswers, Turns, PageFields
<1>7. /\ Turns(p, OpenAssignmentRoute(p), m)
      /\ Turns(p, OpenReviewRoute(p), m)
  BY DEF OpenAssignmentRoute, OpenReviewRoute, Unreviewed, Turns, PageFields
<1> QED
  BY <1>4, <1>5, <1>6, <1>7

\* The events of failures.
LEMMA FailureTurns ==
  ASSUME NEW m, NEW p, DOMAIN p = PageFields
  PROVE  /\ Turns(p, AnalysisFailed(p), m) /\ Turns(p, RequestFailed(p), m)
         /\ Turns(p, RephraseFailed(p), m) /\ Turns(p, ConfirmFailed(p), m)
BY DEF AnalysisFailed, RequestFailed, RephraseFailed, ConfirmFailed, Turns, PageFields

\* The events of exports.
LEMMA ExportTurns ==
  ASSUME NEW m, m.version \in Nat, NEW p, DOMAIN p = PageFields,
         NEW v \in 0..m.version, NEW result
  PROVE  /\ Turns(p, CreateExport(p), m)
         /\ Turns(p, RetryExport(p), m)
         /\ Turns(p, ExportSucceeded(p, result, v), m)
         /\ Turns(p, ExportRestored(p, result, v), m)
         /\ Turns(p, ExportPending(p, v), m)
         /\ Turns(p, ExportFailed(p, v), m)
<1>1. TakeVersion(p, v) = p.version \/ TakeVersion(p, v) \in 0..m.version
  BY DEF TakeVersion
<1>2. Turns(p, CreateExport(p), m) /\ Turns(p, RetryExport(p), m)
  BY DEF CreateExport, RetryExport, Turns, PageFields
<1>3. Turns(p, ExportSucceeded(p, result, v), m) /\ Turns(p, ExportRestored(p, result, v), m)
  BY <1>1 DEF ExportSucceeded, ExportRestored, Turns, PageFields
<1>4. Turns(p, ExportPending(p, v), m) /\ Turns(p, ExportFailed(p, v), m)
  BY <1>1 DEF ExportPending, ExportFailed, Turns, PageFields
<1> QED
  BY <1>2, <1>3, <1>4

\* The answers of the service that bring a version.
LEMMA AnswerTurns ==
  ASSUME NEW m, NEW p, DOMAIN p = PageFields, NEW v \in 0..m.version
  PROVE  /\ \A cand, q, rev, epoch : Turns(p, CandidatePersisted(p, v, cand, q, rev, epoch), m)
         /\ \A original, suggestion : Turns(p, RephraseReady(p, original, suggestion, v), m)
         /\ \A q, seed : Turns(p, RevisionReady(p, q, seed, v), m)
         /\ \A questions, verified : Turns(p, QuestionSetupAccepted(p, v, questions, verified), m)
<1>1. ASSUME NEW cand, NEW q, NEW rev, NEW epoch
      PROVE  Turns(p, CandidatePersisted(p, v, cand, q, rev, epoch), m)
  <2>1. ASSUME NEW d, NEW w, w = p.version \/ w = v
        PROVE  LET n == [p EXCEPT !.version = w, !.drafts[q] = d]
               IN  Turns(p, n, m) /\ Turns(p, [n EXCEPT !.cand = cand, !.review = NoReview, !.error = FALSE], m)
    BY <2>1 DEF Turns, PageFields
  <2> DEFINE current == IsCurrentDraft(p, q, rev, epoch)
             draft   == p.drafts[q]
             kept    == IF current \/ draft = NoDraft THEN cand ELSE draft
             d == [text |-> kept.text, origin |-> kept.origin,
                   rev |-> IF draft = NoDraft /\ rev # -1 THEN rev ELSE draft.rev,
                   dirty |-> ~current, ack |-> cand]
             w == IF Loaded(p) THEN v ELSE p.version
             n == [p EXCEPT !.version = w, !.drafts[q] = d]
  <2>2. \/ CandidatePersisted(p, v, cand, q, rev, epoch) = n
        \/ CandidatePersisted(p, v, cand, q, rev, epoch)
             = [n EXCEPT !.cand = cand, !.review = NoReview, !.error = FALSE]
    BY DEF CandidatePersisted
  <2>3. w = p.version \/ w = v
    OBVIOUS
  <2> HIDE DEF d, w
  <2>4. Turns(p, n, m) /\ Turns(p, [n EXCEPT !.cand = cand, !.review = NoReview, !.error = FALSE], m)
    BY <2>1, <2>3
  <2> HIDE DEF n
  <2> QED
    BY <2>2, <2>4
<1>2. ASSUME NEW original, NEW suggestion
      PROVE  Turns(p, RephraseReady(p, original, suggestion, v), m)
  BY DEF RephraseReady, Turns, PageFields
<1>3. ASSUME NEW q, NEW seed PROVE Turns(p, RevisionReady(p, q, seed, v), m)
  BY DEF RevisionReady, Unreviewed, Turns, PageFields
<1>4. ASSUME NEW questions, NEW verified
      PROVE  Turns(p, QuestionSetupAccepted(p, v, questions, verified), m)
  BY DEF QuestionSetupAccepted, ApplyQuestionSetup, Turns, PageFields
<1> QED
  BY <1>1, <1>2, <1>3, <1>4

\* A new page claims nothing.
LEMMA EmptyPage ==
  ASSUME NEW m, m.version \in Nat, NEW ok
  PROVE  /\ GoodPage(InitialContext, m, ok)
         /\ \A p : GoodPage(StartAnalysis(Reset(p)), m, ok)
<1>1. ASSUME NEW p, DOMAIN p = PageFields, p.version = 0, p.review = NoReview,
             p.confirmed = [q \in QuestionIds |-> NoAnswer]
      PROVE  GoodPage(p, m, ok)
  BY <1>1, ContextFields DEF GoodPage, GoodReview, Shown
<1>2. ASSUME NEW at
      PROVE  LET p == ClearForAnalysis(at)
             IN  /\ DOMAIN p = PageFields /\ p.version = 0 /\ p.review = NoReview
                 /\ p.confirmed = [q \in QuestionIds |-> NoAnswer] /\ p.at = at
  BY DEF ClearForAnalysis, InitialContext, PageFields
<1>3. GoodPage(InitialContext, m, ok)
  BY <1>1, ContextFields DEF InitialContext
<1>4. ASSUME NEW p PROVE GoodPage(StartAnalysis(Reset(p)), m, ok)
  BY <1>1, <1>2 DEF StartAnalysis, Reset
<1> QED
  BY <1>3, <1>4

\* A page made from what the server stored.
LEMMA LoadedPage ==
  ASSUME NEW m, NEW ok, NEW p, GoodPage(p, m, ok),
         NEW v \in 0..m.version, NEW questions, NEW verified, NEW active, NEW cand,
         NEW confirmed, DOMAIN confirmed = QuestionIds,
         \A q \in QuestionIds : Shown(m, confirmed[q])
  PROVE  GoodPage(AnalysisReady(p, v, questions, verified, confirmed, active, cand), m, ok)
<1> DEFINE n == AnalysisReady(p, v, questions, verified, confirmed, active, cand)
<1>1. CASE p.at # "checking"
  BY <1>1 DEF AnalysisReady
<1>2. CASE p.at = "checking"
  <2>1. /\ DOMAIN n = DOMAIN p /\ n.version = v /\ n.confirmed = confirmed
        /\ n.review = p.review /\ n.at = "questionCheck"
    BY <1>2, ContextFields DEF GoodPage, AnalysisReady, PageFields
  <2> HIDE DEF n
  <2>2. GoodPage(n, m, ok)
    BY <2>1 DEF GoodPage
  <2> QED
    BY <2>2 DEF n
<1> QED
  BY <1>1, <1>2

\* A review the server issued is shown.
LEMMA ReviewShown ==
  ASSUME NEW m, NEW ok, NEW p, GoodPage(p, m, ok), NEW v \in 0..m.version, NEW cand, NEW review,
         Issued(m, review.q, review.tok, review.text)
  PROVE  GoodPage(ReviewReady(p, cand, review, v), m, ok)
<1> DEFINE n == ReviewReady(p, cand, review, v)
<1>1. /\ DOMAIN n = DOMAIN p /\ n.version \in {v, p.version} /\ n.confirmed = p.confirmed
      /\ n.review = review /\ n.at = "exactReview"
  BY ContextFields DEF GoodPage, ReviewReady, Unreviewed, PageFields
<1> HIDE DEF n
<1>2. GoodPage(n, m, ok)
  BY <1>1 DEF GoodPage, GoodReview
<1> QED
  BY <1>2 DEF n

\* The button: what it confirms becomes approved.
LEMMA ConfirmPressed ==
  ASSUME NEW m, NEW ok, NEW p, GoodPage(p, m, ok), p.at # "confirming"
  PROVE  GoodPage(Confirm(p), m, IF Confirm(p).at = "confirming"
                                 THEN ok \cup {<<p.review.q, p.cand.text>>} ELSE ok)
<1> DEFINE n == Confirm(p)
<1>1. CASE p.at = "exactReview" /\ HasCurrentReview(p)
  <2>1. /\ DOMAIN n = DOMAIN p /\ n.version = p.version /\ n.confirmed = p.confirmed
        /\ n.review = p.review /\ n.at = "confirming"
    BY <1>1, ContextFields DEF GoodPage, Confirm, PageFields
  <2>2. p.review.text = p.cand.text
    BY <1>1 DEF HasCurrentReview
  <2> HIDE DEF n
  <2>3. GoodPage(n, m, ok \cup {<<p.review.q, p.cand.text>>})
    BY <2>1, <2>2 DEF GoodPage
  <2> QED
    BY <2>1, <2>3 DEF n
<1>2. CASE ~(p.at = "exactReview" /\ HasCurrentReview(p))
  BY <1>2 DEF Confirm
<1> QED
  BY <1>1, <1>2

\* A confirmation the server made is shown as added.
LEMMA AnswerShown ==
  ASSUME NEW m, NEW ok, NEW p, GoodPage(p, m, ok), NEW v \in 0..m.version,
         NEW answer, Shown(m, answer)
  PROVE  GoodPage(ConfirmSucceeded(p, answer, v), m, ok)
<1> DEFINE n == ConfirmSucceeded(p, answer, v)
           a == ActiveQuestion(p)
<1>1. /\ DOMAIN n = DOMAIN p /\ n.version \in {v, p.version}
      /\ n.confirmed \in {p.confirmed, [p.confirmed EXCEPT ![a] = answer]}
      /\ n.review = p.review /\ n.at \in {p.at, "answerAdded"}
  BY ContextFields DEF GoodPage, ConfirmSucceeded, PageFields
<1> HIDE DEF n, a
<1>2. DOMAIN n.confirmed = QuestionIds /\ \A q \in QuestionIds : Shown(m, n.confirmed[q])
  BY <1>1 DEF GoodPage
<1>3. GoodPage(n, m, ok)
  BY <1>1, <1>2 DEF GoodPage
<1> QED
  BY <1>3 DEF n

-----------------------------------------------------------------------------
(* What is good stays good on a later server, with more approved.          *)

\* A review.
LEMMA IssuedLater ==
  ASSUME NEW m, NEW n, Later(m, n), NEW q, NEW tok, NEW text, Issued(m, q, tok, text)
  PROVE  Issued(n, q, tok, text)
BY DEF Later, Issued

\* An answer.
LEMMA ShownLater ==
  ASSUME NEW m, NEW n, Later(m, n), NEW a, Shown(m, a)
  PROVE  Shown(n, a)
BY DEF Later, Shown

\* A version.
LEMMA VersionLater ==
  ASSUME NEW m, WellFormed(m), NEW n, Later(m, n), NEW v \in 0..m.version
  PROVE  v \in 0..n.version
BY DEF WellFormed, Later

\* The page.
LEMMA PageLater ==
  ASSUME NEW m, WellFormed(m), NEW n, Later(m, n), NEW ok, NEW more, ok \subseteq more,
         NEW p, GoodPage(p, m, ok)
  PROVE  GoodPage(p, n, more)
<1>1. GoodReview(n, p.review)
  BY IssuedLater DEF GoodPage, GoodReview
<1>2. p.version \in 0..n.version
  BY VersionLater DEF GoodPage
<1>3. \A q \in QuestionIds : Shown(n, p.confirmed[q])
  BY ShownLater DEF GoodPage
<1> QED
  BY <1>1, <1>2, <1>3 DEF GoodPage

\* A request.
LEMMA RequestLater ==
  ASSUME NEW m, NEW n, Later(m, n), NEW ok, NEW more, ok \subseteq more,
         NEW r, GoodRequest(r, m, ok)
  PROVE  GoodRequest(r, n, more)
BY DEF GoodRequest, Later

\* A mutation under way.
LEMMA OpLater ==
  ASSUME NEW m, WellFormed(m), NEW n, Later(m, n), NEW ok, NEW more, ok \subseteq more,
         NEW o, GoodOp(o, m, ok)
  PROVE  GoodOp(o, n, more)
<1> SUFFICES ASSUME o # NoOp PROVE GoodOp(o, n, more)
  BY DEF GoodOp
<1>1. o.kind # "export" => GoodRequest(o.req, n, more)
  BY RequestLater DEF GoodOp
<1>2. Answers(o) => o.ans.version \in 0..n.version
  BY VersionLater DEF GoodOp
<1>3. Answers(o) /\ Reviewing(o) =>
        Issued(n, o.ans.review.q, o.ans.review.tok, o.ans.review.text)
  BY IssuedLater DEF GoodOp
<1>4. Answers(o) /\ o.kind = "confirm" => Shown(n, o.ans.answer)
  BY ShownLater DEF GoodOp
<1> QED
  BY <1>1, <1>2, <1>3, <1>4 DEF GoodOp

\* What a load awaits.
LEMMA PollLater ==
  ASSUME NEW m, NEW n, Later(m, n), NEW w, GoodPoll(w, m)
  PROVE  GoodPoll(w, n)
BY ShownLater DEF GoodPoll

-----------------------------------------------------------------------------
(* Requests.                                                               *)

\* A mutation that was just begun.
LEMMA FreshOp ==
  ASSUME NEW m, NEW ok, NEW o, DOMAIN o = OpFields, o.ans = NoRequest,
         o.kind \in {"rephrase", "review", "select", "confirm", "revise"},
         GoodRequest(o.req, m, ok),
         Reviewing(o) => o.req.what = "review",
         o.kind = "confirm" => o.req.what = "confirm"
  PROVE  GoodOp(o, m, ok)
BY DEF GoodOp, Answers

\* What is sent, and what is kept while it is awaited.
LEMMA AwaitFields ==
  ASSUME NEW kind, NEW step, NEW p, NEW q, NEW text, NEW req
  PROVE  LET o == Await(kind, step, p, q, text, req)
         IN  /\ DOMAIN o = OpFields
             /\ o.kind = kind /\ o.step = step /\ o.req = req /\ o.ans = NoRequest
BY DEF Await, OpFields

\* The operation a request asks for.
LEMMA RequestKinds ==
  /\ \A what, q, aver : Request(what, q, aver).what = what
  /\ \A what, q, aver, c : AboutCandidate(what, q, aver, c).what = what
  /\ \A p, r : CandidateRequest(p, r).what = "candidate"
BY DEF Request, AboutCandidate, CandidateRequest

\* The request after a candidate is stored, and the review of a selection.
LEMMA FollowGood ==
  ASSUME NEW m, NEW ok, NEW kind \in {"rephrase", "review"},
         NEW p, NEW q, NEW version, NEW c
  PROVE  /\ GoodOp(Follow(kind, p, q, version, c), m, ok)
         /\ GoodOp([Follow("review", p, q, version, c) EXCEPT !.kind = "select"], m, ok)
<1> DEFINE o(k) == Follow(k, p, q, version, c)
           s == [o("review") EXCEPT !.kind = "select"]
<1>1. ASSUME NEW k \in {"rephrase", "review"}
      PROVE  /\ DOMAIN o(k) = OpFields /\ o(k).ans = NoRequest /\ o(k).kind = k
             /\ o(k).req.what = k
  BY AwaitFields, RequestKinds DEF Follow
<1>2. DOMAIN s = OpFields /\ s.ans = NoRequest /\ s.kind = "select" /\ s.req.what = "review"
  BY <1>1 DEF OpFields
<1>3. GoodOp(o(kind), m, ok)
  BY <1>1, FreshOp DEF GoodRequest, AnswerRequests, Reviewing
<1> HIDE DEF s
<1>4. GoodOp(s, m, ok)
  BY <1>2, FreshOp DEF GoodRequest, AnswerRequests, Reviewing
<1> QED
  BY <1>3, <1>4 DEF s

\* A request that only stores something.
LEMMA PersistGood ==
  ASSUME NEW m, NEW ok, NEW kind \in {"rephrase", "review", "select"},
         NEW p, NEW q, NEW text, NEW req, req.what = "candidate"
  PROVE  GoodOp(Await(kind, "persist", p, q, text, req), m, ok)
<1> DEFINE o == Await(kind, "persist", p, q, text, req)
<1>1. DOMAIN o = OpFields /\ o.ans = NoRequest /\ o.kind = kind /\ o.step = "persist" /\ o.req = req
  BY AwaitFields
<1> HIDE DEF o
<1>2. GoodOp(o, m, ok)
  BY <1>1, FreshOp DEF GoodRequest, AnswerRequests, Reviewing
<1> QED
  BY <1>2 DEF o

\* requestRephrase and requestReview.
LEMMA BeginGood ==
  ASSUME NEW m, NEW ok, NEW kind \in {"rephrase", "review"}, NEW p
  PROVE  GoodOp(Begin(kind, p), m, ok)
<1>1. GoodOp(Follow(kind, p, ActiveQuestion(p), p.version, p.cand), m, ok)
  BY FollowGood
<1>2. GoodOp(Await(kind, "persist", p, ActiveQuestion(p), p.cand.text, CandidateRequest(p, refs)), m, ok)
  BY PersistGood, RequestKinds
<1> QED
  BY <1>1, <1>2 DEF Begin

-----------------------------------------------------------------------------
(* Steps.                                                                  *)

\* What the invariant says of the page, for its events.
LEMMA PageFacts ==
  ASSUME PInv
  PROVE  /\ DOMAIN page = PageFields /\ GoodPage(page, manifest, approved)
         /\ manifest.version \in Nat /\ 0 \in 0..manifest.version
         /\ manifest.version \in 0..manifest.version
         /\ GoodOp(NoOp, manifest, approved)
BY ContextFields DEF PInv, GoodPage, WellFormed, GoodOp

\* A step of the page that leaves the server alone.
LEMMA PageStep ==
  ASSUME PInv, UNCHANGED <<manifest, approved>>,
         GoodPage(page', manifest, approved), GoodOp(op', manifest, approved),
         orphan' = orphan \/ orphan' = NoRequest, GoodPoll(poll', manifest)
  PROVE  PInv'
BY DEF PInv

\* An event without an answer or a review, with the mutation kept, ended or begun.
LEMMA TurnStep ==
  ASSUME PInv, UNCHANGED <<manifest, approved, orphan, poll>>,
         Turns(page, page', manifest),
         op' = op \/ op' = NoOp \/ GoodOp(op', manifest, approved)
  PROVE  PInv'
<1>1. GoodPage(page', manifest, approved)
  BY PageFacts, TurnsKeep
<1>2. GoodOp(op', manifest, approved)
  BY PageFacts DEF PInv
<1> QED
  BY <1>1, <1>2, PageStep DEF PInv

\* A mutation is begun while the page stays as it is.
LEMMA BeginStep ==
  ASSUME PInv, UNCHANGED <<manifest, approved, orphan, poll, page>>,
         GoodOp(op', manifest, approved)
  PROVE  PInv'
BY PageStep DEF PInv

\* The student writes.
LEMMA WriteStep ==
  ASSUME PInv, Write
  PROVE  PInv'
<1>1. CASE \E text \in Texts : Type(text) \/ Dictate(text)
  <2>1. \E text : page' \in {CandidateChanged(page, text), VoiceCaptured(page, text)}
    BY <1>1 DEF Type, Dictate, Send
  <2>2. UNCHANGED <<manifest, approved, orphan, poll, op>>
    BY <1>1 DEF Type, Dictate
  <2> QED
    BY <2>1, <2>2, PageFacts, WritingTurns, TurnStep
<1>2. CASE AskRephrase
  <2>1. /\ page' = RequestRephrase(page) /\ op' = Begin("rephrase", RequestRephrase(page))
        /\ UNCHANGED <<manifest, approved, orphan, poll>>
    BY <1>2 DEF AskRephrase, Send
  <2>2. GoodOp(op', manifest, approved)
    BY <2>1, BeginGood
  <2> QED
    BY <2>1, <2>2, PageFacts, WritingTurns, TurnStep
<1>3. CASE AskReview
  <2>1. op' = Begin("review", page) /\ UNCHANGED <<manifest, approved, orphan, poll, page>>
    BY <1>3 DEF AskReview
  <2> QED
    BY <2>1, BeginGood, BeginStep
<1>4. CASE KeepOriginal
  <2>1. /\ \E c : op' = [Follow("review", page, ActiveQuestion(page), page.version, c)
                           EXCEPT !.kind = "select"]
        /\ UNCHANGED <<manifest, approved, orphan, poll, page>>
    BY <1>4, Zenon DEF KeepOriginal
  <2> QED
    BY <2>1, FollowGood, BeginStep
<1>5. CASE UseSuggestion
  <2> DEFINE q == ActiveQuestion(page)
             req == [Request("candidate", q, page.version) EXCEPT
                       !.text = page.suggestion.text, !.origin = "claros_rephrase",
                       !.prior = page.suggestion.ver]
  <2>1. /\ \/ \E c : op' = [Follow("review", page, q, page.version, c) EXCEPT !.kind = "select"]
           \/ op' = Await("select", "persist", page, q, page.suggestion.text, req)
        /\ UNCHANGED <<manifest, approved, orphan, poll, page>>
    BY <1>5 DEF UseSuggestion
  <2>2. req.what = "candidate"
    BY DEF Request
  <2> HIDE DEF req
  <2>3. GoodOp(op', manifest, approved)
    BY <2>1, <2>2, FollowGood, PersistGood
  <2> QED
    BY <2>1, <2>3, BeginStep
<1>6. CASE Change
  <2>1. page' = ChangeAnswer(page) /\ UNCHANGED <<manifest, approved, orphan, poll, op>>
    BY <1>6 DEF Change, Send
  <2> QED
    BY <2>1, PageFacts, WritingTurns, TurnStep
<1>7. CASE PressConfirm
  <2>1. /\ page' = Confirm(page)
        /\ approved' = IF Confirm(page).at = "confirming"
                       THEN approved \cup {<<page.review.q, page.cand.text>>} ELSE approved
        /\ UNCHANGED <<manifest, orphan, poll, op>>
        /\ "confirm" \in Offers(page)
    BY <1>7 DEF PressConfirm, Send
  <2>2. page.at # "confirming"
    BY <2>1 DEF Offers, ConversationOffers, RephrasingOffers, ComparisonOffers, AnswerAddedOffers,
                WorksheetOffers, ExportFailureOffers, ExportCompleteOffers
  <2>3. GoodPage(page', manifest, approved') /\ approved \subseteq approved'
    BY <2>1, <2>2, PageFacts, ConfirmPressed
  <2>4. WellFormed(manifest) /\ Later(manifest, manifest)
    BY LaterReflexive DEF PInv
  <2>5. GoodOp(op, manifest, approved')
    BY <2>3, <2>4, OpLater DEF PInv
  <2>6. orphan # NoRequest => GoodRequest(orphan, manifest, approved')
    BY <2>3, <2>4, RequestLater DEF PInv
  <2>7. Recorded(manifest, approved')
    BY <2>3 DEF PInv, Recorded
  <2> QED
    BY <2>1, <2>3, <2>4, <2>5, <2>6, <2>7 DEF PInv
<1> QED
  BY <1>1, <1>2, <1>3, <1>4, <1>5, <1>6, <1>7 DEF Write

\* The student moves about, exports, browses or reloads.
LEMMA MoveStep ==
  ASSUME PInv, Move
  PROVE  PInv'
<1>1. CASE Continue \/ (\E q \in QuestionIds : Answer(q) \/ VoiceNavigate(q))
  <2>1. /\ page' = ContinueToNext(page) \/ \E q : page' = GoToQuestion(page, q)
        /\ UNCHANGED <<manifest, approved, orphan, poll, op>>
    BY <1>1 DEF Continue, Answer, VoiceNavigate, Send
  <2> QED
    BY <2>1, PageFacts, MovingTurns, TurnStep
<1>2. CASE OpenReview \/ TypeInstead \/ ReviewAnswersAfterFailure
  <2>1. /\ page' \in {OpenWorksheetReview(page), ContinueByTyping(page), ReviewAnswers(page)}
        /\ UNCHANGED <<manifest, approved, orphan, poll, op>>
    BY <1>2 DEF OpenReview, TypeInstead, ReviewAnswersAfterFailure, Send
  <2> QED
    BY <2>1, PageFacts, MovingTurns, TurnStep
<1>3. CASE PressExport
  <2>1. /\ page' \in {ExportPending(page, 0), RetryExport(page), CreateExport(page)}
        /\ op' = op \/ \E v : op' = ExportOp(v)
        /\ UNCHANGED <<manifest, approved, orphan, poll>>
    BY <1>3 DEF PressExport, Send
  <2>2. \A v : GoodOp(ExportOp(v), manifest, approved)
    BY DEF ExportOp, GoodOp, OpFields, Reviewing, Answers
  <2> QED
    BY <2>1, <2>2, PageFacts, ExportTurns, TurnStep
<1>4. CASE \E q \in QuestionIds : Edit(q)
  <2> PICK q \in QuestionIds : Edit(q)
    BY <1>4
  <2> DEFINE req == Request("revise", q, page.version)
             o == Await("revise", "main", page, q, NoText, req)
             e == [o EXCEPT !.follow = (page.at = "worksheetReview")]
  <2>1. op' = e /\ UNCHANGED <<manifest, approved, orphan, poll, page>>
    BY DEF Edit
  <2>2. DOMAIN o = OpFields /\ o.ans = NoRequest /\ o.kind = "revise" /\ o.req.what = "revise"
    BY AwaitFields, RequestKinds
  <2> HIDE DEF o
  <2>3. DOMAIN e = OpFields /\ e.ans = NoRequest /\ e.kind = "revise" /\ e.req.what = "revise"
    BY <2>2 DEF OpFields
  <2> HIDE DEF e
  <2>4. GoodOp(e, manifest, approved)
    BY <2>3, FreshOp DEF GoodRequest, AnswerRequests, Reviewing
  <2> QED
    BY <2>1, <2>4, BeginStep
<1>5. CASE \E r \in {Question, Review} \cup {Export(v) : v \in Exported} : Browse(r)
  <2>1. UNCHANGED <<manifest, approved, orphan, poll, page, op>>
    BY <1>5 DEF Browse
  <2> QED
    BY <2>1 DEF PInv
<1>6. CASE Reload
  <2>1. /\ page' = InitialContext /\ op' = NoOp /\ poll' = NoOp
        /\ orphan' = (IF Waiting /\ op.kind \in LeftBehind THEN op.req ELSE NoRequest)
        /\ UNCHANGED <<manifest, approved>>
    BY <1>6 DEF Reload
  <2>2. GoodPage(page', manifest, approved)
    BY <2>1, PageFacts, EmptyPage
  <2>3. Waiting /\ op.kind \in LeftBehind => GoodRequest(op.req, manifest, approved)
    BY PageAssumption DEF Waiting, PInv, GoodOp
  <2>4. GoodPoll(NoOp, manifest)
    BY DEF GoodPoll, NoOp
  <2> QED
    BY <2>1, <2>2, <2>3, <2>4, PageFacts DEF PInv
<1> QED
  BY <1>1, <1>2, <1>3, <1>4, <1>5, <1>6 DEF Move

\* The server answers, or does not.
LEMMA ServerStep ==
  ASSUME PInv, Server
  PROVE  PInv'
<1>0. Waiting /\ UNCHANGED <<page, poll, orphan, approved>>
  BY DEF Server, Serve, ServeExport, LoseRequest
<1>1. CASE Serve
  <2>1. PICK h \in Replies(manifest, op.req) : manifest' = h.m /\ op' = [op EXCEPT !.ans = h.ans]
    BY <1>1 DEF Serve
  <2>2. /\ op # NoOp /\ op.kind # "export" /\ DOMAIN op = OpFields
        /\ op.kind \in {"rephrase", "review", "select", "confirm", "revise"}
        /\ GoodRequest(op.req, manifest, approved)
        /\ Reviewing(op) => op.req.what = "review"
        /\ op.kind = "confirm" => op.req.what = "confirm"
    BY <1>0, <1>1 DEF Serve, Waiting, PInv, GoodOp
  <2>3. /\ Handles(manifest, h, approved)
        /\ op.req.what = "review" /\ h.ans # Failed =>
             Issued(h.m, h.ans.review.q, h.ans.review.tok, h.ans.review.text)
        /\ op.req.what = "confirm" /\ h.ans # Failed => Shown(h.m, h.ans.answer)
    BY <2>2, RequestServed DEF PInv
  <2> DEFINE o == [op EXCEPT !.ans = h.ans]
  <2>4. DOMAIN o = OpFields /\ o.ans = h.ans /\ o.kind = op.kind /\ o.step = op.step /\ o.req = op.req
    BY <2>2 DEF OpFields
  <2> HIDE DEF o
  <2>5. WellFormed(h.m) /\ Later(manifest, h.m) /\ Recorded(h.m, approved)
    BY <2>3 DEF Handles
  <2>6. GoodRequest(op.req, h.m, approved)
    BY <2>2, <2>5, RequestLater
  <2>7. h.ans # Failed => h.ans.version \in 0..h.m.version
    BY <2>3 DEF Handles
  <2>8. GoodOp(o, h.m, approved)
    BY <2>2, <2>3, <2>4, <2>6, <2>7 DEF GoodOp, Answers, Reviewing
  <2>9. GoodPage(page, h.m, approved)
    BY <2>5, PageLater DEF PInv
  <2>10. orphan # NoRequest => GoodRequest(orphan, h.m, approved)
    BY <2>5, RequestLater DEF PInv
  <2>11. GoodPoll(poll, h.m)
    BY <2>5, PollLater DEF PInv
  <2> QED
    BY <1>0, <2>1, <2>5, <2>8, <2>9, <2>10, <2>11 DEF PInv, o
<1>2. CASE ServeExport \/ LoseRequest
  <2>1. /\ manifest' = manifest
        /\ \E a : /\ op' = [op EXCEPT !.ans = a]
                  /\ a = Failed \/ (op.kind = "export" /\ a.version = manifest.version)
    BY <1>2 DEF ServeExport, LoseRequest
  <2>2. PICK a : /\ op' = [op EXCEPT !.ans = a]
                 /\ a = Failed \/ (op.kind = "export" /\ a.version = manifest.version)
    BY <2>1
  <2> DEFINE o == [op EXCEPT !.ans = a]
  <2>3. DOMAIN op = OpFields /\ op # NoOp
    BY <1>0 DEF Waiting, PInv, GoodOp
  <2>4. DOMAIN o = OpFields /\ o.ans = a /\ o.kind = op.kind /\ o.step = op.step /\ o.req = op.req
    BY <2>3 DEF OpFields
  <2> HIDE DEF o
  <2>5. GoodOp(o, manifest, approved)
    BY <2>2, <2>3, <2>4, PageFacts DEF PInv, GoodOp, Answers, Reviewing
  <2> QED
    BY <1>0, <2>1, <2>2, <2>5 DEF PInv, o
<1> QED
  BY <1>1, <1>2 DEF Server

\* A request of before the reload lands.
LEMMA OrphanStep ==
  ASSUME PInv, ServeOrphan
  PROVE  PInv'
<1>1. PICK h \in Replies(manifest, orphan) : manifest' = h.m
  BY DEF ServeOrphan
<1>2. orphan # NoRequest /\ orphan' = NoRequest /\ UNCHANGED <<page, op, poll, approved>>
  BY DEF ServeOrphan
<1>3. Handles(manifest, h, approved)
  BY <1>2, RequestServed DEF PInv
<1>4. WellFormed(h.m) /\ Later(manifest, h.m) /\ Recorded(h.m, approved)
  BY <1>3 DEF Handles
<1>5. GoodPage(page, h.m, approved) /\ GoodOp(op, h.m, approved) /\ GoodPoll(poll, h.m)
  BY <1>4, PageLater, OpLater, PollLater DEF PInv
<1> QED
  BY <1>1, <1>2, <1>4, <1>5 DEF PInv

\* The effects after a render: a confirmation is sent for the review it is about.
LEMMA EffectsStep ==
  ASSUME PInv, RunEffects
  PROVE  PInv'
<1>0. UNCHANGED <<manifest, page, poll, orphan, approved>>
  BY DEF RunEffects
<1>1. CASE page.at = "confirming" /\ Idle /\ page.review # NoReview /\ HasCandidate(page)
  <2> DEFINE about == AboutCandidate("confirm", page.review.q, page.review.aver, page.cand)
             req == [about EXCEPT !.tok = page.review.tok]
             o == Await("confirm", "main", page, page.review.q, page.cand.text, req)
  <2>1. op' = o
    BY <1>1 DEF RunEffects
  <2>2. req.what = "confirm" /\ req.q = page.review.q /\ req.tok = page.review.tok
    BY DEF AboutCandidate, Request
  <2> HIDE DEF req
  <2>3. DOMAIN o = OpFields /\ o.kind = "confirm" /\ o.req = req /\ o.ans = NoRequest
    BY AwaitFields
  <2> HIDE DEF o
  <2>4. GoodReview(manifest, page.review) /\ <<page.review.q, page.review.text>> \in approved
    BY <1>1 DEF PInv, GoodPage
  <2>5. GoodRequest(req, manifest, approved)
    BY <1>1, <2>2, <2>4 DEF GoodRequest, GoodReview, Issued, AnswerRequests
  <2>6. GoodOp(o, manifest, approved)
    BY <2>2, <2>3, <2>5, FreshOp DEF Reviewing
  <2> QED
    BY <1>0, <2>1, <2>6, BeginStep
<1>2. CASE ~(page.at = "confirming" /\ Idle /\ page.review # NoReview /\ HasCandidate(page))
  <2>1. op' = op
    BY <1>2 DEF RunEffects
  <2> QED
    BY <1>0, <2>1 DEF PInv
<1> QED
  BY <1>1, <1>2

\* What an answer that came holds.
LEMMA AnswerFacts ==
  ASSUME PInv, op # NoOp, op.ans \notin {NoRequest, Failed}
  PROVE  /\ op.ans.version \in 0..manifest.version
         /\ Reviewing(op) =>
              Issued(manifest, op.ans.review.q, op.ans.review.tok, op.ans.review.text)
         /\ op.kind = "confirm" => Shown(manifest, op.ans.answer)
BY DEF PInv, GoodOp, Answers

\* The page takes an answer in.
LEMMA TakeStep ==
  ASSUME PInv, Take
  PROVE  PInv'
<1>0. UNCHANGED <<manifest, approved, orphan, poll>>
  BY DEF Take, TakeFailure, TakePersisted, TakeSelected, TakeRephrase, TakeReview,
         TakeConfirmed, TakeRevision, TakeExport
<1>1. CASE TakeFailure
  <2>1. /\ page' \in {RephraseFailed(page), ConfirmFailed(page), ExportFailed(page, 0),
                      RequestFailed(page)}
        /\ op' = NoOp
    BY <1>1 DEF TakeFailure, FailedEvent, Send
  <2> QED
    BY <1>0, <2>1, PageFacts, FailureTurns, ExportTurns, TurnStep
<1>2. CASE TakePersisted
  <2> DEFINE a == op.ans
             p == CandidatePersisted(page, a.version, a.cand, op.q, op.rev, op.epoch)
  <2>1. /\ op # NoOp /\ op.kind \in {"rephrase", "review"} /\ op.ans \notin {NoRequest, Failed}
        /\ page' = p
        /\ op' = NoOp \/ op' = Follow(op.kind, p, op.q, a.version, a.cand)
    BY <1>2 DEF TakePersisted, Send
  <2> HIDE DEF p
  <2>2. op' = NoOp \/ GoodOp(op', manifest, approved)
    <3>1. GoodOp(Follow(op.kind, p, op.q, a.version, a.cand), manifest, approved)
      BY <2>1, FollowGood, Zenon
    <3> QED
      BY <2>1, <3>1
  <2>3. Turns(page, p, manifest)
    BY <2>1, AnswerFacts, PageFacts, AnswerTurns DEF p
  <2> QED
    BY <1>0, <2>1, <2>2, <2>3, TurnStep
<1>3. CASE TakeSelected
  <2> DEFINE a == op.ans
             p == CandidatePersisted(page, a.version, a.cand, a.cand.q, -1, -1)
  <2>1. /\ op # NoOp /\ op.ans \notin {NoRequest, Failed} /\ page' = p
        /\ op' = [Follow("review", p, op.q, a.version, a.cand) EXCEPT !.kind = "select"]
    BY <1>3 DEF TakeSelected, Send
  <2> HIDE DEF p
  <2>2. GoodOp(op', manifest, approved)
    BY <2>1, FollowGood
  <2>3. Turns(page, p, manifest)
    BY <2>1, AnswerFacts, PageFacts, AnswerTurns DEF p
  <2> QED
    BY <1>0, <2>1, <2>2, <2>3, TurnStep
<1>4. CASE TakeRephrase
  <2>1. /\ op # NoOp /\ op.ans \notin {NoRequest, Failed} /\ op' = NoOp
        /\ \/ page' = RephraseReady(page, op.ans.cand, op.ans.suggestion, op.ans.version)
           \/ page' = page
    BY <1>4 DEF TakeRephrase, Send
  <2>2. Turns(page, page', manifest)
    BY <2>1, AnswerFacts, PageFacts, AnswerTurns DEF Turns
  <2> QED
    BY <1>0, <2>1, <2>2, TurnStep
<1>5. CASE TakeReview
  <2>1. /\ op # NoOp /\ op.ans \notin {NoRequest, Failed} /\ Reviewing(op) /\ op' = NoOp
        /\ \/ page' = ReviewReady(page, op.ans.cand, op.ans.review, op.ans.version)
           \/ page' = page
    BY <1>5 DEF TakeReview, Send, Reviewing
  <2>2. GoodPage(page', manifest, approved)
    BY <2>1, AnswerFacts, PageFacts, ReviewShown
  <2> QED
    BY <1>0, <2>1, <2>2, PageFacts, PageStep DEF PInv
<1>6. CASE TakeConfirmed
  <2>1. /\ op # NoOp /\ op.kind = "confirm" /\ op.ans \notin {NoRequest, Failed} /\ op' = NoOp
        /\ page' = ConfirmSucceeded(page, op.ans.answer, op.ans.version)
    BY <1>6 DEF TakeConfirmed, Send
  <2>2. GoodPage(page', manifest, approved)
    BY <2>1, AnswerFacts, PageFacts, AnswerShown
  <2> QED
    BY <1>0, <2>1, <2>2, PageFacts, PageStep DEF PInv
<1>7. CASE TakeRevision
  <2>1. /\ op # NoOp /\ op.ans \notin {NoRequest, Failed} /\ op' = NoOp
        /\ page' = RevisionReady(page, op.q, op.ans.seed, op.ans.version)
    BY <1>7 DEF TakeRevision, Send
  <2>2. Turns(page, page', manifest)
    BY <2>1, AnswerFacts, PageFacts, AnswerTurns
  <2> QED
    BY <1>0, <2>1, <2>2, TurnStep
<1>8. CASE TakeExport
  <2> DEFINE v == op.ans.version
  <2>1. /\ op # NoOp /\ op.ans \notin {NoRequest, Failed} /\ op' = NoOp
        /\ page' \in {ExportSucceeded(page, v, v), ExportFailed(page, v), ExportPending(page, v)}
    BY <1>8 DEF TakeExport, Send
  <2>2. Turns(page, page', manifest)
    BY <2>1, AnswerFacts, PageFacts, ExportTurns
  <2> QED
    BY <1>0, <2>1, <2>2, TurnStep
<1> QED
  BY <1>1, <1>2, <1>3, <1>4, <1>5, <1>6, <1>7, <1>8 DEF Take

\* A new route: the page is emptied to be loaded, or turned.
LEMMA RouteStep ==
  ASSUME PInv, EnterRoute
  PROVE  PInv'
<1>1. /\ page' \in {StartAnalysis(Reset(page)), OpenReviewRoute(page), OpenAssignmentRoute(page),
                    ExportPending(page, 0), page}
      /\ poll' \in {Loading, Following(route.id), NoOp}
      /\ UNCHANGED <<manifest, op, orphan, approved>>
  BY DEF EnterRoute, Send
<1>2. GoodPoll(poll', manifest)
  BY <1>1 DEF GoodPoll, Loading, Following, NoOp
<1>3. GoodPage(StartAnalysis(Reset(page)), manifest, approved)
  BY PageFacts, EmptyPage
<1>4. /\ Turns(page, OpenReviewRoute(page), manifest)
      /\ Turns(page, OpenAssignmentRoute(page), manifest)
      /\ Turns(page, ExportPending(page, 0), manifest)
  BY PageFacts, MovingTurns, ExportTurns
<1>5. GoodPage(page', manifest, approved)
  BY <1>1, <1>3, <1>4, PageFacts, TurnsKeep
<1> QED
  BY <1>1, <1>2, <1>5, PageStep DEF PInv

\* The page as it is loaded.
LEMMA RestoredGood ==
  ASSUME PInv, poll.kind = "setup", NEW mode
  PROVE  GoodPage(RestoredPage(poll, manifest.version, mode), manifest, approved)
<1> DEFINE v == manifest.version
           p == AnalysisReady(page, v, Order, TRUE, poll.confirmed, poll.active, poll.cand)
<1>1. GoodPage(p, manifest, approved)
  BY PageFacts, LoadedPage DEF PInv, GoodPoll
<1> HIDE DEF p
<1>2. DOMAIN p = PageFields
  BY <1>1, ContextFields DEF GoodPage
<1>3. /\ Turns(p, QuestionSetupAccepted(p, v, Order, TRUE), manifest)
      /\ Turns(p, OpenReviewRoute(p), manifest)
      /\ Turns(p, ExportPending(p, 0), manifest)
  BY <1>2, PageFacts, AnswerTurns, MovingTurns, ExportTurns
<1>4. /\ GoodPage(QuestionSetupAccepted(p, v, Order, TRUE), manifest, approved)
      /\ GoodPage(OpenReviewRoute(p), manifest, approved)
      /\ GoodPage(ExportPending(p, 0), manifest, approved)
  BY <1>1, <1>3, TurnsKeep
<1> QED
  BY <1>4 DEF RestoredPage, p

\* The page is loaded, or follows an export.
LEMMA LoadStep ==
  ASSUME PInv, Load
  PROVE  PInv'
<1>0. UNCHANGED <<manifest, op, orphan, approved>>
  BY DEF Load, LoadAssignment, LoadSetup, LoadFails, PollExport, PollFails
<1>1. CASE LoadAssignment
  <2>1. page' = page /\ poll' = Restored(manifest)
    BY <1>1 DEF LoadAssignment
  <2>2. Restored(manifest).confirmed
          = [x \in QuestionIds |-> MapAnswer(manifest.questions[x].confirmed)]
    BY DEF Restored
  <2>3. \A x \in QuestionIds : Shown(manifest, MapAnswer(manifest.questions[x].confirmed))
    <3> SUFFICES ASSUME NEW x \in QuestionIds
                 PROVE  Shown(manifest, MapAnswer(manifest.questions[x].confirmed))
      OBVIOUS
    <3>1. MapAnswer(S!NoAnswer) = NoAnswer
      BY DEF MapAnswer, S!NoAnswer
    <3>2. \/ manifest.questions[x].confirmed = S!NoAnswer
          \/ \E r \in manifest.receipts : r.answer = manifest.questions[x].confirmed
      BY DEF PInv, Recorded
    <3> QED
      BY <3>1, <3>2 DEF Shown
  <2>4. GoodPoll(Restored(manifest), manifest)
    BY <2>2, <2>3 DEF GoodPoll
  <2> QED
    BY <1>0, <2>1, <2>4 DEF PInv
<1>2. CASE LoadSetup
  <2>1. /\ poll.kind = "setup" /\ page' = RestoredPage(poll, manifest.version, shown.mode)
        /\ poll' \in {Following(shown.id), NoOp}
    BY <1>2 DEF LoadSetup, Send
  <2>2. GoodPoll(poll', manifest)
    BY <2>1 DEF GoodPoll, Following, NoOp
  <2>3. GoodPage(page', manifest, approved)
    BY <2>1, RestoredGood
  <2> QED
    BY <1>0, <2>2, <2>3, PageStep DEF PInv
<1>3. CASE LoadFails \/ PollFails
  <2>1. page' \in {AnalysisFailed(page), ExportFailed(page, 0)} /\ poll' = NoOp
    BY <1>3 DEF LoadFails, PollFails, Send
  <2>2. GoodPoll(poll', manifest)
    BY <2>1 DEF GoodPoll, NoOp
  <2>3. GoodPage(page', manifest, approved)
    BY <2>1, PageFacts, FailureTurns, ExportTurns, TurnsKeep
  <2> QED
    BY <1>0, <2>2, <2>3, PageStep DEF PInv
<1>4. CASE PollExport
  <2> DEFINE v == manifest.version
  <2>1. /\ page' \in {ExportRestored(page, poll.id, v), ExportFailed(page, v), ExportPending(page, v)}
        /\ poll' = NoOp \/ poll' = poll
    BY <1>4 DEF PollExport, GetExport, Send
  <2>2. GoodPoll(poll', manifest)
    BY <2>1 DEF PInv, GoodPoll, NoOp
  <2>3. Turns(page, page', manifest)
    BY <2>1, PageFacts, ExportTurns
  <2>4. GoodPage(page', manifest, approved)
    BY <2>3, PageFacts, TurnsKeep
  <2> QED
    BY <1>0, <2>2, <2>4, PageStep DEF PInv
<1> QED
  BY <1>1, <1>2, <1>3, <1>4 DEF Load

-----------------------------------------------------------------------------
(* The theorems.                                                           *)

\* At the start no answer and no review exists.
LEMMA InitPInv == Init => PInv
<1> SUFFICES ASSUME Init PROVE PInv
  OBVIOUS
<1>1. /\ DOMAIN manifest = ManifestFields /\ manifest.version \in Nat
      /\ manifest.questions = [q \in QuestionIds |-> S!NewQuestion] /\ manifest.receipts = {}
  BY DEF Init, S!AcceptQuestionSetup, S!FinishAnalysis, S!NewManifest, S!WithQuestions,
         S!Bump, S!Fresh, ManifestFields
<1>2. AreTokens(<<>>)
  BY DEF AreTokens
<1>3. DOMAIN S!NewQuestion = StateFields /\ S!NewQuestion.tokens = <<>>
      /\ S!NewQuestion.confirmed = S!NoAnswer
  BY DEF S!NewQuestion, StateFields
<1>4. WellFormed(manifest) /\ Recorded(manifest, approved)
  BY <1>1, <1>2, <1>3 DEF WellFormed, Recorded
<1>5. GoodPage(page, manifest, approved)
  BY <1>1, EmptyPage DEF Init
<1> QED
  BY <1>4, <1>5 DEF Init, PInv, GoodOp, GoodPoll, NoOp

\* The invariant: the wording the student approved is followed from the token to
\* the page, the request and the answer.
THEOREM Invariance == Spec => []PInv
<1>1. PInv /\ [Next]_vars => PInv'
  <2> SUFFICES ASSUME PInv, [Next]_vars PROVE PInv'
    OBVIOUS
  <2>1. CASE UNCHANGED vars
    BY <2>1 DEF PInv, vars
  <2>2. CASE \E v \in Versions : FinishExport(v)
    <3>1. UNCHANGED <<manifest, page, op, poll, orphan, approved>>
      BY <2>2 DEF FinishExport
    <3> QED
      BY <3>1 DEF PInv
  <2> QED
    BY <2>1, <2>2, WriteStep, MoveStep, ServerStep, TakeStep, LoadStep, EffectsStep, RouteStep,
       OrphanStep DEF Next
<1> QED
  BY <1>1, InitPInv, PTL DEF Spec

\* The server holds no answer the student did not approve in exact review for
\* that question, whatever was lost, repeated or left behind by a reload
\* (confirmPendingReview in WorkspaceShell.tsx, confirm_candidate in workflow.py).
THEOREM OnlyApprovedTextIsConfirmed == Spec => []ExactTextConfirmed
<1>1. PInv => ExactTextConfirmed
  BY DEF PInv, Recorded, ExactTextConfirmed, S!NoAnswer
<1> QED
  BY <1>1, Invariance, PTL

\* The page never claims a version the server has not reached, nor an answer
\* without a receipt for that wording.
THEOREM PageIsNeverAhead == Spec => []PageNeverAhead
<1>1. PInv => PageNeverAhead
  BY DEF PInv, WellFormed, GoodPage, Shown, PageNeverAhead, Answered
<1> QED
  BY <1>1, Invariance, PTL


-----------------------------------------------------------------------------
(* Answers that come late: the invariant.                                  *)

DraftFields == {"text", "origin", "rev", "dirty", "ack"}
RefFields   == {"persisted", "source", "attempt", "pollRetry"}
Unloaded    == {"upload", "checking", "rejected"}

\* A candidate the page holds is one the server numbered; under the number of the
\* current one it has the current wording.
Known(m, c) ==
  c.q \in QuestionIds =>
    /\ c.ver \in 0..m.questions[c.q].seq
    /\ c.ver > 0 /\ c.ver = m.questions[c.q].current.ver
         => c.text = m.questions[c.q].current.text

\* The server numbers candidates upwards.
Numbered(m) ==
  \A q \in QuestionIds : /\ m.questions[q].seq \in Nat
                         /\ m.questions[q].current.ver \in 0..m.questions[q].seq

SoundDraft(d, m) == DOMAIN d = DraftFields /\ d.rev \in Nat /\ Known(m, d.ack)

SoundPage(p, m) ==
  /\ DOMAIN p.drafts = QuestionIds
  /\ \A q \in QuestionIds : SoundDraft(p.drafts[q], m)
  /\ p.epoch \in Nat
  /\ ActiveQuestion(p) \in QuestionIds => Known(m, p.cand)
  /\ Known(m, p.original)
  /\ Loaded(p) => p.at \notin Unloaded
  /\ p.at = "confirming" => Loaded(p)

\* Nothing was written and no question left since the request was begun.
Undisturbed(p, o) ==
  /\ ActiveQuestion(p) = o.q
  /\ p.drafts[o.q].rev = o.rev
  /\ p.epoch = o.epoch

\* The wording a review was asked for.
Wanted(o) == IF o.step = "persist" THEN o.req.text ELSE o.req.cand.text

Writing(o) == o.kind \in {"rephrase", "review"} /\ o.q \in QuestionIds

\* What was read before the await is not newer than the page; while it still
\* describes the page, the page shows the wording the review was asked for.
Timely(o, p) ==
  o # NoOp =>
    /\ Loaded(p)
    /\ Writing(o) => /\ o.rev \in Nat /\ o.rev <= p.drafts[o.q].rev
                     /\ o.epoch \in Nat /\ o.epoch <= p.epoch
    /\ Writing(o) /\ o.kind = "review" /\ Undisturbed(p, o) /\ HasCandidate(p)
         => p.cand.text = Wanted(o)

\* The answer to a request is about the candidate it names.
Fitting(o, m) ==
  o # NoOp /\ o.kind \in {"rephrase", "review", "select"} =>
    /\ o.step \in {"persist", "main"}
    /\ o.req.what = IF o.step = "persist" THEN "candidate"
                    ELSE IF o.kind = "rephrase" THEN "rephrase" ELSE "review"
    /\ o.req.q = o.q
    /\ o.q \in QuestionIds => Known(m, o.req.cand)
    /\ Answers(o) =>
         /\ o.q \in QuestionIds
         /\ Known(m, o.ans.cand)
         /\ o.step = "persist" => o.ans.cand.text = o.req.text
         /\ Reviewing(o) => o.ans.review.q = o.q /\ o.ans.review.text = o.req.cand.text

SoundRefs(r, m) == DOMAIN r = RefFields /\ Known(m, r.persisted.cand)

SoundPoll(w, p, m) ==
  /\ w.kind \in {"assignment", "setup"} => p.at = "checking"
  /\ w.kind = "setup" => Known(m, w.cand)

LInv ==
  /\ Numbered(manifest)
  /\ SoundPage(page, manifest)
  /\ Timely(op, page)
  /\ Fitting(op, manifest)
  /\ SoundRefs(refs, manifest)
  /\ SoundPoll(poll, page, manifest)

-----------------------------------------------------------------------------
(* Candidates keep their number and wording on the server.                 *)

\* Numbers grow, and a candidate that becomes current has a new one.
Advances(m, n) ==
  \A q \in QuestionIds :
    LET s == m.questions[q]
        z == n.questions[q]
    IN  /\ s.seq <= z.seq
        /\ z.current = s.current \/ z.current.ver = 0 \/ z.current.ver > s.seq

\* What the page knows stays true.
LEMMA KnownLater ==
  ASSUME NEW m, Numbered(m), NEW n, Numbered(n), Advances(m, n), NEW c, Known(m, c)
  PROVE  Known(n, c)
BY DEF Numbered, Advances, Known

\* A manifest advances to itself.
LEMMA AdvancesReflexive == ASSUME NEW m, Numbered(m) PROVE Advances(m, m)
BY DEF Numbered, Advances

\* A change of one question.
LEMMA QuestionAdvanced ==
  ASSUME NEW m, WellFormed(m), Numbered(m), NEW q \in QuestionIds, NEW z, NEW n,
         n.questions = [m.questions EXCEPT ![q] = z],
         z.seq \in Nat, m.questions[q].seq <= z.seq, z.current.ver \in 0..z.seq,
         z.current = m.questions[q].current \/ z.current.ver = 0
           \/ z.current.ver > m.questions[q].seq
  PROVE  Numbered(n) /\ Advances(m, n) /\ n.questions[q] = z
<1>1. /\ n.questions[q] = z
      /\ \A x \in QuestionIds : x # q => n.questions[x] = m.questions[x]
  BY DEF WellFormed
<1>2. Numbered(n)
  BY <1>1 DEF Numbered
<1>3. Advances(m, n)
  BY <1>1 DEF Numbered, Advances
<1> QED
  BY <1>1, <1>2, <1>3

\* The operations of the service.
LEMMA OperationsAdvance ==
  ASSUME NEW m, WellFormed(m), Numbered(m), NEW q \in QuestionIds
  PROVE  /\ \A text, origin :
              LET n == S!ReplaceCandidate(m, q, text, origin)
              IN  /\ Numbered(n) /\ Advances(m, n)
                  /\ n.questions[q].current.text = text
         /\ \A text : LET n == S!RecordRephrase(m, q, text)
                      IN  Numbered(n) /\ Advances(m, n)
         /\ LET n == S!IssueReview(m, q, Now)
            IN  /\ Numbered(n) /\ Advances(m, n)
                /\ n.questions[q].current = m.questions[q].current
         /\ \A tok : LET n == S!ConfirmCandidate(m, q, tok)
                     IN  Numbered(n) /\ Advances(m, n)
         /\ LET n == S!BeginRevision(m, q)
            IN  Numbered(n) /\ Advances(m, n)
<1> DEFINE s == m.questions[q]
<1>1. /\ DOMAIN m = ManifestFields /\ DOMAIN m.questions = QuestionIds /\ DOMAIN s = StateFields
      /\ s.seq \in Nat /\ s.current.ver \in 0..s.seq
  BY DEF WellFormed, Numbered
<1>2. ASSUME NEW text, NEW origin
      PROVE  LET n == S!ReplaceCandidate(m, q, text, origin)
             IN  Numbered(n) /\ Advances(m, n) /\ n.questions[q].current.text = text
  <2> DEFINE c == [ver |-> s.seq + 1, text |-> text, origin |-> origin]
             z == [s EXCEPT !.seq = @ + 1, !.current = c, !.tokens = S!InvalidateReviews(@)]
             n == S!ReplaceCandidate(m, q, text, origin)
  <2>1. z.seq = s.seq + 1 /\ z.current = c /\ c.ver = s.seq + 1 /\ c.text = text
    BY <1>1 DEF StateFields
  <2>2. n.questions = [m.questions EXCEPT ![q] = z]
    BY <1>1 DEF ManifestFields, S!ReplaceCandidate, S!Bump, S!ReplaceQuestion
  <2> HIDE DEF n, z, c
  <2>3. Numbered(n) /\ Advances(m, n) /\ n.questions[q] = z
    BY <1>1, <2>1, <2>2, QuestionAdvanced
  <2> QED
    BY <2>1, <2>3 DEF n
<1>3. ASSUME NEW n, NEW z, DOMAIN z = StateFields,
             n.questions = [m.questions EXCEPT ![q] = z],
             z.seq = s.seq, z.current = s.current \/ z.current = S!NoCandidate
      PROVE  Numbered(n) /\ Advances(m, n) /\ n.questions[q] = z
  <2>1. S!NoCandidate.ver = 0
    BY DEF S!NoCandidate
  <2> QED
    BY <1>1, <1>3, <2>1, QuestionAdvanced
<1>4. ASSUME NEW text
      PROVE  LET n == S!RecordRephrase(m, q, text)
             IN  Numbered(n) /\ Advances(m, n)
  <2> DEFINE r == [original |-> s.current.ver, suggestion |-> s.seq + 1, text |-> text]
             z == [s EXCEPT !.rephrases = @ \cup {r}]
             n == S!RecordRephrase(m, q, text)
  <2>1. DOMAIN z = StateFields /\ z.seq = s.seq /\ z.current = s.current
    BY <1>1 DEF StateFields
  <2>2. n.questions = [m.questions EXCEPT ![q] = z]
    BY <1>1 DEF ManifestFields, S!RecordRephrase, S!Bump, S!ReplaceQuestion
  <2> HIDE DEF n, z
  <2> QED
    BY <1>3, <2>1, <2>2 DEF n
<1>5. LET n == S!IssueReview(m, q, Now)
      IN  Numbered(n) /\ Advances(m, n) /\ n.questions[q].current = s.current
  <2> DEFINE k == [cand |-> s.current.ver, text |-> s.current.text, aver |-> m.version,
                   expires |-> Now + 1, consumed |-> FALSE, invalidated |-> FALSE]
             z == [s EXCEPT !.tokens = Append(@, k)]
             n == S!IssueReview(m, q, Now)
  <2>1. DOMAIN z = StateFields /\ z.seq = s.seq /\ z.current = s.current
    BY <1>1 DEF StateFields
  <2>2. n.questions = [m.questions EXCEPT ![q] = z]
    BY <1>1 DEF ManifestFields, S!IssueReview, S!ReplaceQuestion
  <2> HIDE DEF n, z
  <2>3. Numbered(n) /\ Advances(m, n) /\ n.questions[q] = z
    BY <1>3, <2>1, <2>2
  <2> QED
    BY <2>1, <2>3 DEF n
<1>6. ASSUME NEW tok
      PROVE  LET n == S!ConfirmCandidate(m, q, tok)
             IN  Numbered(n) /\ Advances(m, n)
  <2> DEFINE a == [rev |-> s.confirmed.rev + 1, cand |-> s.current.ver,
                   text |-> s.current.text, origin |-> s.current.origin]
             z == [s EXCEPT !.confirmed = a, !.revision = S!NoRevision,
                            !.tokens = S!ConsumeReview(@, tok)]
             n == S!ConfirmCandidate(m, q, tok)
  <2>1. DOMAIN z = StateFields /\ z.seq = s.seq /\ z.current = s.current
    BY <1>1 DEF StateFields
  <2>2. n.questions = [m.questions EXCEPT ![q] = z]
    BY <1>1 DEF ManifestFields, S!ConfirmCandidate, S!Bump, S!ReplaceQuestion
  <2> HIDE DEF n, z
  <2> QED
    BY <1>3, <2>1, <2>2 DEF n
<1>7. LET n == S!BeginRevision(m, q)
      IN  Numbered(n) /\ Advances(m, n)
  <2> DEFINE d == [prior |-> s.confirmed.rev, seed |-> s.confirmed.text]
             z == [s EXCEPT !.current = S!NoCandidate, !.revision = d,
                            !.tokens = S!InvalidateReviews(@)]
             n == S!BeginRevision(m, q)
  <2>1. DOMAIN z = StateFields /\ z.seq = s.seq /\ z.current = S!NoCandidate
    BY <1>1 DEF StateFields
  <2>2. n.questions = [m.questions EXCEPT ![q] = z]
    BY <1>1 DEF ManifestFields, S!BeginRevision, S!Bump, S!ReplaceQuestion
  <2> HIDE DEF n, z
  <2> QED
    BY <1>3, <2>1, <2>2 DEF n
<1> QED
  BY <1>2, <1>4, <1>5, <1>6, <1>7

\* The candidate a reply shows is the current one.
LEMMA CurrentKnown ==
  ASSUME NEW m, Numbered(m), NEW q
  PROVE  LET c == MapCandidate(q, m.questions[q].current)
         IN  Known(m, c) /\ c.text = m.questions[q].current.text
BY DEF Numbered, Known, MapCandidate

\* What a handled request r leaves, and what its reply is about.
Fits(m, r, h) ==
  /\ Numbered(h.m) /\ Advances(m, h.m)
  /\ r.what \in {"candidate", "rephrase", "review"} /\ h.ans # Failed =>
       /\ r.q \in QuestionIds
       /\ Known(m, r.cand) =>
            /\ Known(h.m, h.ans.cand)
            /\ r.what = "candidate" => h.ans.cand.text = r.text
            /\ r.what = "review" => h.ans.review.q = r.q /\ h.ans.review.text = r.cand.text

\* A refusal.
LEMMA RefusalFits ==
  ASSUME NEW m, Numbered(m), NEW r, NEW h \in Refused(m)
  PROVE  Fits(m, r, h)
BY AdvancesReflexive DEF Fits, Refused

\* Storing a candidate.
LEMMA CandidateFits ==
  ASSUME NEW m, WellFormed(m), Numbered(m), NEW r, r.what = "candidate",
         NEW h \in CandidateReplies(m, r)
  PROVE  Fits(m, r, h)
<1> DEFINE may == /\ S!RequireCurrentVersion(m, r.aver)
                  /\ S!CanReplaceCandidate(m, r.q, r.text, r.origin, r.prior, Now)
           n == S!ReplaceCandidate(m, r.q, r.text, r.origin)
           body == [ok |-> TRUE, version |-> n.version,
                    cand |-> MapCandidate(r.q, n.questions[r.q].current)]
<1>1. CASE may
  <2>1. h \in Handled(n, body)
    BY <1>1 DEF CandidateReplies
  <2>2. r.q \in QuestionIds
    BY <1>1 DEF S!CanReplaceCandidate, S!ReadyForAnswers, S!HasQuestion, WellFormed
  <2>3. body.cand = MapCandidate(r.q, n.questions[r.q].current)
    OBVIOUS
  <2> HIDE DEF body
  <2>4. Numbered(n) /\ Advances(m, n) /\ n.questions[r.q].current.text = r.text
    BY <2>2, OperationsAdvance
  <2> HIDE DEF n
  <2>5. h.m = n /\ (h.ans # Failed => h.ans = body)
    BY <2>1, HandledReplies
  <2>6. Known(n, body.cand) /\ body.cand.text = r.text
    BY <2>3, <2>4, CurrentKnown
  <2> QED
    BY <2>2, <2>4, <2>5, <2>6 DEF Fits
<1>2. CASE ~may
  BY <1>2, RefusalFits DEF CandidateReplies
<1> QED
  BY <1>1, <1>2

\* Recording a suggestion.
LEMMA RephraseFits ==
  ASSUME NEW m, WellFormed(m), Numbered(m), NEW r, r.what = "rephrase",
         NEW h \in RephraseReplies(m, r)
  PROVE  Fits(m, r, h)
<1> DEFINE may == /\ S!RequireCurrentVersion(m, r.aver)
                  /\ r.cand.q = r.q
                  /\ S!CanRecordRephrase(m, r.q, r.cand.ver, Now)
<1>1. CASE may
  <2>1. PICK text : h \in LET n == S!RecordRephrase(m, r.q, text)
                              s == CHOOSE x \in n.questions[r.q].rephrases :
                                     \A y \in n.questions[r.q].rephrases : y.suggestion <= x.suggestion
                          IN  Handled(n, [ok |-> TRUE, version |-> n.version, cand |-> r.cand,
                                          suggestion |-> [q |-> r.q, ver |-> s.suggestion, text |-> s.text,
                                                          origin |-> "claros_rephrase"]])
    BY <1>1, ZenonT(30) DEF RephraseReplies
  <2> DEFINE n == S!RecordRephrase(m, r.q, text)
             s == CHOOSE x \in n.questions[r.q].rephrases :
                    \A y \in n.questions[r.q].rephrases : y.suggestion <= x.suggestion
             body == [ok |-> TRUE, version |-> n.version, cand |-> r.cand,
                      suggestion |-> [q |-> r.q, ver |-> s.suggestion, text |-> s.text,
                                      origin |-> "claros_rephrase"]]
  <2>2. h \in Handled(n, body)
    BY <2>1, Zenon
  <2>3. r.q \in QuestionIds
    BY <1>1 DEF S!CanRecordRephrase, S!ReadyForAnswers, S!HasQuestion, WellFormed
  <2>4. body.cand = r.cand
    OBVIOUS
  <2> HIDE DEF body, s
  <2>5. Numbered(n) /\ Advances(m, n)
    BY <2>3, OperationsAdvance
  <2> HIDE DEF n
  <2>6. h.m = n /\ (h.ans # Failed => h.ans.cand = r.cand)
    BY <2>2, <2>4, HandledReplies
  <2>7. Known(m, r.cand) => Known(n, r.cand)
    BY <2>5, KnownLater
  <2> QED
    BY <2>3, <2>5, <2>6, <2>7 DEF Fits
<1>2. CASE ~may
  BY <1>2, RefusalFits DEF RephraseReplies
<1> QED
  BY <1>1, <1>2

\* Issuing a review: it has the wording under which the candidate was asked for.
LEMMA ReviewFits ==
  ASSUME NEW m, WellFormed(m), Numbered(m), NEW r, r.what = "review",
         NEW h \in ReviewReplies(m, r)
  PROVE  Fits(m, r, h)
<1> DEFINE may == /\ S!RequireCurrentVersion(m, r.aver)
                  /\ r.cand.q = r.q
                  /\ S!CanIssueReview(m, r.q, r.cand.ver, Now)
           n == S!IssueReview(m, r.q, Now)
           s == n.questions[r.q]
           body == [ok |-> TRUE, version |-> n.version, cand |-> MapCandidate(r.q, s.current),
                    review |-> [q |-> r.q, tok |-> Len(s.tokens), cand |-> s.current.ver,
                                text |-> s.current.text, aver |-> n.version]]
<1>1. CASE may
  <2>1. h \in Handled(n, body)
    BY <1>1 DEF ReviewReplies
  <2>2. /\ r.q \in QuestionIds /\ r.cand.q = r.q
        /\ r.cand.ver = m.questions[r.q].current.ver /\ m.questions[r.q].current.ver > 0
    BY <1>1 DEF S!CanIssueReview, S!RequireCandidate, S!HasCandidate, S!HasQuestion, WellFormed
  <2>3. /\ body.cand = MapCandidate(r.q, s.current)
        /\ body.review.q = r.q /\ body.review.text = s.current.text
    OBVIOUS
  <2> HIDE DEF body
  <2>4. Numbered(n) /\ Advances(m, n) /\ s.current = m.questions[r.q].current
    BY <2>2, OperationsAdvance
  <2> HIDE DEF n
  <2>5. h.m = n /\ (h.ans # Failed => h.ans = body)
    BY <2>1, HandledReplies
  <2>6. Known(m, r.cand) => r.cand.text = s.current.text
    BY <2>2, <2>4 DEF Known
  <2>7. Known(n, body.cand)
    BY <2>3, <2>4, CurrentKnown
  <2> QED
    BY <2>2, <2>3, <2>4, <2>5, <2>6, <2>7 DEF Fits
<1>2. CASE ~may
  BY <1>2, RefusalFits DEF ReviewReplies
<1> QED
  BY <1>1, <1>2

\* Any request the page sends.
LEMMA RequestFits ==
  ASSUME NEW m, WellFormed(m), Numbered(m), NEW r, r.what \in AnswerRequests,
         NEW h \in Replies(m, r)
  PROVE  Fits(m, r, h)
<1>1. CASE r.what = "candidate"
  BY <1>1, CandidateFits DEF Replies
<1>2. CASE r.what = "rephrase"
  BY <1>2, RephraseFits DEF Replies
<1>3. CASE r.what = "review"
  BY <1>3, ReviewFits DEF Replies
<1>4. CASE r.what = "confirm"
  <2> DEFINE made == S!ReplayReceipts(m, r.q, r.tok, r.cand.ver, r.aver, Now) # {}
             c    == S!ConfirmCandidate(m, r.q, r.tok)
             may  == S!CanConfirmCandidate(m, r.q, r.tok, r.cand.ver, r.aver, Now)
  <2>1. h.m = m \/ (may /\ h.m = c)
    BY <1>4 DEF Replies, ConfirmReplies, Handled, Refused
  <2>2. may => r.q \in QuestionIds
    BY DEF S!CanConfirmCandidate, S!TokenUsable, S!HasQuestion, WellFormed
  <2> HIDE DEF may
  <2>3. may => Numbered(c) /\ Advances(m, c)
    BY <2>2, OperationsAdvance
  <2> HIDE DEF c
  <2> QED
    BY <1>4, <2>1, <2>3, AdvancesReflexive DEF Fits
<1>5. CASE r.what = "revise"
  <2> DEFINE n   == S!BeginRevision(m, r.q)
             may == S!CanBeginRevision(m, r.q, Now)
  <2>1. h.m = m \/ (may /\ h.m = n)
    BY <1>5 DEF Replies, RevisionReplies, Handled, Refused
  <2>2. may => r.q \in QuestionIds
    BY DEF S!CanBeginRevision, S!HasQuestion, WellFormed
  <2> HIDE DEF may
  <2>3. may => Numbered(n) /\ Advances(m, n)
    BY <2>2, OperationsAdvance
  <2> HIDE DEF n
  <2> QED
    BY <1>5, <2>1, <2>3, AdvancesReflexive DEF Fits
<1> QED
  BY <1>1, <1>2, <1>3, <1>4, <1>5 DEF AnswerRequests

-----------------------------------------------------------------------------
(* What the events do to the wording.                                      *)

\* An event that leaves drafts, question and epoch alone, and the wording too,
\* unless it puts it away.
Quiet(p, n) ==
  /\ n.questions = p.questions /\ n.active = p.active
  /\ n.drafts = p.drafts /\ n.epoch = p.epoch
  /\ n.cand \in {p.cand, NoCandidate} /\ n.original \in {p.original, NoCandidate}
  /\ n.at \in Unloaded => p.at \in Unloaded
  /\ n.at = "confirming" => p.at = "confirming" \/ Loaded(p)

\* The student went to another question.
Moved(p, n) ==
  /\ n.questions = p.questions /\ n.drafts = p.drafts /\ n.epoch = p.epoch + 1
  /\ LET q == ActiveQuestion(n)
     IN  q \in QuestionIds => n.cand.ver = 0 \/ n.cand = p.drafts[q].ack
  /\ n.original = NoCandidate
  /\ n.at = "conversation"

\* The student wrote.
Wrote(p, n) ==
  /\ n.questions = p.questions /\ n.active = p.active /\ n.epoch = p.epoch
  /\ n.cand.ver = 0 /\ n.original = NoCandidate
  /\ DOMAIN n.drafts = DOMAIN p.drafts
  /\ \A q \in QuestionIds :
        IF q = ActiveQuestion(p)
        THEN /\ DOMAIN n.drafts[q] = DOMAIN p.drafts[q]
             /\ n.drafts[q].ack = p.drafts[q].ack
             /\ n.drafts[q].rev = p.drafts[q].rev + 1
        ELSE n.drafts[q] = p.drafts[q]
  /\ n.at = "conversation"

\* A candidate that exists on the page only is known.
LEMMA LocalKnown ==
  ASSUME NEW m, Numbered(m), NEW c, c.ver = 0
  PROVE  Known(m, c)
BY DEF Numbered, Known

\* The empty wording is known.
LEMMA NothingKnown ==
  ASSUME NEW m, Numbered(m)
  PROVE  /\ Known(m, NoCandidate)
         /\ \A q : Known(m, [NoCandidate EXCEPT !.q = q])
<1>1. NoCandidate.ver = 0 /\ \A q : [NoCandidate EXCEPT !.q = q].ver = 0
  BY DEF NoCandidate
<1> QED
  BY <1>1, LocalKnown

\* All three keep a sound page, and what an operation under way relies on.
LEMMA QuietKeeps ==
  ASSUME NEW m, Numbered(m), NEW p, SoundPage(p, m), NEW n, Quiet(p, n)
  PROVE  SoundPage(n, m) /\ Loaded(n) = Loaded(p) /\ \A o : Timely(o, p) => Timely(o, n)
<1>1. Loaded(n) = Loaded(p)
  BY DEF Quiet, Loaded
<1>2. ActiveQuestion(n) = ActiveQuestion(p)
  BY DEF Quiet, ActiveQuestion, HasQuestion
<1>3. SoundPage(n, m)
  BY <1>1, <1>2, NothingKnown DEF SoundPage, Quiet
<1>4. HasCandidate(n) => HasCandidate(p) /\ n.cand = p.cand
  BY DEF Quiet, HasCandidate
<1>5. ASSUME NEW o, Timely(o, p) PROVE Timely(o, n)
  BY <1>1, <1>2, <1>4, <1>5 DEF Timely, Undisturbed, Quiet
<1> QED
  BY <1>1, <1>3, <1>5

\* Navigation keeps the page sound, and what was timely stays so.
LEMMA MovedKeeps ==
  ASSUME NEW m, Numbered(m), NEW p, SoundPage(p, m), NEW n, Moved(p, n)
  PROVE  SoundPage(n, m) /\ Loaded(n) = Loaded(p) /\ \A o : Timely(o, p) => Timely(o, n)
<1>1. Loaded(n) = Loaded(p)
  BY DEF Moved, Loaded
<1>2. Known(m, n.original) /\ (ActiveQuestion(n) \in QuestionIds => Known(m, n.cand))
  BY NothingKnown, LocalKnown DEF Moved, SoundPage, SoundDraft
<1>3. SoundPage(n, m)
  BY <1>1, <1>2 DEF SoundPage, Moved, Unloaded
<1>4. ASSUME NEW o, Timely(o, p) PROVE Timely(o, n)
  <2>1. Writing(o) /\ o # NoOp => o.epoch # n.epoch
    BY <1>4 DEF Timely, SoundPage, Moved
  <2> QED
    BY <1>1, <1>4, <2>1 DEF Timely, Undisturbed, SoundPage, Moved
<1> QED
  BY <1>1, <1>3, <1>4

\* So does writing.
LEMMA WroteKeeps ==
  ASSUME NEW m, Numbered(m), NEW p, SoundPage(p, m), NEW n, Wrote(p, n)
  PROVE  SoundPage(n, m) /\ Loaded(n) = Loaded(p) /\ \A o : Timely(o, p) => Timely(o, n)
<1>1. Loaded(n) = Loaded(p)
  BY DEF Wrote, Loaded
<1>2. Known(m, n.cand) /\ Known(m, n.original)
  BY NothingKnown, LocalKnown DEF Wrote
<1>3. \A q \in QuestionIds : SoundDraft(n.drafts[q], m)
  BY DEF SoundPage, SoundDraft, Wrote
<1>4. SoundPage(n, m)
  BY <1>1, <1>2, <1>3 DEF SoundPage, Wrote, Unloaded
<1>5. ActiveQuestion(n) = ActiveQuestion(p)
  BY DEF Wrote, ActiveQuestion, HasQuestion
<1>6. ASSUME NEW o, Timely(o, p) PROVE Timely(o, n)
  <2>1. ASSUME o # NoOp, Writing(o),
               o.q = ActiveQuestion(n)
        PROVE  o.rev <= n.drafts[o.q].rev /\ ~Undisturbed(n, o)
    BY <1>5, <1>6, <2>1 DEF Timely, Writing, SoundPage, SoundDraft, Wrote, Undisturbed
  <2>2. ASSUME o # NoOp, Writing(o), o.q # ActiveQuestion(n)
        PROVE  o.rev <= n.drafts[o.q].rev /\ ~Undisturbed(n, o)
    BY <1>5, <1>6, <2>2 DEF Timely, Writing, Wrote, Undisturbed
  <2> QED
    BY <1>1, <1>6, <2>1, <2>2 DEF Timely, Wrote
<1> QED
  BY <1>1, <1>4, <1>6

\* The quiet events.
LEMMA QuietEvents ==
  ASSUME NEW p, DOMAIN p = PageFields
  PROVE  /\ Quiet(p, p)
         /\ Quiet(p, RequestRephrase(p)) /\ Quiet(p, ChangeAnswer(p))
         /\ Quiet(p, ContinueByTyping(p)) /\ Quiet(p, OpenWorksheetReview(p))
         /\ Quiet(p, ReviewAnswers(p))
         /\ Quiet(p, OpenAssignmentRoute(p)) /\ Quiet(p, OpenReviewRoute(p))
         /\ Quiet(p, RequestFailed(p)) /\ Quiet(p, RephraseFailed(p))
         /\ Quiet(p, ConfirmFailed(p)) /\ Quiet(p, AnalysisFailed(p))
         /\ \A answer, v : Quiet(p, ConfirmSucceeded(p, answer, v))
         /\ Loaded(p) => Quiet(p, Confirm(p))
<1>1. Quiet(p, RequestRephrase(p)) /\ Quiet(p, ChangeAnswer(p))
  BY DEF RequestRephrase, ChangeAnswer, Quiet, PageFields, Unloaded
<1>2. Quiet(p, ContinueByTyping(p)) /\ Quiet(p, OpenWorksheetReview(p))
  BY DEF ContinueByTyping, OpenWorksheetReview, Quiet, PageFields, Unloaded
<1>3. Quiet(p, ReviewAnswers(p)) /\ Quiet(p, OpenReviewRoute(p))
  BY DEF ReviewAnswers, OpenReviewRoute, Quiet, PageFields, Unloaded
<1>4. Quiet(p, OpenAssignmentRoute(p))
  BY DEF OpenAssignmentRoute, Unreviewed, Quiet, PageFields, Unloaded
<1>5. Quiet(p, RequestFailed(p)) /\ Quiet(p, RephraseFailed(p))
  BY DEF RequestFailed, RephraseFailed, Quiet, PageFields, Unloaded
<1>6. Quiet(p, ConfirmFailed(p)) /\ Quiet(p, AnalysisFailed(p))
  BY DEF ConfirmFailed, AnalysisFailed, Quiet, PageFields, Unloaded
<1>7. ASSUME NEW answer, NEW v PROVE Quiet(p, ConfirmSucceeded(p, answer, v))
  BY DEF ConfirmSucceeded, Quiet, PageFields, Unloaded
<1>8. Loaded(p) => Quiet(p, Confirm(p))
  BY DEF Confirm, Quiet, PageFields, Unloaded
<1>9. Quiet(p, p)
  BY DEF Quiet
<1> QED
  BY <1>1, <1>2, <1>3, <1>4, <1>5, <1>6, <1>7, <1>8, <1>9

\* Those of exports.
LEMMA QuietExports ==
  ASSUME NEW p, DOMAIN p = PageFields
  PROVE  /\ Quiet(p, CreateExport(p)) /\ Quiet(p, RetryExport(p))
         /\ \A result, v : Quiet(p, ExportSucceeded(p, result, v))
         /\ \A result, v : Quiet(p, ExportRestored(p, result, v))
         /\ \A v : Quiet(p, ExportPending(p, v))
         /\ \A v : Quiet(p, ExportFailed(p, v))
<1>1. Quiet(p, CreateExport(p)) /\ Quiet(p, RetryExport(p))
  BY DEF CreateExport, RetryExport, Quiet, PageFields, Unloaded
<1>2. ASSUME NEW result, NEW v PROVE Quiet(p, ExportSucceeded(p, result, v))
  BY DEF ExportSucceeded, Quiet, PageFields, Unloaded
<1>3. ASSUME NEW result, NEW v PROVE Quiet(p, ExportRestored(p, result, v))
  BY DEF ExportRestored, Quiet, PageFields, Unloaded
<1>4. ASSUME NEW v PROVE Quiet(p, ExportPending(p, v))
  BY DEF ExportPending, Quiet, PageFields, Unloaded
<1>5. ASSUME NEW v PROVE Quiet(p, ExportFailed(p, v))
  BY DEF ExportFailed, Quiet, PageFields, Unloaded
<1> QED
  BY <1>1, <1>2, <1>3, <1>4, <1>5

\* Writing.
LEMMA WritingWrites ==
  ASSUME NEW m, NEW p, DOMAIN p = PageFields, SoundPage(p, m), NEW text
  PROVE  /\ text # p.cand.text => Quiet(p, CandidateChanged(p, text)) \/ Wrote(p, CandidateChanged(p, text))
         /\ Quiet(p, VoiceCaptured(p, text)) \/ Wrote(p, VoiceCaptured(p, text))
<1>1. ASSUME NEW origin, p.at = "conversation" PROVE Wrote(p, WriteCandidate(p, text, origin, TRUE))
  <2> DEFINE q == ActiveQuestion(p)
             d == [text |-> text, origin |-> origin, dirty |-> TRUE, ack |-> p.drafts[q].ack,
                   rev |-> p.drafts[q].rev + 1]
             n == WriteCandidate(p, text, origin, TRUE)
             u == Unreviewed(p)
  <2>1a. /\ DOMAIN u = PageFields /\ u.questions = p.questions /\ u.active = p.active
         /\ u.epoch = p.epoch /\ u.original = NoCandidate /\ u.at = p.at /\ u.drafts = p.drafts
    BY DEF Unreviewed, PageFields
  <2>1b. n = [u EXCEPT !.cand = CandidateFor(q, text, origin), !.drafts[q] = d]
    BY DEF WriteCandidate
  <2>1c. q \in QuestionIds =>
           DOMAIN d = DraftFields /\ d.ack = p.drafts[q].ack /\ d.rev = p.drafts[q].rev + 1
    BY DEF DraftFields
  <2> HIDE DEF n, d, q, u
  <2>1. /\ n.questions = p.questions /\ n.active = p.active /\ n.epoch = p.epoch
        /\ n.cand = CandidateFor(q, text, origin) /\ n.original = NoCandidate
        /\ n.at = p.at
        /\ n.drafts = [p.drafts EXCEPT ![q] = d]
    BY <2>1a, <2>1b DEF PageFields
  <2>2. q \in QuestionIds =>
           DOMAIN d = DOMAIN p.drafts[q] /\ d.ack = p.drafts[q].ack /\ d.rev = p.drafts[q].rev + 1
    BY <2>1c DEF SoundPage, SoundDraft
  <2>3. n.cand.ver = 0
    BY <2>1 DEF CandidateFor
  <2>4. \A x \in QuestionIds : IF x = q
        THEN /\ DOMAIN n.drafts[x] = DOMAIN p.drafts[x]
             /\ n.drafts[x].ack = p.drafts[x].ack
             /\ n.drafts[x].rev = p.drafts[x].rev + 1
        ELSE n.drafts[x] = p.drafts[x]
    BY <2>1, <2>2 DEF SoundPage
  <2> QED
    BY <1>1, <2>1, <2>3, <2>4 DEF Wrote, n, q
<1>2. Quiet(p, p)
  BY DEF Quiet
<1>3. text # p.cand.text => Quiet(p, CandidateChanged(p, text)) \/ Wrote(p, CandidateChanged(p, text))
  BY <1>1, <1>2 DEF CandidateChanged
<1>4. Quiet(p, VoiceCaptured(p, text)) \/ Wrote(p, VoiceCaptured(p, text))
  BY <1>1, <1>2 DEF VoiceCaptured
<1> QED
  BY <1>3, <1>4

\* Moving between questions.
LEMMA MovingMoves ==
  ASSUME NEW m, NEW p, DOMAIN p = PageFields, SoundPage(p, m)
  PROVE  /\ Quiet(p, ContinueToNext(p)) \/ Moved(p, ContinueToNext(p))
         /\ \A q : Quiet(p, GoToQuestion(p, q)) \/ Moved(p, GoToQuestion(p, q))
<1> DEFINE there == [p EXCEPT !.at = "conversation"]
<1>1. /\ DOMAIN there = PageFields /\ there.questions = p.questions /\ there.drafts = p.drafts
      /\ there.epoch = p.epoch /\ there.active = p.active /\ there.at = "conversation"
      /\ there.cand = p.cand /\ there.original = p.original
  BY DEF PageFields
<1> HIDE DEF there
<1>2. ASSUME NEW i PROVE Moved(p, MoveTo(there, i))
  <2> DEFINE n == MoveTo(there, i)
             c == DraftCandidate(there, there.questions[i])
  <2>1. /\ n.questions = p.questions /\ n.drafts = p.drafts /\ n.epoch = p.epoch + 1
        /\ n.active = i /\ n.cand = c /\ n.original = NoCandidate /\ n.at = "conversation"
    BY <1>1 DEF MoveTo, Unreviewed, PageFields
  <2> HIDE DEF n
  <2>2. ActiveQuestion(n) \in QuestionIds => ActiveQuestion(n) = p.questions[i]
    BY <2>1, IdAssumption DEF ActiveQuestion, HasQuestion
  <2>3. c.ver = 0 \/ c = p.drafts[p.questions[i]].ack
    BY <1>1 DEF DraftCandidate, CandidateFor, NoCandidate
  <2> QED
    BY <2>1, <2>2, <2>3 DEF Moved, n
<1>3. Quiet(p, p) /\ Quiet(p, there)
  BY <1>1 DEF Quiet, Unloaded
<1>4. Quiet(p, [p EXCEPT !.at = "worksheetReview"])
  BY DEF Quiet, Unloaded, PageFields
<1>5. Quiet(p, ContinueToNext(p)) \/ Moved(p, ContinueToNext(p))
  BY <1>2, <1>3, <1>4 DEF ContinueToNext, there
<1>6. ASSUME NEW q PROVE Quiet(p, GoToQuestion(p, q)) \/ Moved(p, GoToQuestion(p, q))
  BY <1>2, <1>3 DEF GoToQuestion, there
<1> QED
  BY <1>5, <1>6

\* A stored candidate is taken in: the draft of its question is the only one that
\* changes, and the words it holds are kept when it is not the one that was sent.
LEMMA CandidateTaken ==
  ASSUME NEW m, NEW p, DOMAIN p = PageFields, SoundPage(p, m),
         NEW v, NEW c, Known(m, c), NEW q, NEW rev, rev = -1 \/ rev \in Nat, NEW epoch
  PROVE  LET n == CandidatePersisted(p, v, c, q, rev, epoch)
             d == p.drafts[q]
             current == IsCurrentDraft(p, q, rev, epoch)
         IN  /\ SoundPage(n, m)
             /\ n.questions = p.questions /\ n.active = p.active /\ n.epoch = p.epoch
             /\ n.review \in {p.review, NoReview}
             /\ n.cand = IF current THEN c ELSE p.cand
             /\ \A x \in QuestionIds : x # q => n.drafts[x] = p.drafts[x]
             /\ q \in QuestionIds =>
                  /\ n.drafts[q].rev = IF d = NoDraft /\ rev # -1 THEN rev ELSE d.rev
                  /\ n.drafts[q].text = IF current \/ d = NoDraft THEN c.text ELSE d.text
<1> DEFINE current == IsCurrentDraft(p, q, rev, epoch)
           draft == p.drafts[q]
           kept  == IF current \/ draft = NoDraft THEN c ELSE draft
           e == [text |-> kept.text, origin |-> kept.origin,
                 rev |-> IF draft = NoDraft /\ rev # -1 THEN rev ELSE draft.rev,
                 dirty |-> ~current, ack |-> c]
           w == IF Loaded(p) THEN v ELSE p.version
           stored == [p EXCEPT !.version = w, !.drafts[q] = e]
           n == CandidatePersisted(p, v, c, q, rev, epoch)
<1>1. n = IF current THEN [stored EXCEPT !.cand = c, !.review = NoReview, !.error = FALSE] ELSE stored
  BY DEF CandidatePersisted
<1>2. /\ DOMAIN e = DraftFields /\ e.ack = c
      /\ e.rev = IF draft = NoDraft /\ rev # -1 THEN rev ELSE draft.rev
      /\ e.text = IF current \/ draft = NoDraft THEN c.text ELSE draft.text
  BY DEF DraftFields
<1> HIDE DEF e, w, current, n
<1>3. /\ DOMAIN stored = PageFields /\ stored.questions = p.questions /\ stored.active = p.active
      /\ stored.epoch = p.epoch /\ stored.cand = p.cand /\ stored.original = p.original
      /\ stored.review = p.review /\ stored.at = p.at
      /\ stored.drafts = [p.drafts EXCEPT ![q] = e]
  BY DEF PageFields
<1> HIDE DEF stored
<1>4. /\ n.questions = p.questions /\ n.active = p.active /\ n.epoch = p.epoch
      /\ n.cand = (IF current THEN c ELSE p.cand) /\ n.original = p.original
      /\ n.review \in {p.review, NoReview} /\ n.at = p.at
      /\ n.drafts = [p.drafts EXCEPT ![q] = e]
  BY <1>1, <1>3 DEF PageFields
<1>5. /\ DOMAIN n.drafts = QuestionIds
      /\ \A x \in QuestionIds : n.drafts[x] = IF x = q THEN e ELSE p.drafts[x]
  BY <1>4 DEF SoundPage
<1>6. q \in QuestionIds => SoundDraft(e, m)
  BY <1>2 DEF SoundPage, SoundDraft
<1>7. \A x \in QuestionIds : SoundDraft(n.drafts[x], m)
  BY <1>5, <1>6 DEF SoundPage
<1>8. SoundPage(n, m)
  BY <1>4, <1>5, <1>7 DEF SoundPage, Loaded, ActiveQuestion, HasQuestion
<1> QED
  BY <1>2, <1>4, <1>5, <1>8 DEF n, current

\* A suggestion, a review or a revision is taken in.
LEMMA AnswersTaken ==
  ASSUME NEW m, Numbered(m), NEW p, DOMAIN p = PageFields, SoundPage(p, m), NEW v
  PROVE  /\ \A c, s : Known(m, c) => SoundPage(RephraseReady(p, c, s, v), m)
         /\ \A c, k : Known(m, c) => SoundPage(ReviewReady(p, c, k, v), m)
         /\ \A q, seed : SoundPage(RevisionReady(p, q, seed, v), m)
<1>1. ASSUME NEW c, NEW s, Known(m, c) PROVE SoundPage(RephraseReady(p, c, s, v), m)
  <2> DEFINE n == RephraseReady(p, c, s, v)
  <2>1. /\ n.questions = p.questions /\ n.active = p.active /\ n.drafts = p.drafts
        /\ n.epoch = p.epoch /\ n.cand = p.cand /\ n.original \in {p.original, c}
        /\ n.at \in {p.at, "comparison"}
    BY DEF RephraseReady, PageFields
  <2> HIDE DEF n
  <2>2. SoundPage(n, m)
    BY <1>1, <2>1 DEF SoundPage, Loaded, Unloaded, ActiveQuestion, HasQuestion
  <2> QED
    BY <2>2 DEF n
<1>2. ASSUME NEW c, NEW k, Known(m, c) PROVE SoundPage(ReviewReady(p, c, k, v), m)
  <2> DEFINE n == ReviewReady(p, c, k, v)
  <2>1. /\ n.questions = p.questions /\ n.active = p.active /\ n.drafts = p.drafts
        /\ n.epoch = p.epoch /\ n.cand = c /\ n.original = NoCandidate
        /\ n.at = "exactReview"
    BY DEF ReviewReady, Unreviewed, PageFields
  <2> HIDE DEF n
  <2>2. SoundPage(n, m)
    BY <1>2, <2>1, NothingKnown DEF SoundPage, Loaded, Unloaded
  <2> QED
    BY <2>2 DEF n
<1>3. ASSUME NEW q, NEW seed PROVE SoundPage(RevisionReady(p, q, seed, v), m)
  <2> DEFINE n == RevisionReady(p, q, seed, v)
             there == [p EXCEPT !.at = "conversation"]
             u == Unreviewed(there)
             i == IndexOf(p, q)
             w == IF i = p.active THEN p.epoch ELSE p.epoch + 1
  <2>1. /\ DOMAIN there = PageFields /\ there.questions = p.questions /\ there.active = p.active
        /\ there.drafts = p.drafts /\ there.epoch = p.epoch /\ there.cand = p.cand
        /\ there.original = p.original /\ there.at = "conversation"
    BY DEF PageFields
  <2> HIDE DEF there
  <2>2. /\ DOMAIN u = PageFields /\ u.questions = p.questions /\ u.epoch = p.epoch
        /\ u.drafts = p.drafts /\ u.original = NoCandidate /\ u.at = "conversation"
    BY <2>1 DEF Unreviewed, PageFields
  <2> HIDE DEF u, i
  <2>3. n = IF ~Shows(p, q) \/ p.confirmed[q] = NoAnswer THEN there
            ELSE [u EXCEPT !.active = i, !.epoch = w, !.cand = CandidateFor(q, seed, "student"),
                           !.version = v]
    BY <2>2 DEF RevisionReady, there, u, i
  <2>4. w \in Nat
    BY DEF SoundPage
  <2> HIDE DEF n, w
  <2>5. ASSUME n = there PROVE SoundPage(n, m)
    <3>1. Quiet(p, n)
      BY <2>1, <2>5 DEF Quiet, Unloaded
    <3> QED
      BY <3>1, QuietKeeps
  <2>6. ASSUME n = [u EXCEPT !.active = i, !.epoch = w,
                             !.cand = CandidateFor(q, seed, "student"), !.version = v]
        PROVE  SoundPage(n, m)
    <3>1. /\ n.questions = p.questions /\ n.epoch = w /\ n.drafts = p.drafts
          /\ n.cand = CandidateFor(q, seed, "student") /\ n.original = NoCandidate
          /\ n.at = "conversation"
      BY <2>2, <2>6 DEF PageFields
    <3>2. n.cand.ver = 0
      BY <3>1 DEF CandidateFor
    <3>3. Known(m, n.cand) /\ Known(m, n.original)
      BY <3>1, <3>2, NothingKnown, LocalKnown
    <3>4. Loaded(n) = Loaded(p) /\ n.at \notin Unloaded /\ n.at # "confirming"
      BY <3>1 DEF Loaded, Unloaded
    <3> QED
      BY <2>4, <3>1, <3>3, <3>4 DEF SoundPage
  <2>7. SoundPage(n, m)
    BY <2>3, <2>5, <2>6
  <2> QED
    BY <2>7 DEF n
<1> QED
  BY <1>1, <1>2, <1>3

\* A new page, and a page that is being loaded.
LEMMA NewPageSound ==
  ASSUME NEW m, Numbered(m)
  PROVE  /\ SoundPage(InitialContext, m)
         /\ \A p : /\ SoundPage(StartAnalysis(Reset(p)), m)
                   /\ StartAnalysis(Reset(p)).at = "checking"
<1>1. ASSUME NEW n, NEW at \in {"upload", "checking"},
             n = InitialContext \/ n = ClearForAnalysis(at),
             n = InitialContext => at = "upload"
      PROVE  SoundPage(n, m)
  <2>1. /\ n.questions = <<>> /\ n.epoch = 0 /\ n.cand = NoCandidate /\ n.original = NoCandidate
        /\ n.drafts = [q \in QuestionIds |-> NoDraft] /\ n.at \in {"upload", "checking"}
    BY <1>1 DEF ClearForAnalysis, InitialContext
  <2>2. SoundDraft(NoDraft, m)
    BY NothingKnown DEF SoundDraft, NoDraft, DraftFields
  <2> QED
    BY <2>1, <2>2, NothingKnown DEF SoundPage, Loaded
<1>2. SoundPage(InitialContext, m) /\ SoundPage(ClearForAnalysis("checking"), m)
  <2>1. SoundPage(InitialContext, m)
    BY <1>1
  <2>2. InitialContext.at # ClearForAnalysis("checking").at
    BY DEF ClearForAnalysis, InitialContext
  <2> QED
    BY <1>1, <2>1, <2>2
<1>3. ASSUME NEW p PROVE StartAnalysis(Reset(p)) = ClearForAnalysis("checking")
  <2>1. Reset(p).at = "upload"
    BY DEF Reset, ClearForAnalysis, InitialContext
  <2> QED
    BY <2>1 DEF StartAnalysis
<1>4. ClearForAnalysis("checking").at = "checking"
  BY DEF ClearForAnalysis, InitialContext
<1> QED
  BY <1>2, <1>3, <1>4

\* The page as it is loaded.
LEMMA LoadedSound ==
  ASSUME NEW m, Numbered(m), DOMAIN page = PageFields, SoundPage(page, m), page.at = "checking",
         NEW got, Known(m, got.cand), NEW v, NEW mode
  PROVE  SoundPage(RestoredPage(got, v, mode), m)
<1> DEFINE n == AnalysisReady(page, v, Order, TRUE, got.confirmed, got.active, got.cand)
           c == got.cand
           a == [n EXCEPT !.version = v, !.questions = Order, !.verified = TRUE, !.active = 1,
                          !.error = FALSE, !.at = "conversation"]
<1>1. /\ DOMAIN n = PageFields /\ n.questions = Order /\ n.epoch = page.epoch
      /\ n.cand = c /\ n.original = page.original /\ n.at = "questionCheck"
      /\ n.drafts = [q \in QuestionIds |->
                       IF c # NoCandidate /\ q = c.q
                       THEN [text |-> c.text, origin |-> c.origin, rev |-> 0,
                             dirty |-> FALSE, ack |-> c]
                       ELSE NoDraft]
  BY DEF AnalysisReady, PageFields
<1> HIDE DEF n
<1>2. SoundDraft(NoDraft, m)
  BY NothingKnown DEF SoundDraft, NoDraft, DraftFields
<1>3. SoundDraft([text |-> c.text, origin |-> c.origin, rev |-> 0, dirty |-> FALSE, ack |-> c], m)
  BY DEF SoundDraft, DraftFields
<1>4. DOMAIN n.drafts = QuestionIds /\ \A q \in QuestionIds : SoundDraft(n.drafts[q], m)
  BY <1>1, <1>2, <1>3
<1>5. SoundPage(n, m)
  BY <1>1, <1>4 DEF SoundPage, Unloaded
<1>6. SoundPage(OpenReviewRoute(n), m) /\ SoundPage(ExportPending(n, 0), m)
  BY <1>1, <1>5, QuietEvents, QuietExports, QuietKeeps
<1>7. SoundPage(QuestionSetupAccepted(n, v, Order, TRUE), m)
  <2> DEFINE w == QuestionSetupAccepted(n, v, Order, TRUE)
  <2>1. /\ w.questions = Order /\ w.epoch = n.epoch /\ w.drafts = n.drafts
        /\ w.cand = c /\ w.original = n.original /\ w.at = "conversation"
    BY <1>1 DEF QuestionSetupAccepted, ApplyQuestionSetup, InSetup, PageFields
  <2> HIDE DEF w
  <2> QED
    BY <1>1, <1>4, <2>1 DEF SoundPage, Unloaded, w
<1> QED
  BY <1>6, <1>7 DEF RestoredPage, n

-----------------------------------------------------------------------------
(* What is sent.                                                           *)

\* What the code keeps over an await.
LEMMA AwaitReads ==
  ASSUME NEW kind, NEW step, NEW p, NEW q, NEW text, NEW req
  PROVE  LET o == Await(kind, step, p, q, text, req)
         IN  o.q = q /\ o.rev = p.drafts[q].rev /\ o.epoch = p.epoch /\ o.text = text
BY DEF Await

\* The candidates requests name.
LEMMA RequestNames ==
  /\ \A what, q, aver : /\ Request(what, q, aver).q = q
                        /\ Request(what, q, aver).cand = [NoCandidate EXCEPT !.q = q]
  /\ \A what, q, aver, c : /\ AboutCandidate(what, q, aver, c).q = q
                           /\ AboutCandidate(what, q, aver, c).cand = c
  /\ \A p, r : /\ CandidateRequest(p, r).q = ActiveQuestion(p)
               /\ CandidateRequest(p, r).text = p.cand.text
               /\ CandidateRequest(p, r).cand = [NoCandidate EXCEPT !.q = ActiveQuestion(p)]
BY DEF Request, AboutCandidate, CandidateRequest

\* The request after a candidate is stored, and the review of a selection.
LEMMA FollowSound ==
  ASSUME NEW m, Numbered(m), NEW p, SoundPage(p, m), Loaded(p),
         NEW kind \in {"rephrase", "review"}, NEW q, NEW version, NEW c,
         q \in QuestionIds => Known(m, c)
  PROVE  /\ Fitting(Follow(kind, p, q, version, c), m)
         /\ Fitting([Follow("review", p, q, version, c) EXCEPT !.kind = "select"], m)
         /\ Timely([Follow("review", p, q, version, c) EXCEPT !.kind = "select"], p)
         /\ (kind = "review" /\ ActiveQuestion(p) = q /\ HasCandidate(p) => p.cand.text = c.text)
              => Timely(Follow(kind, p, q, version, c), p)
<1> DEFINE o(k) == Follow(k, p, q, version, c)
           s == [o("review") EXCEPT !.kind = "select"]
<1>1. ASSUME NEW k \in {"rephrase", "review"}
      PROVE  /\ DOMAIN o(k) = OpFields /\ o(k).ans = NoRequest /\ o(k).kind = k
             /\ o(k).step = "main" /\ o(k).q = q /\ o(k).rev = p.drafts[q].rev
             /\ o(k).epoch = p.epoch
             /\ o(k).req.what = k /\ o(k).req.q = q /\ o(k).req.cand = c
  BY AwaitFields, AwaitReads, RequestKinds, RequestNames DEF Follow
<1>2. /\ DOMAIN s = OpFields /\ s.ans = NoRequest /\ s.kind = "select" /\ s.step = "main"
      /\ s.q = q /\ s.req.what = "review" /\ s.req.q = q /\ s.req.cand = c
  BY <1>1 DEF OpFields
<1> HIDE DEF o
<1>3. Fitting(o(kind), m)
  BY <1>1 DEF Fitting, Answers
<1> HIDE DEF s
<1>4. Fitting(s, m)
  BY <1>2 DEF Fitting, Answers
<1>5. Timely(s, p)
  BY <1>2 DEF Timely, Writing
<1>6. (kind = "review" /\ ActiveQuestion(p) = q /\ HasCandidate(p) => p.cand.text = c.text)
        => Timely(o(kind), p)
  BY <1>1 DEF Timely, Writing, Undisturbed, Wanted, SoundPage, SoundDraft
<1> QED
  BY <1>3, <1>4, <1>5, <1>6 DEF o, s

\* requestRephrase and requestReview.
LEMMA BeginSound ==
  ASSUME NEW m, Numbered(m), NEW p, SoundPage(p, m), Loaded(p),
         NEW kind \in {"rephrase", "review"}
  PROVE  Fitting(Begin(kind, p), m) /\ Timely(Begin(kind, p), p)
<1> DEFINE q == ActiveQuestion(p)
           req == CandidateRequest(p, refs)
           o == Await(kind, "persist", p, q, p.cand.text, req)
<1>1. /\ DOMAIN o = OpFields /\ o.ans = NoRequest /\ o.kind = kind /\ o.step = "persist"
      /\ o.q = q /\ o.rev = p.drafts[q].rev /\ o.epoch = p.epoch
      /\ o.req.what = "candidate" /\ o.req.q = q /\ o.req.text = p.cand.text
      /\ o.req.cand = [NoCandidate EXCEPT !.q = q]
  BY AwaitFields, AwaitReads, RequestKinds, RequestNames
<1> HIDE DEF o
<1>2. Fitting(o, m)
  BY <1>1, NothingKnown DEF Fitting, Answers
<1>3. Timely(o, p)
  BY <1>1 DEF Timely, Writing, Undisturbed, Wanted, SoundPage, SoundDraft
<1>4. /\ Fitting(Follow(kind, p, q, p.version, p.cand), m)
      /\ Timely(Follow(kind, p, q, p.version, p.cand), p)
  BY FollowSound DEF SoundPage
<1> QED
  BY <1>2, <1>3, <1>4 DEF Begin, o

\* The choice of a suggestion.
LEMMA SelectSound ==
  ASSUME NEW m, Numbered(m), NEW p, Loaded(p), NEW q, NEW text,
         NEW req, req.what = "candidate", req.q = q, req.cand.ver = 0
  PROVE  LET o == Await("select", "persist", p, q, text, req)
         IN  Fitting(o, m) /\ Timely(o, p)
<1> DEFINE o == Await("select", "persist", p, q, text, req)
<1>1. /\ o.kind = "select" /\ o.step = "persist" /\ o.ans = NoRequest
      /\ o.q = q /\ o.req = req
  BY AwaitFields, AwaitReads
<1> HIDE DEF o
<1>2. Fitting(o, m)
  BY <1>1, LocalKnown DEF Fitting, Answers
<1>3. Timely(o, p)
  BY <1>1 DEF Timely, Writing
<1> QED
  BY <1>2, <1>3 DEF o

\* A request that carries no review.
LEMMA PlainSound ==
  ASSUME NEW m, NEW p, Loaded(p), NEW o, o.kind \in {"confirm", "revise", "export"}
  PROVE  Fitting(o, m) /\ Timely(o, p)
BY DEF Fitting, Timely, Writing

-----------------------------------------------------------------------------
(* Steps.                                                                  *)

\* What is known stays known while the server's record advances.
LEMMA SoundLater ==
  ASSUME NEW m, Numbered(m), NEW n, Numbered(n), Advances(m, n)
  PROVE  /\ \A p : SoundPage(p, m) => SoundPage(p, n)
         /\ \A o : Fitting(o, m) => Fitting(o, n)
         /\ \A r : SoundRefs(r, m) => SoundRefs(r, n)
         /\ \A w, p : SoundPoll(w, p, m) => SoundPoll(w, p, n)
<1>1. \A c : Known(m, c) => Known(n, c)
  BY KnownLater
<1>2. ASSUME NEW p, SoundPage(p, m) PROVE SoundPage(p, n)
  <2>1. \A d : SoundDraft(d, m) => SoundDraft(d, n)
    BY <1>1 DEF SoundDraft
  <2> QED
    BY <1>1, <1>2, <2>1 DEF SoundPage
<1>3. ASSUME NEW o, Fitting(o, m) PROVE Fitting(o, n)
  BY <1>1, <1>3 DEF Fitting
<1>4. ASSUME NEW r, SoundRefs(r, m) PROVE SoundRefs(r, n)
  BY <1>1, <1>4 DEF SoundRefs
<1>5. ASSUME NEW w, NEW p, SoundPoll(w, p, m) PROVE SoundPoll(w, p, n)
  BY <1>1, <1>5 DEF SoundPoll
<1> QED
  BY <1>2, <1>3, <1>4, <1>5

\* A page with something to act on is loaded, and nothing is being loaded then.
LEMMA OffersAreLoaded ==
  /\ Offers(page) # {} => Loaded(page)
  /\ HasQuestion(page) => Loaded(page)
  /\ \A text : VoiceCaptured(page, text) # page => Loaded(page)
  /\ \A q : Shows(page, q) => Loaded(page)
  /\ LinkToReview(page) => Loaded(page)
<1>1. Offers(page) # {} => Loaded(page)
  BY DEF Offers
<1>2. HasQuestion(page) => Loaded(page)
  BY DEF HasQuestion, Loaded
<1>3. \A text : VoiceCaptured(page, text) # page => Loaded(page)
  BY <1>2 DEF VoiceCaptured
<1>4. \A q : Shows(page, q) => Loaded(page)
  BY DEF Shows, Range, Loaded
<1>5. LinkToReview(page) => Loaded(page)
  BY DEF LinkToReview
<1> QED
  BY <1>1, <1>2, <1>3, <1>4, <1>5

\* Nothing is awaited on a page that is not loaded, and no assignment on one that is.
LEMMA LoadedFacts ==
  ASSUME LInv
  PROVE  /\ op # NoOp => Loaded(page)
         /\ Loaded(page) => /\ poll.kind \notin {"assignment", "setup"}
                            /\ \A p : SoundPoll(poll, p, manifest)
         /\ page.at = "checking" => ~Loaded(page)
BY DEF LInv, Timely, SoundPoll, SoundPage, Unloaded

\* A step of a loaded page that leaves the server and the poll alone.
LEMMA LateStep ==
  ASSUME LInv, Loaded(page), UNCHANGED <<manifest, poll>>,
         SoundPage(page', manifest), SoundRefs(refs', manifest),
         Timely(op', page'), Fitting(op', manifest)
  PROVE  LInv'
<1>1. SoundPoll(poll, page', manifest)
  BY LoadedFacts
<1> QED
  BY <1>1 DEF LInv

\* Nothing under way.
LEMMA NothingLate == \A p, m : Timely(NoOp, p) /\ Fitting(NoOp, m)
BY DEF Timely, Fitting

\* An event that keeps, puts away or replaces the wording as the student does,
\* with the mutation kept, ended or begun.
LEMMA StudentStep ==
  ASSUME LInv, Loaded(page), UNCHANGED <<manifest, poll>>,
         Quiet(page, page') \/ Moved(page, page') \/ Wrote(page, page'),
         SoundRefs(refs', manifest),
         op' = op \/ op' = NoOp \/ (Fitting(op', manifest) /\ Timely(op', page'))
  PROVE  LInv'
<1>1. SoundPage(page, manifest) /\ Numbered(manifest)
  BY DEF LInv
<1>2. SoundPage(page', manifest) /\ \A o : Timely(o, page) => Timely(o, page')
  BY <1>1, QuietKeeps, MovedKeeps, WroteKeeps
<1>3. Timely(op', page') /\ Fitting(op', manifest)
  BY <1>2, NothingLate DEF LInv
<1> QED
  BY <1>2, <1>3, LateStep

\* What the invariant says of the page, for its events.
LEMMA LateFacts ==
  ASSUME PInv, LInv
  PROVE  /\ DOMAIN page = PageFields /\ SoundPage(page, manifest) /\ Numbered(manifest)
         /\ SoundRefs(refs, manifest) /\ WellFormed(manifest)
         /\ NoPersisted.cand = NoCandidate /\ Known(manifest, NoCandidate)
BY PageFacts, NothingKnown DEF PInv, LInv, NoPersisted

\* The student writes.
LEMMA LateWrite ==
  ASSUME PInv, LInv, Write
  PROVE  LInv'
<1>0. /\ DOMAIN page = PageFields /\ SoundPage(page, manifest) /\ Numbered(manifest)
      /\ SoundRefs(refs, manifest)
  BY LateFacts
<1>1. ASSUME NEW text \in Texts, Type(text) PROVE LInv'
  <2>1. /\ page' = CandidateChanged(page, text) /\ text # page.cand.text /\ "type" \in Offers(page)
        /\ UNCHANGED <<manifest, poll, op, refs>>
    BY <1>1 DEF Type, Send
  <2>2. Loaded(page)
    BY <2>1, OffersAreLoaded
  <2>3. Quiet(page, page') \/ Wrote(page, page')
    BY <1>0, <2>1, WritingWrites
  <2> QED
    BY <1>0, <2>1, <2>2, <2>3, StudentStep
<1>2. ASSUME NEW text \in Texts, Dictate(text) PROVE LInv'
  <2>1. /\ page' = VoiceCaptured(page, text) /\ VoiceCaptured(page, text) # page
        /\ UNCHANGED <<manifest, poll, op, refs>>
    BY <1>2 DEF Dictate, Send
  <2>2. Loaded(page)
    BY <2>1, OffersAreLoaded
  <2>3. Quiet(page, page') \/ Wrote(page, page')
    BY <1>0, <2>1, WritingWrites
  <2> QED
    BY <1>0, <2>1, <2>2, <2>3, StudentStep
<1>3. CASE AskRephrase
  <2>1. /\ page' = RequestRephrase(page) /\ op' = Begin("rephrase", RequestRephrase(page))
        /\ UNCHANGED <<manifest, poll, refs>>
        /\ Offers(page) # {} \/ HasQuestion(page)
    BY <1>3 DEF AskRephrase, VoiceMayAsk, Send
  <2>2. Loaded(page)
    BY <2>1, OffersAreLoaded
  <2>3. Quiet(page, page')
    BY <1>0, <2>1, QuietEvents
  <2>4. SoundPage(page', manifest) /\ Loaded(page')
    BY <1>0, <2>2, <2>3, QuietKeeps
  <2>5. Fitting(op', manifest) /\ Timely(op', page')
    BY <1>0, <2>1, <2>4, BeginSound
  <2> QED
    BY <1>0, <2>1, <2>2, <2>3, <2>5, StudentStep
<1>4. CASE AskReview
  <2>1. /\ op' = Begin("review", page) /\ UNCHANGED <<manifest, poll, refs, page>>
        /\ Offers(page) # {} \/ HasQuestion(page)
    BY <1>4 DEF AskReview, VoiceMayAsk
  <2>2. Loaded(page)
    BY <2>1, OffersAreLoaded
  <2>3. Fitting(op', manifest) /\ Timely(op', page)
    BY <1>0, <2>1, <2>2, BeginSound
  <2> QED
    BY <1>0, <2>1, <2>2, <2>3, QuietEvents, StudentStep
<1>5. CASE KeepOriginal
  <2> DEFINE c == IF page.original # NoCandidate THEN page.original ELSE page.cand
             q == ActiveQuestion(page)
             o == [Follow("review", page, q, page.version, c) EXCEPT !.kind = "select"]
  <2>1. op' = o /\ UNCHANGED <<manifest, poll, refs, page>> /\ "keep" \in Offers(page)
    BY <1>5 DEF KeepOriginal
  <2>2. Loaded(page)
    BY <2>1, OffersAreLoaded
  <2>3. q \in QuestionIds => Known(manifest, c)
    BY <1>0 DEF SoundPage
  <2> HIDE DEF c, q
  <2>4. Fitting(o, manifest) /\ Timely(o, page)
    BY <1>0, <2>2, <2>3, FollowSound
  <2> QED
    BY <1>0, <2>1, <2>2, <2>4, QuietEvents, StudentStep
<1>6. CASE UseSuggestion
  <2> DEFINE q == ActiveQuestion(page)
             s == page.suggestion
             c == refs.persisted.cand
             known == /\ refs.persisted.aver = page.version
                      /\ c.origin = "claros_rephrase" /\ c.text = s.text
             req == [Request("candidate", q, page.version) EXCEPT
                       !.text = s.text, !.origin = "claros_rephrase", !.prior = s.ver]
             x == [Follow("review", page, q, page.version, c) EXCEPT !.kind = "select"]
             y == Await("select", "persist", page, q, s.text, req)
  <2>1. op' = (IF known THEN x ELSE y) /\ UNCHANGED <<manifest, poll, refs, page>>
        /\ "use" \in Offers(page)
    BY <1>6 DEF UseSuggestion
  <2>2. Loaded(page)
    BY <2>1, OffersAreLoaded
  <2>3. Fitting(x, manifest) /\ Timely(x, page)
    BY <1>0, <2>2, FollowSound DEF SoundRefs
  <2>4. req.what = "candidate" /\ req.q = q /\ req.cand.ver = 0
    BY DEF Request, NoCandidate
  <2> HIDE DEF req, q, s, x
  <2>5. Fitting(y, manifest) /\ Timely(y, page)
    BY <1>0, <2>2, <2>4, SelectSound
  <2> HIDE DEF y, known
  <2>6. Fitting(op', manifest) /\ Timely(op', page)
    BY <2>1, <2>3, <2>5
  <2> QED
    BY <1>0, <2>1, <2>2, <2>6, QuietEvents, StudentStep
<1>7. CASE Change
  <2>1. /\ page' = ChangeAnswer(page) /\ "change" \in Offers(page)
        /\ UNCHANGED <<manifest, poll, op, refs>>
    BY <1>7 DEF Change, Send
  <2>2. Loaded(page)
    BY <2>1, OffersAreLoaded
  <2> QED
    BY <1>0, <2>1, <2>2, QuietEvents, StudentStep
<1>8. CASE PressConfirm
  <2>1. /\ page' = Confirm(page) /\ "confirm" \in Offers(page)
        /\ UNCHANGED <<manifest, poll, op, refs>>
    BY <1>8 DEF PressConfirm, Send
  <2>2. Loaded(page)
    BY <2>1, OffersAreLoaded
  <2> QED
    BY <1>0, <2>1, <2>2, QuietEvents, StudentStep
<1> QED
  BY <1>1, <1>2, <1>3, <1>4, <1>5, <1>6, <1>7, <1>8 DEF Write

\* The student moves about.
LEMMA LateMove ==
  ASSUME PInv, LInv, Move
  PROVE  LInv'
<1>0. /\ DOMAIN page = PageFields /\ SoundPage(page, manifest) /\ Numbered(manifest)
      /\ SoundRefs(refs, manifest) /\ NoPersisted.cand = NoCandidate /\ Known(manifest, NoCandidate)
  BY LateFacts
<1>1. CASE Continue \/ OpenReview \/ TypeInstead \/ ReviewAnswersAfterFailure
  <2>1. /\ page' \in {ContinueToNext(page), OpenWorksheetReview(page), ContinueByTyping(page),
                      ReviewAnswers(page)}
        /\ UNCHANGED <<manifest, poll, op, refs>>
        /\ Offers(page) # {} \/ LinkToReview(page) \/ Loaded(page)
    BY <1>1 DEF Continue, OpenReview, TypeInstead, ReviewAnswersAfterFailure, Send
  <2>2. Loaded(page)
    BY <2>1, OffersAreLoaded
  <2>3. Quiet(page, page') \/ Moved(page, page')
    BY <1>0, <2>1, QuietEvents, MovingMoves
  <2> QED
    BY <1>0, <2>1, <2>2, <2>3, StudentStep
<1>2. ASSUME NEW q \in QuestionIds, Answer(q) \/ VoiceNavigate(q) PROVE LInv'
  <2>1. /\ page' = GoToQuestion(page, q) /\ UNCHANGED <<manifest, poll, op>> /\ Shows(page, q)
        /\ refs' = refs \/ refs' = [refs EXCEPT !.persisted = NoPersisted]
    BY <1>2 DEF Answer, VoiceNavigate, Send
  <2>2. Loaded(page)
    BY <2>1, OffersAreLoaded
  <2>3. Quiet(page, page') \/ Moved(page, page')
    BY <1>0, <2>1, MovingMoves
  <2>4. SoundRefs(refs', manifest)
    BY <1>0, <2>1 DEF SoundRefs, RefFields
  <2> QED
    BY <2>1, <2>2, <2>3, <2>4, StudentStep
<1>3. CASE PressExport
  <2>1. /\ page' \in {ExportPending(page, 0), RetryExport(page), CreateExport(page)}
        /\ UNCHANGED <<manifest, poll>> /\ "export" \in Offers(page)
        /\ op' = op \/ \E v : op' = ExportOp(v)
        /\ \/ refs' = refs
           \/ refs' = [refs EXCEPT !.pollRetry = FALSE]
           \/ \E t : refs' = [refs EXCEPT !.attempt = t]
    BY <1>3 DEF PressExport, Send
  <2>2. Loaded(page)
    BY <2>1, OffersAreLoaded
  <2>3. Quiet(page, page')
    BY <1>0, <2>1, QuietExports
  <2>4. SoundRefs(refs', manifest)
    BY <1>0, <2>1 DEF SoundRefs, RefFields
  <2>5. Loaded(page')
    BY <1>0, <2>2, <2>3, QuietKeeps
  <2>6. \A v : ExportOp(v).kind = "export"
    BY DEF ExportOp
  <2>7. op' = op \/ (Fitting(op', manifest) /\ Timely(op', page'))
    BY <2>1, <2>5, <2>6, PlainSound
  <2> QED
    BY <2>1, <2>2, <2>3, <2>4, <2>7, StudentStep
<1>4. ASSUME NEW q \in QuestionIds, Edit(q) PROVE LInv'
  <2> DEFINE o == Await("revise", "main", page, q, NoText, Request("revise", q, page.version))
             b == (page.at = "worksheetReview")
  <2>1. /\ op' = [o EXCEPT !.follow = b] /\ UNCHANGED <<manifest, poll, page, refs>>
        /\ Shows(page, q)
    BY <1>4 DEF Edit
  <2>2. Loaded(page)
    BY <2>1, OffersAreLoaded
  <2>3. DOMAIN o = OpFields /\ o.kind = "revise"
    BY AwaitFields
  <2> HIDE DEF o, b
  <2>4. op'.kind = "revise"
    BY <2>1, <2>3 DEF OpFields
  <2>5. Fitting(op', manifest) /\ Timely(op', page)
    BY <2>2, <2>4, PlainSound
  <2> QED
    BY <1>0, <2>1, <2>2, <2>5, QuietEvents, StudentStep
<1>5. ASSUME NEW r, Browse(r) PROVE LInv'
  <2>1. UNCHANGED <<manifest, poll, page, op, refs>>
    BY <1>5 DEF Browse
  <2> QED
    BY <2>1 DEF LInv
<1>6. CASE Reload
  <2>1. /\ page' = InitialContext /\ op' = NoOp /\ refs' = NoRefs /\ poll' = NoOp
        /\ UNCHANGED manifest
    BY <1>6 DEF Reload
  <2>2. SoundPage(page', manifest)
    BY <1>0, <2>1, NewPageSound
  <2>3. SoundRefs(refs', manifest) /\ SoundPoll(poll', page', manifest)
    BY <1>0, <2>1 DEF SoundRefs, NoRefs, RefFields, SoundPoll, NoOp
  <2> QED
    BY <1>0, <2>1, <2>2, <2>3, NothingLate DEF LInv
<1> QED
  BY <1>1, <1>2, <1>3, <1>4, <1>5, <1>6 DEF Move

\* A request under way is handled, refused or lost.
LEMMA LateServer ==
  ASSUME PInv, LInv, Server
  PROVE  LInv'
<1>0. /\ SoundPage(page, manifest) /\ Numbered(manifest) /\ SoundRefs(refs, manifest)
      /\ WellFormed(manifest) /\ SoundPoll(poll, page, manifest)
      /\ Timely(op, page) /\ Fitting(op, manifest)
  BY LateFacts DEF LInv
<1>1. op # NoOp /\ DOMAIN op = OpFields /\ UNCHANGED <<page, refs, poll>>
  BY DEF Server, Serve, ServeExport, LoseRequest, Waiting, PInv, GoodOp
<1>2. ASSUME NEW a, op' = [op EXCEPT !.ans = a]
      PROVE  /\ op'.ans = a /\ op'.kind = op.kind /\ op'.step = op.step /\ op'.q = op.q
             /\ op'.req = op.req /\ Timely(op', page)
  <2>1. /\ op'.ans = a /\ op'.kind = op.kind /\ op'.step = op.step /\ op'.q = op.q
        /\ op'.req = op.req /\ op'.rev = op.rev /\ op'.epoch = op.epoch
    BY <1>1, <1>2 DEF OpFields
  <2> QED
    BY <1>0, <1>1, <2>1 DEF Timely, Writing, Undisturbed, Wanted
<1>3. ASSUME NEW n, Numbered(n), Advances(manifest, n), manifest' = n,
             Timely(op', page), Fitting(op', n)
      PROVE  LInv'
  BY <1>0, <1>1, <1>3, SoundLater DEF LInv
<1>4. CASE Serve
  <2>1. PICK h \in Replies(manifest, op.req) : manifest' = h.m /\ op' = [op EXCEPT !.ans = h.ans]
    BY <1>4 DEF Serve
  <2>2. op.req.what \in AnswerRequests
    BY <1>1, <1>4 DEF Serve, PInv, GoodOp, GoodRequest
  <2>3. Fits(manifest, op.req, h)
    BY <1>0, <2>2, RequestFits
  <2>4. /\ op'.ans = h.ans /\ op'.kind = op.kind /\ op'.step = op.step /\ op'.q = op.q
        /\ op'.req = op.req /\ Timely(op', page)
    BY <1>2, <2>1
  <2>5. Numbered(h.m) /\ Advances(manifest, h.m) /\ Fitting(op, h.m)
    BY <1>0, <2>3, SoundLater DEF Fits
  <2>6. ASSUME op.kind \in {"rephrase", "review", "select"}, Answers(op')
        PROVE  /\ op.q \in QuestionIds
               /\ Known(h.m, op'.ans.cand)
               /\ op.step = "persist" => op'.ans.cand.text = op.req.text
               /\ Reviewing(op) => op'.ans.review.q = op.q
                                   /\ op'.ans.review.text = op.req.cand.text
    <3>1. /\ op.step \in {"persist", "main"} /\ op.req.q = op.q
          /\ op.req.what = IF op.step = "persist" THEN "candidate"
                           ELSE IF op.kind = "rephrase" THEN "rephrase" ELSE "review"
          /\ op.q \in QuestionIds => Known(manifest, op.req.cand)
      BY <1>0, <1>1, <2>6 DEF Fitting
    <3>2. h.ans # Failed
      BY <2>4, <2>6 DEF Answers
    <3>3. op.q \in QuestionIds /\ Known(manifest, op.req.cand)
      BY <2>3, <3>1, <3>2 DEF Fits
    <3> QED
      BY <2>3, <2>4, <3>1, <3>2, <3>3 DEF Fits, Reviewing
  <2>7. Fitting(op', h.m)
    BY <1>1, <2>4, <2>5, <2>6 DEF Fitting, Reviewing
  <2> QED
    BY <1>3, <2>1, <2>4, <2>5, <2>7
<1>5. CASE ServeExport \/ LoseRequest
  <2>1. PICK a : op' = [op EXCEPT !.ans = a] /\ (a = Failed \/ op.kind = "export")
                 /\ UNCHANGED manifest
    BY <1>5 DEF ServeExport, LoseRequest
  <2>2. /\ op'.ans = a /\ op'.kind = op.kind /\ op'.step = op.step /\ op'.q = op.q
        /\ op'.req = op.req /\ Timely(op', page)
    BY <1>2, <2>1
  <2>3. Fitting(op', manifest)
    BY <1>0, <1>1, <2>1, <2>2 DEF Fitting, Answers
  <2> QED
    BY <1>0, <1>3, <2>1, <2>2, <2>3, AdvancesReflexive
<1> QED
  BY <1>4, <1>5 DEF Server

\* A request left behind lands.
LEMMA LateOrphan ==
  ASSUME PInv, LInv, ServeOrphan
  PROVE  LInv'
<1>1. PICK h \in Replies(manifest, orphan) : manifest' = h.m
  BY DEF ServeOrphan
<1>2. orphan.what \in AnswerRequests /\ WellFormed(manifest) /\ Numbered(manifest)
  BY DEF ServeOrphan, PInv, GoodRequest, LInv
<1>3. Numbered(h.m) /\ Advances(manifest, h.m)
  BY <1>1, <1>2, RequestFits DEF Fits
<1>4. UNCHANGED <<page, op, refs, poll>>
  BY DEF ServeOrphan
<1> QED
  BY <1>1, <1>2, <1>3, <1>4, SoundLater DEF LInv

\* What an answer is about.
LEMMA AnswerIsAbout ==
  ASSUME LInv, op # NoOp, Answers(op), op.kind \in {"rephrase", "review", "select"}
  PROVE  /\ op.q \in QuestionIds /\ Known(manifest, op.ans.cand) /\ Known(manifest, op.req.cand)
         /\ op.step = "persist" => op.ans.cand.text = op.req.text
         /\ Reviewing(op) => op.ans.review.q = op.q /\ op.ans.review.text = op.req.cand.text
BY DEF LInv, Fitting

\* What the code remembers of a stored candidate.
LEMMA Remembers ==
  ASSUME NEW r, NEW m, SoundRefs(r, m), NEW c, Known(m, c), NEW v
  PROVE  /\ \A q : SoundRefs(Persisted(r, q, v, c), m)
         /\ SoundRefs([r EXCEPT !.persisted = [aver |-> v, cand |-> c]], m)
<1> DEFINE x == [aver |-> v, cand |-> c]
<1>1. x.cand = c
  OBVIOUS
<1> HIDE DEF x
<1>2. SoundRefs([r EXCEPT !.persisted = x], m)
  BY <1>1 DEF SoundRefs, RefFields
<1>3. ASSUME NEW q PROVE SoundRefs(Persisted(r, q, v, c), m)
  <2> DEFINE y == IF r.source.q = q THEN [q |-> q, ver |-> c.ver] ELSE r.source
             n == [r EXCEPT !.persisted = x, !.source = y]
  <2>1. Persisted(r, q, v, c) = n
    BY DEF Persisted, SoundRefs, RefFields, x
  <2> HIDE DEF y
  <2>2. DOMAIN n = RefFields /\ n.persisted = x
    BY DEF SoundRefs, RefFields
  <2> HIDE DEF n
  <2> QED
    BY <1>1, <2>1, <2>2 DEF SoundRefs
<1> QED
  BY <1>2, <1>3 DEF x

\* The candidate of a rephrase or a review is stored.
LEMMA LatePersisted ==
  ASSUME PInv, LInv, TakePersisted
  PROVE  /\ LInv'
         /\ \A q \in QuestionIds : page.drafts[q].rev > op.rev =>
              page'.drafts[q].text = page.drafts[q].text
<1> DEFINE a == op.ans
           p == CandidatePersisted(page, a.version, a.cand, op.q, op.rev, op.epoch)
           d == page.drafts[op.q]
           current == IsCurrentDraft(page, op.q, op.rev, op.epoch)
<1>0. /\ DOMAIN page = PageFields /\ SoundPage(page, manifest) /\ Numbered(manifest)
      /\ SoundRefs(refs, manifest)
  BY LateFacts
<1>1. /\ op # NoOp /\ op.kind \in {"rephrase", "review"} /\ op.step = "persist" /\ Answers(op)
      /\ UNCHANGED <<manifest, poll>> /\ page' = p
      /\ IF StillThere(p, op)
         THEN /\ refs' = Persisted(refs, op.q, a.version, a.cand)
              /\ op' = Follow(op.kind, p, op.q, a.version, a.cand)
         ELSE refs' = refs /\ op' = NoOp
  BY DEF TakePersisted, Send, Answers
<1>2. op.q \in QuestionIds /\ Known(manifest, a.cand) /\ a.cand.text = op.req.text
  BY <1>1, AnswerIsAbout
<1>3. /\ Loaded(page) /\ op.rev \in Nat /\ op.rev <= d.rev
      /\ op.kind = "review" /\ Undisturbed(page, op) /\ HasCandidate(page)
           => page.cand.text = op.req.text
  BY <1>1, <1>2 DEF LInv, Timely, Writing, Wanted
<1>4. /\ SoundPage(p, manifest)
      /\ p.questions = page.questions /\ p.active = page.active /\ p.epoch = page.epoch
      /\ p.cand = IF current THEN a.cand ELSE page.cand
      /\ \A x \in QuestionIds : x # op.q => p.drafts[x] = page.drafts[x]
      /\ p.drafts[op.q].rev = IF d = NoDraft /\ op.rev # -1 THEN op.rev ELSE d.rev
      /\ p.drafts[op.q].text = IF current \/ d = NoDraft THEN a.cand.text ELSE d.text
  BY <1>0, <1>2, <1>3, CandidateTaken
<1> HIDE DEF p, a
<1>5. Loaded(p) /\ ActiveQuestion(p) = ActiveQuestion(page)
  BY <1>3, <1>4 DEF Loaded, ActiveQuestion, HasQuestion
<1>6. NoDraft.rev = 0
  BY DEF NoDraft
<1>7. ASSUME StillThere(p, op), op.kind = "review", HasCandidate(p)
      PROVE  p.cand.text = a.cand.text
  <2>1. CASE current
    BY <1>4, <2>1
  <2>2. CASE ~current
    <3>1. d = NoDraft
      BY <1>3, <1>4, <1>5, <1>7, <2>2 DEF StillThere, IsCurrentDraft
    <3>2. Undisturbed(page, op)
      BY <1>3, <1>4, <1>5, <1>6, <1>7, <3>1 DEF StillThere, Undisturbed
    <3> QED
      BY <1>2, <1>3, <1>4, <1>7, <2>2, <3>2 DEF HasCandidate
  <2> QED
    BY <2>1, <2>2
<1>8. LInv'
  <2>1. CASE StillThere(p, op)
    <3> DEFINE o == Follow(op.kind, p, op.q, a.version, a.cand)
    <3>1. refs' = Persisted(refs, op.q, a.version, a.cand) /\ op' = o
      BY <1>1, <2>1
    <3>2. op.kind = "review" /\ ActiveQuestion(p) = op.q /\ HasCandidate(p) => p.cand.text = a.cand.text
      BY <1>7, <2>1
    <3>3. Fitting(o, manifest) /\ Timely(o, p)
      BY <1>0, <1>1, <1>2, <1>4, <1>5, <3>2, FollowSound
    <3>4. Fitting(op', manifest) /\ Timely(op', p)
      BY <3>1, <3>3
    <3>5. SoundRefs(refs', manifest)
      BY <1>0, <1>2, <3>1, Remembers
    <3> QED
      BY <1>1, <1>3, <1>4, <3>4, <3>5, LateStep
  <2>2. CASE ~StillThere(p, op)
    BY <1>0, <1>1, <1>3, <1>4, <2>2, NothingLate, LateStep
  <2> QED
    BY <2>1, <2>2
<1>9. ASSUME NEW q \in QuestionIds, page.drafts[q].rev > op.rev
      PROVE  p.drafts[q].text = page.drafts[q].text
  <2>1. CASE q # op.q
    BY <1>4, <2>1
  <2>2. CASE q = op.q
    <3>1. d.rev \in Nat /\ d.rev # op.rev /\ d # NoDraft
      BY <1>0, <1>3, <1>6, <1>9, <2>2 DEF SoundPage, SoundDraft
    <3>2. ~current
      BY <1>3, <3>1 DEF IsCurrentDraft
    <3> QED
      BY <1>4, <2>2, <3>1, <3>2
  <2> QED
    BY <2>1, <2>2
<1> QED
  BY <1>1, <1>8, <1>9

\* The page takes an answer in.
LEMMA LateTake ==
  ASSUME PInv, LInv, Take
  PROVE  LInv'
<1>0. /\ DOMAIN page = PageFields /\ SoundPage(page, manifest) /\ Numbered(manifest)
      /\ SoundRefs(refs, manifest) /\ NoPersisted.cand = NoCandidate /\ Known(manifest, NoCandidate)
  BY LateFacts
<1>1. UNCHANGED <<manifest, poll>> /\ op # NoOp /\ Loaded(page)
  BY LoadedFacts DEF Take, TakeFailure, TakePersisted, TakeSelected, TakeRephrase, TakeReview,
         TakeConfirmed, TakeRevision, TakeExport
<1>2. CASE TakeFailure
  <2>1. /\ page' \in {RephraseFailed(page), ConfirmFailed(page), ExportFailed(page, 0),
                      RequestFailed(page)}
        /\ op' = NoOp /\ refs' = refs
    BY <1>2 DEF TakeFailure, FailedEvent, Send
  <2>2. Quiet(page, page')
    BY <1>0, <2>1, QuietEvents, QuietExports
  <2> QED
    BY <1>0, <1>1, <2>1, <2>2, StudentStep
<1>3. CASE TakeSelected
  <2> DEFINE a == op.ans
             any == -1
             p == CandidatePersisted(page, a.version, a.cand, a.cand.q, any, any)
             o == [Follow("review", p, op.q, a.version, a.cand) EXCEPT !.kind = "select"]
  <2>1. /\ op.kind = "select" /\ Answers(op) /\ page' = p /\ op' = o
        /\ refs' = Persisted(refs, op.q, a.version, a.cand)
    BY <1>3 DEF TakeSelected, Send, Answers
  <2>2. Known(manifest, a.cand)
    BY <1>1, <2>1, AnswerIsAbout
  <2> HIDE DEF a
  <2>3. SoundPage(p, manifest) /\ p.questions = page.questions
    <3>1. any = -1
      OBVIOUS
    <3> HIDE DEF any
    <3> QED
      BY <1>0, <2>2, <3>1, CandidateTaken, SMTT(30)
  <2> HIDE DEF p
  <2>4. Loaded(p)
    BY <1>1, <2>3 DEF Loaded
  <2>5. Fitting(o, manifest) /\ Timely(o, p)
    BY <1>0, <2>2, <2>3, <2>4, FollowSound
  <2>6. SoundRefs(refs', manifest)
    BY <1>0, <2>1, <2>2, Remembers
  <2> QED
    BY <1>1, <2>1, <2>3, <2>5, <2>6, LateStep
<1>4. CASE TakeRephrase
  <2>1. /\ op.kind = "rephrase" /\ Answers(op) /\ op' = NoOp
        /\ \/ page' = page /\ refs' = refs
           \/ /\ page' = RephraseReady(page, op.ans.cand, op.ans.suggestion, op.ans.version)
              /\ refs' = [refs EXCEPT !.persisted = [aver |-> op.ans.version, cand |-> op.req.cand]]
    BY <1>4 DEF TakeRephrase, Send, Answers
  <2>2. Known(manifest, op.ans.cand) /\ Known(manifest, op.req.cand)
    BY <1>1, <2>1, AnswerIsAbout
  <2>3. SoundPage(page', manifest)
    BY <1>0, <2>1, <2>2, AnswersTaken
  <2>4. SoundRefs(refs', manifest)
    BY <1>0, <2>1, <2>2, Remembers
  <2> QED
    BY <1>1, <2>1, <2>3, <2>4, NothingLate, LateStep
<1>5. CASE TakeReview
  <2>1. /\ op.kind \in {"review", "select"} /\ Answers(op) /\ op' = NoOp
        /\ \/ page' = page /\ refs' = refs
           \/ /\ page' = ReviewReady(page, op.ans.cand, op.ans.review, op.ans.version)
              /\ refs' = [refs EXCEPT !.persisted = [aver |-> op.ans.version, cand |-> op.ans.cand]]
    BY <1>5 DEF TakeReview, Send, Answers
  <2>2. Known(manifest, op.ans.cand)
    BY <1>1, <2>1, AnswerIsAbout
  <2>3. SoundPage(page', manifest)
    BY <1>0, <2>1, <2>2, AnswersTaken
  <2>4. SoundRefs(refs', manifest)
    BY <1>0, <2>1, <2>2, Remembers
  <2> QED
    BY <1>1, <2>1, <2>3, <2>4, NothingLate, LateStep
<1>6. CASE TakeConfirmed
  <2>1. /\ page' = ConfirmSucceeded(page, op.ans.answer, op.ans.version) /\ op' = NoOp
        /\ refs' = [NoRefs EXCEPT !.pollRetry = refs.pollRetry]
    BY <1>6 DEF TakeConfirmed, Send
  <2>2. Quiet(page, page')
    BY <1>0, <2>1, QuietEvents
  <2>3. SoundRefs(refs', manifest)
    BY <1>0, <2>1 DEF SoundRefs, NoRefs, RefFields
  <2> QED
    BY <1>1, <2>1, <2>2, <2>3, StudentStep
<1>7. CASE TakeRevision
  <2> DEFINE s == [q |-> op.q, ver |-> op.ans.prior]
  <2>1. /\ page' = RevisionReady(page, op.q, op.ans.seed, op.ans.version) /\ op' = NoOp
        /\ refs' = [refs EXCEPT !.persisted = NoPersisted, !.source = s]
    BY <1>7 DEF TakeRevision, Send
  <2> HIDE DEF s
  <2>2. SoundPage(page', manifest)
    BY <1>0, <2>1, AnswersTaken
  <2>3. SoundRefs(refs', manifest)
    BY <1>0, <2>1 DEF SoundRefs, RefFields
  <2> QED
    BY <1>1, <2>1, <2>2, <2>3, NothingLate, LateStep
<1>8. CASE TakeExport
  <2>1. /\ \E v : page' \in {ExportSucceeded(page, v, v), ExportFailed(page, v), ExportPending(page, v)}
        /\ op' = NoOp /\ \E t : refs' = [refs EXCEPT !.attempt = t]
    BY <1>8 DEF TakeExport, Send
  <2>2. Quiet(page, page')
    BY <1>0, <2>1, QuietExports
  <2>3. SoundRefs(refs', manifest)
    BY <1>0, <2>1 DEF SoundRefs, RefFields
  <2> QED
    BY <1>1, <2>1, <2>2, <2>3, StudentStep
<1> QED
  BY <1>2, <1>3, <1>4, <1>5, <1>6, <1>7, <1>8, LatePersisted DEF Take

\* The assignment is loaded, or an export is followed.
LEMMA LateLoad ==
  ASSUME PInv, LInv, Load
  PROVE  LInv'
<1>0. /\ DOMAIN page = PageFields /\ SoundPage(page, manifest) /\ Numbered(manifest)
      /\ SoundRefs(refs, manifest) /\ SoundPoll(poll, page, manifest)
      /\ Timely(op, page) /\ Fitting(op, manifest)
      /\ NoPersisted.cand = NoCandidate /\ Known(manifest, NoCandidate)
  BY LateFacts DEF LInv
<1>1. UNCHANGED <<manifest, op>>
  BY DEF Load, LoadAssignment, LoadSetup, LoadFails, PollExport, PollFails
<1>2. CASE LoadAssignment
  <2> DEFINE i == RestoredIndex(manifest)
             c == MapCandidate(Order[i], manifest.questions[Order[i]].current)
             w == Restored(manifest)
  <2>1. poll.kind = "assignment" /\ poll' = w /\ UNCHANGED <<page, refs>>
    BY <1>2 DEF LoadAssignment
  <2>2. w.cand \in {c, NoCandidate}
    BY DEF Restored
  <2>3. Known(manifest, c)
    BY <1>0, CurrentKnown
  <2> HIDE DEF w, c
  <2>4. SoundPoll(w, page, manifest)
    BY <1>0, <2>1, <2>2, <2>3 DEF SoundPoll
  <2> QED
    BY <1>0, <1>1, <2>1, <2>4 DEF LInv
<1>3. CASE LoadSetup
  <2> DEFINE n == RestoredPage(poll, manifest.version, shown.mode)
             x == [aver |-> manifest.version, cand |-> poll.cand]
             y == IF poll.cand = NoCandidate THEN NoPersisted ELSE x
  <2>1. /\ poll.kind = "setup" /\ page' = n /\ refs' = [refs EXCEPT !.persisted = y]
        /\ poll' = NoOp \/ poll' = Following(shown.id)
    BY <1>3 DEF LoadSetup, Send
  <2>2. page.at = "checking" /\ Known(manifest, poll.cand) /\ op = NoOp
    BY <1>0, <2>1, LoadedFacts DEF SoundPoll
  <2>3. SoundPage(n, manifest)
    BY <1>0, <2>2, LoadedSound
  <2>4. y.cand \in {NoCandidate, poll.cand}
    BY <1>0
  <2> HIDE DEF n, y
  <2>5. SoundRefs(refs', manifest)
    BY <1>0, <2>1, <2>2, <2>4 DEF SoundRefs, RefFields
  <2>6. SoundPoll(poll', page', manifest)
    BY <2>1 DEF SoundPoll, NoOp, Following
  <2> QED
    BY <1>0, <1>1, <2>1, <2>2, <2>3, <2>5, <2>6, NothingLate DEF LInv
<1>4. ASSUME Quiet(page, page'), SoundRefs(refs', manifest),
             poll'.kind \notin {"assignment", "setup"}
      PROVE  LInv'
  <2>1. SoundPage(page', manifest) /\ Timely(op, page')
    BY <1>0, <1>4, QuietKeeps
  <2>2. SoundPoll(poll', page', manifest)
    BY <1>4 DEF SoundPoll
  <2> QED
    BY <1>0, <1>1, <1>4, <2>1, <2>2 DEF LInv
<1>5. CASE LoadFails
  <2>1. page' = AnalysisFailed(page) /\ refs' = refs /\ poll' = NoOp
    BY <1>5 DEF LoadFails, Send
  <2> QED
    BY <1>0, <1>4, <2>1, QuietEvents DEF NoOp
<1>6. CASE PollExport \/ PollFails
  <2>1. PICK id, v : \/ page' = ExportRestored(page, id, v)
                     \/ page' = ExportFailed(page, v)
                     \/ page' = ExportPending(page, v)
    BY <1>6 DEF PollExport, PollFails, Send
  <2>2. Quiet(page, page')
    BY <1>0, <2>1, QuietExports
  <2>3. poll.kind = "export" /\ (poll' = NoOp \/ poll' = poll)
    BY <1>6 DEF PollExport, PollFails
  <2>4. poll'.kind \notin {"assignment", "setup"}
    BY <2>3 DEF NoOp
  <2>5. \/ refs' = [refs EXCEPT !.pollRetry = TRUE]
        \/ \E t : refs' = [refs EXCEPT !.pollRetry = FALSE, !.attempt = t]
    BY <1>6 DEF PollExport, PollFails
  <2>6. SoundRefs(refs', manifest)
    BY <1>0, <2>5 DEF SoundRefs, RefFields
  <2> QED
    BY <1>4, <2>2, <2>4, <2>6
<1> QED
  BY <1>2, <1>3, <1>5, <1>6 DEF Load

\* The effects after a render, and those of a route.
LEMMA LateEffects ==
  ASSUME PInv, LInv, RunEffects
  PROVE  LInv'
<1> DEFINE req == [AboutCandidate("confirm", page.review.q, page.review.aver, page.cand)
                     EXCEPT !.tok = page.review.tok]
           o == Await("confirm", "main", page, page.review.q, page.cand.text, req)
<1>1. /\ UNCHANGED <<manifest, page, refs, poll>>
      /\ op' = op \/ (page.at = "confirming" /\ op' = o)
  BY DEF RunEffects
<1> HIDE DEF req
<1>2. o.kind = "confirm"
  BY AwaitFields
<1> HIDE DEF o
<1>3. page.at = "confirming" => Fitting(o, manifest) /\ Timely(o, page)
  BY <1>2, PlainSound DEF LInv, SoundPage
<1> QED
  BY <1>1, <1>3 DEF LInv

\* A route is entered.
LEMMA LateRoute ==
  ASSUME PInv, LInv, EnterRoute
  PROVE  LInv'
<1>0. /\ DOMAIN page = PageFields /\ SoundPage(page, manifest) /\ Numbered(manifest)
      /\ SoundRefs(refs, manifest) /\ Timely(op, page) /\ Fitting(op, manifest)
      /\ NoPersisted.cand = NoCandidate /\ Known(manifest, NoCandidate)
  BY LateFacts DEF LInv
<1>1. UNCHANGED <<manifest, op>>
  BY DEF EnterRoute
<1>2. \E b : \/ refs' = [refs EXCEPT !.pollRetry = b, !.persisted = refs.persisted]
             \/ refs' = [refs EXCEPT !.pollRetry = b, !.persisted = NoPersisted]
  BY <1>0 DEF EnterRoute, SoundRefs, RefFields
<1>3. SoundRefs(refs', manifest)
  BY <1>0, <1>2 DEF SoundRefs, RefFields
<1>4. CASE ~Loaded(page)
  <2>1. page' = StartAnalysis(Reset(page)) /\ poll' = Loading
    BY <1>4 DEF EnterRoute, Send
  <2>2. SoundPage(page', manifest) /\ page'.at = "checking"
    BY <1>0, <2>1, NewPageSound
  <2>3. SoundPoll(poll', page', manifest)
    BY <2>1, <2>2 DEF SoundPoll, Loading
  <2>4. op = NoOp
    BY <1>4, LoadedFacts
  <2> QED
    BY <1>0, <1>1, <1>3, <2>2, <2>3, <2>4, NothingLate DEF LInv
<1>5. CASE Loaded(page)
  <2>1. /\ page' \in {OpenReviewRoute(page), OpenAssignmentRoute(page), ExportPending(page, 0), page}
        /\ poll' = NoOp \/ \E v : poll' = Following(v)
    BY <1>5 DEF EnterRoute, Send
  <2>2. Quiet(page, page')
    BY <1>0, <2>1, QuietEvents, QuietExports
  <2>3. SoundPage(page', manifest) /\ Timely(op, page')
    BY <1>0, <2>2, QuietKeeps
  <2>4. SoundPoll(poll', page', manifest)
    BY <2>1 DEF SoundPoll, NoOp, Following
  <2> QED
    BY <1>0, <1>1, <1>3, <2>3, <2>4 DEF LInv
<1> QED
  BY <1>4, <1>5

\* At the start nothing is numbered and nothing is under way.
LEMMA InitLInv == Init => LInv
<1> SUFFICES ASSUME Init PROVE LInv
  OBVIOUS
<1>1. manifest.questions = [q \in QuestionIds |-> S!NewQuestion]
  BY DEF Init, S!AcceptQuestionSetup, S!FinishAnalysis, S!NewManifest, S!WithQuestions,
         S!Bump, S!Fresh
<1>2. S!NewQuestion.seq = 0 /\ S!NewQuestion.current.ver = 0
  BY DEF S!NewQuestion, S!NoCandidate
<1>3. Numbered(manifest)
  BY <1>1, <1>2 DEF Numbered
<1>4. SoundPage(page, manifest)
  BY <1>3, NewPageSound DEF Init
<1>5. SoundRefs(refs, manifest)
  BY <1>3, NothingKnown DEF Init, SoundRefs, NoRefs, NoPersisted, RefFields
<1>6. SoundPoll(poll, page, manifest)
  BY DEF Init, SoundPoll, NoOp
<1> QED
  BY <1>3, <1>4, <1>5, <1>6, NothingLate DEF Init, LInv

\* Candidates keep their number and wording, and what the page read before an
\* await stays a lower bound for what it has after it.
THEOREM LateAnswers == Spec => [](PInv /\ LInv)
<1>1. PInv /\ LInv /\ [Next]_vars => LInv'
  <2> SUFFICES ASSUME PInv, LInv, [Next]_vars PROVE LInv'
    OBVIOUS
  <2>1. CASE UNCHANGED vars
    BY <2>1 DEF LInv, vars
  <2>2. CASE \E v \in Versions : FinishExport(v)
    <3>1. UNCHANGED <<manifest, page, op, refs, poll>>
      BY <2>2 DEF FinishExport
    <3> QED
      BY <3>1 DEF LInv
  <2> QED
    BY <2>1, <2>2, LateWrite, LateMove, LateServer, LateTake, LateLoad, LateEffects, LateRoute,
       LateOrphan DEF Next
<1> QED
  BY <1>1, InitLInv, Invariance, PTL DEF Spec

\* Only what takes an answer in, and a reload, ends a mutation that is under way or
\* turns it into the next; all else that touches it leaves the page as it is.
LEMMA MutationEnds ==
  ASSUME [Next]_vars, op # NoOp, op' # op
  PROVE  \/ Take
         \/ page' = InitialContext
         \/ page' = page
<1>1. ASSUME Write PROVE FALSE
  BY <1>1 DEF Write, Type, Dictate, AskRephrase, AskReview, KeepOriginal, UseSuggestion, Change,
              PressConfirm, Idle
<1>2. CASE Move
  BY <1>2 DEF Move, Continue, OpenReview, TypeInstead, ReviewAnswersAfterFailure, PressExport,
              Edit, Answer, VoiceNavigate, Browse, Reload, Idle
<1>3. CASE Server \/ ServeOrphan \/ RunEffects
  BY <1>3 DEF Server, Serve, ServeExport, LoseRequest, ServeOrphan, RunEffects
<1>4. ASSUME Load \/ EnterRoute \/ (\E v \in Versions : FinishExport(v)) \/ UNCHANGED vars
      PROVE  FALSE
  BY <1>4 DEF Load, LoadAssignment, LoadSetup, LoadFails, PollExport, PollFails, EnterRoute,
              FinishExport, vars
<1> QED
  BY <1>1, <1>2, <1>3, <1>4 DEF Next

\* What taking in an answer to a rephrase or a review does to the page.
LEMMA TakesIn ==
  ASSUME PInv, LInv, Take, op.kind \in {"rephrase", "review"}
  PROVE  \/ TakePersisted
         \/ /\ page'.drafts = page.drafts
            /\ page'.review \notin {page.review, NoReview} =>
                 /\ op.kind = "review" => page'.review.q = ActiveQuestion(page)
                 /\ op.kind = "review" /\ HasCandidate(page) => page'.review.text = page.cand.text
<1>0. DOMAIN page = PageFields /\ op # NoOp
  BY LateFacts DEF Take, TakeFailure, TakePersisted, TakeSelected, TakeRephrase, TakeReview,
         TakeConfirmed, TakeRevision, TakeExport
<1>1. CASE TakeFailure
  <2>1. page' \in {RephraseFailed(page), RequestFailed(page)}
    BY <1>1 DEF TakeFailure, FailedEvent, Send
  <2> QED
    BY <1>0, <2>1 DEF RephraseFailed, RequestFailed, PageFields
<1>2. CASE TakeRephrase
  <2>1. \/ page' = page
        \/ page' = RephraseReady(page, op.ans.cand, op.ans.suggestion, op.ans.version)
    BY <1>2 DEF TakeRephrase, Send
  <2> QED
    BY <1>0, <2>1 DEF RephraseReady, PageFields
<1>3. CASE TakeReview
  <2> DEFINE n == ReviewReady(page, op.ans.cand, op.ans.review, op.ans.version)
  <2>1. /\ op.kind = "review" /\ op.step = "main" /\ Answers(op)
        /\ page' = page \/ (StillThere(page, op) /\ page' = n)
    BY <1>3 DEF TakeReview, Send, Answers
  <2>2. n.drafts = page.drafts /\ n.review = op.ans.review
    BY <1>0 DEF ReviewReady, Unreviewed, PageFields
  <2> HIDE DEF n
  <2>3. /\ op.q \in QuestionIds
        /\ op.ans.review.q = op.q /\ op.ans.review.text = op.req.cand.text
    BY <1>0, <2>1, AnswerIsAbout DEF Reviewing
  <2>4. StillThere(page, op) => Undisturbed(page, op)
    BY DEF StillThere, Undisturbed
  <2>5. StillThere(page, op) /\ HasCandidate(page) => page.cand.text = op.req.cand.text
    BY <1>0, <2>1, <2>3, <2>4 DEF LInv, Timely, Writing, Wanted
  <2> QED
    BY <2>1, <2>2, <2>3, <2>5 DEF StillThere
<1> QED
  BY <1>1, <1>2, <1>3 DEF Take, TakeSelected, TakeConfirmed, TakeRevision, TakeExport

\* Storing a candidate, or any other answer to a rephrase or a review, never
\* replaces words the student wrote while it was on its way (CANDIDATE_PERSISTED in
\* workspaceMachine.ts).
THEOREM WordsAreKept == Spec => TypedWordsKept
<1>1. PInv /\ LInv /\ [Next]_vars =>
        [\A q \in QuestionIds :
           (/\ op # NoOp /\ op.kind \in {"rephrase", "review"} /\ op' # op
            /\ Loaded(page') /\ page.drafts[q].rev > op.rev)
             => page'.drafts[q].text = page.drafts[q].text]_vars
  <2> SUFFICES ASSUME PInv, LInv, [Next]_vars, NEW q \in QuestionIds,
                      op # NoOp, op.kind \in {"rephrase", "review"}, op' # op,
                      Loaded(page'), page.drafts[q].rev > op.rev
               PROVE  page'.drafts[q].text = page.drafts[q].text
    OBVIOUS
  <2>1. page' # InitialContext
    BY DEF Loaded, InitialContext
  <2>2. Take \/ page' = page
    BY <2>1, MutationEnds
  <2> QED
    BY <2>2, TakesIn, LatePersisted
<1> QED
  BY <1>1, LateAnswers, PTL DEF Spec, TypedWordsKept

\* A review asked for from the writing of an answer opens only for the question
\* that is still active and on the wording that is on the page (requestReview in
\* WorkspaceShell.tsx, after its second await).
THEOREM ReviewsAreTimely == Spec => ReviewShowsLatestWording
<1>1. PInv /\ LInv /\ [Next]_vars =>
        [(op # NoOp /\ op.kind = "review" /\ op' # op /\ page'.review # page.review
          /\ page'.review # NoReview)
           => /\ page'.review.q = ActiveQuestion(page)
              /\ HasCandidate(page) => page'.review.text = page.cand.text]_vars
  <2> SUFFICES ASSUME PInv, LInv, [Next]_vars,
                      op # NoOp, op.kind = "review", op' # op,
                      page'.review # page.review, page'.review # NoReview
               PROVE  /\ page'.review.q = ActiveQuestion(page)
                      /\ HasCandidate(page) => page'.review.text = page.cand.text
    OBVIOUS
  <2>1. page' # InitialContext
    BY DEF InitialContext
  <2>2. Take
    BY <2>1, MutationEnds
  <2>3. ASSUME TakePersisted PROVE FALSE
    <3>1. /\ DOMAIN page = PageFields /\ op.ans.version \in 0..manifest.version
          /\ page' = CandidatePersisted(page, op.ans.version, op.ans.cand, op.q, op.rev, op.epoch)
      BY <2>3, PageFacts, AnswerFacts DEF TakePersisted, Send
    <3>2. Turns(page, page', manifest)
      BY <3>1, AnswerTurns
    <3> QED
      BY <3>2 DEF Turns
  <2> QED
    BY <2>2, <2>3, TakesIn
<1> QED
  BY <1>1, LateAnswers, PTL DEF Spec, ReviewShowsLatestWording

-----------------------------------------------------------------------------
(* The picture of the worksheet.                                           *)

\* The exports there are, and those the page, its poll and its routes name, are of
\* versions the server has reached.
Reached(v) == v \in 0..manifest.version

ExportsReached ==
  /\ DOMAIN exports = Versions
  /\ \A v \in Versions : exports[v] # "none" => Reached(v)
  /\ Reached(page.result) /\ Reached(route.id) /\ Reached(shown.id)
  /\ poll.kind = "export" => Reached(poll.id)

\* The answers the page shows as added were confirmed by version v.
HoldsAnswers(v) ==
  \A q \in Answered(page) :
    \E r \in manifest.receipts : r.version <= v /\ MapAnswer(r.answer) = page.confirmed[q]

\* The picture is fetched for the page as it is, and a completed copy is neither
\* older than the page's export, nor than one the page is about to hear of.
CopyIsGood ==
  /\ DOMAIN crop = {"url", "at", "context"}
  /\ crop.url = ContextUrl(page)
  /\ crop.context.source # Original =>
       /\ crop.url.preview
       /\ Reached(crop.context.source)
       /\ page.result <= crop.context.source
       /\ poll.kind = "export" => poll.id <= crop.context.source
       /\ HoldsAnswers(crop.context.source)

\* An event that brings no export, and no answer to a page that shows one.
Keeps(p, n) ==
  /\ n.result \in {p.result, 0}
  /\ n.confirmed = p.confirmed \/ n.at # "exportComplete"

\* What a step does to a page that shows its export before and after.
Steady ==
  /\ Later(manifest, manifest')
  /\ page.at = "exportComplete" /\ page'.at = "exportComplete" =>
       /\ page'.confirmed = page.confirmed
       /\ page'.result \in {page.result, 0} \/ (poll.kind = "export" /\ page'.result = poll.id)
  /\ poll'.kind = "export" => poll' = poll \/ page'.at # "exportComplete"

\* The events of writing and moving.
LEMMA StudentKeeps ==
  ASSUME NEW p, DOMAIN p = PageFields
  PROVE  /\ Keeps(p, p) /\ Keeps(p, InitialContext)
         /\ \A text : Keeps(p, CandidateChanged(p, text)) /\ Keeps(p, VoiceCaptured(p, text))
         /\ Keeps(p, RequestRephrase(p)) /\ Keeps(p, ChangeAnswer(p)) /\ Keeps(p, Confirm(p))
         /\ \A q : Keeps(p, GoToQuestion(p, q))
         /\ Keeps(p, ContinueToNext(p)) /\ Keeps(p, ContinueByTyping(p))
         /\ Keeps(p, OpenWorksheetReview(p)) /\ Keeps(p, ReviewAnswers(p))
         /\ Keeps(p, OpenReviewRoute(p)) /\ Keeps(p, OpenAssignmentRoute(p))
<1>1. Keeps(p, p) /\ Keeps(p, InitialContext)
  BY DEF Keeps, InitialContext
<1>2. ASSUME NEW text PROVE Keeps(p, CandidateChanged(p, text)) /\ Keeps(p, VoiceCaptured(p, text))
  BY DEF CandidateChanged, VoiceCaptured, WriteCandidate, Unreviewed, Keeps, PageFields
<1>3. Keeps(p, RequestRephrase(p)) /\ Keeps(p, ChangeAnswer(p)) /\ Keeps(p, Confirm(p))
  BY DEF RequestRephrase, ChangeAnswer, Confirm, Keeps, PageFields
<1>4. ASSUME NEW q PROVE Keeps(p, GoToQuestion(p, q))
  BY DEF GoToQuestion, MoveTo, Unreviewed, Keeps, PageFields
<1>5. Keeps(p, ContinueToNext(p)) /\ Keeps(p, ContinueByTyping(p))
  BY DEF ContinueToNext, ContinueByTyping, MoveTo, Unreviewed, Keeps, PageFields
<1>6. /\ Keeps(p, OpenWorksheetReview(p)) /\ Keeps(p, ReviewAnswers(p))
      /\ Keeps(p, OpenReviewRoute(p)) /\ Keeps(p, OpenAssignmentRoute(p))
  BY DEF OpenWorksheetReview, ReviewAnswers, OpenReviewRoute, OpenAssignmentRoute, Unreviewed, Keeps,
         PageFields
<1> QED
  BY <1>1, <1>2, <1>3, <1>4, <1>5, <1>6

\* The events of answers and exports.
LEMMA AnswerKeeps ==
  ASSUME NEW p, DOMAIN p = PageFields
  PROVE  /\ Keeps(p, RephraseFailed(p)) /\ Keeps(p, ConfirmFailed(p))
         /\ Keeps(p, RequestFailed(p)) /\ Keeps(p, AnalysisFailed(p))
         /\ \A v, c, q, rev, epoch : Keeps(p, CandidatePersisted(p, v, c, q, rev, epoch))
         /\ \A o, s, v : Keeps(p, RephraseReady(p, o, s, v))
         /\ \A c, r, v : Keeps(p, ReviewReady(p, c, r, v))
         /\ \A a, v : Keeps(p, ConfirmSucceeded(p, a, v))
         /\ \A q, seed, v : Keeps(p, RevisionReady(p, q, seed, v))
         /\ Keeps(p, CreateExport(p)) /\ Keeps(p, RetryExport(p))
         /\ \A v : Keeps(p, ExportFailed(p, v)) /\ Keeps(p, ExportPending(p, v))
<1>1. /\ Keeps(p, RephraseFailed(p)) /\ Keeps(p, ConfirmFailed(p))
      /\ Keeps(p, RequestFailed(p)) /\ Keeps(p, AnalysisFailed(p))
  BY DEF RephraseFailed, ConfirmFailed, RequestFailed, AnalysisFailed, Keeps, PageFields
<1>2. ASSUME NEW v, NEW c, NEW q, NEW rev, NEW epoch
      PROVE  Keeps(p, CandidatePersisted(p, v, c, q, rev, epoch))
  BY DEF CandidatePersisted, Keeps, PageFields
<1>3. ASSUME NEW o, NEW s, NEW v PROVE Keeps(p, RephraseReady(p, o, s, v))
  BY DEF RephraseReady, Keeps, PageFields
<1>4. ASSUME NEW c, NEW r, NEW v PROVE Keeps(p, ReviewReady(p, c, r, v))
  BY DEF ReviewReady, Unreviewed, Keeps, PageFields
<1>5. ASSUME NEW a, NEW v PROVE Keeps(p, ConfirmSucceeded(p, a, v))
  BY DEF ConfirmSucceeded, Keeps, PageFields
<1>6. ASSUME NEW q, NEW seed, NEW v PROVE Keeps(p, RevisionReady(p, q, seed, v))
  BY DEF RevisionReady, Unreviewed, Keeps, PageFields
<1>7. /\ Keeps(p, CreateExport(p)) /\ Keeps(p, RetryExport(p))
      /\ \A v : Keeps(p, ExportFailed(p, v)) /\ Keeps(p, ExportPending(p, v))
  BY DEF CreateExport, RetryExport, ExportFailed, ExportPending, Keeps, PageFields
<1> QED
  BY <1>1, <1>2, <1>3, <1>4, <1>5, <1>6, <1>7

\* A page that is loaded does not show an export yet.
LEMMA LoadingKeeps ==
  ASSUME DOMAIN page = PageFields, page.at = "checking", NEW got, NEW v, NEW mode
  PROVE  /\ Keeps(page, RestoredPage(got, v, mode))
         /\ RestoredPage(got, v, mode).at # "exportComplete"
<1> DEFINE n == AnalysisReady(page, v, Order, TRUE, got.confirmed, got.active, got.cand)
<1>1. DOMAIN n = PageFields /\ n.result = page.result /\ n.at = "questionCheck"
  BY DEF AnalysisReady, PageFields
<1> HIDE DEF n
<1>2. /\ QuestionSetupAccepted(n, v, Order, TRUE).result = n.result
      /\ QuestionSetupAccepted(n, v, Order, TRUE).at = "conversation"
  BY <1>1 DEF QuestionSetupAccepted, ApplyQuestionSetup, InSetup, PageFields
<1>3. OpenReviewRoute(n).result = n.result /\ OpenReviewRoute(n).at = "worksheetReview"
  BY <1>1 DEF OpenReviewRoute, PageFields
<1>4. ExportPending(n, 0).result = 0 /\ ExportPending(n, 0).at = "exporting"
  BY <1>1 DEF ExportPending, PageFields
<1>5. RestoredPage(got, v, mode) \in {QuestionSetupAccepted(n, v, Order, TRUE), OpenReviewRoute(n),
                                     ExportPending(n, 0)}
  BY DEF RestoredPage, n
<1> QED
  BY <1>1, <1>2, <1>3, <1>4, <1>5 DEF Keeps

\* A step of the page that brings no export.
LEMMA KeptSteady ==
  ASSUME PInv, ExportsReached, UNCHANGED <<manifest, exports>>, Keeps(page, page'),
         poll' = poll \/ poll'.kind # "export",
         route' = route \/ Reached(route'.id), shown' \in {shown, NoRoute}
  PROVE  ExportsReached' /\ Steady
<1>1. Later(manifest, manifest) /\ manifest.version \in Nat /\ NoRoute.id = 0
  BY LaterReflexive, PageFacts DEF PInv, NoRoute
<1>2. Steady
  BY <1>1 DEF Steady, Keeps
<1>3. ExportsReached'
  BY <1>1 DEF ExportsReached, Reached, Keeps
<1> QED
  BY <1>2, <1>3

\* Writing keeps what the page knows of its exports.
LEMMA WriteSteady ==
  ASSUME PInv, ExportsReached, Write
  PROVE  ExportsReached' /\ Steady
<1>1. UNCHANGED <<manifest, exports, poll, route, shown>>
  BY DEF Write, Type, Dictate, AskRephrase, AskReview, KeepOriginal, UseSuggestion, Change, PressConfirm
<1>2. \/ page' \in {RequestRephrase(page), ChangeAnswer(page), Confirm(page), page}
      \/ \E text : page' \in {CandidateChanged(page, text), VoiceCaptured(page, text)}
  BY DEF Write, Type, Dictate, AskRephrase, AskReview, KeepOriginal, UseSuggestion, Change, PressConfirm,
         Send
<1>3. Keeps(page, page')
  BY <1>2, PageFacts, StudentKeeps
<1> QED
  BY <1>1, <1>3, KeptSteady

\* Moving: a route is one of the worksheet or of an export there is.
LEMMA MoveSteady ==
  ASSUME PInv, ExportsReached, Move
  PROVE  ExportsReached' /\ Steady
<1>1. UNCHANGED <<manifest, exports>> /\ poll' \in {poll, NoOp} /\ shown' \in {shown, NoRoute}
  BY DEF Move, Continue, OpenReview, TypeInstead, ReviewAnswersAfterFailure, PressExport, Edit, Answer,
         VoiceNavigate, Browse, Reload
<1>2. \/ page' \in {ContinueToNext(page), OpenWorksheetReview(page), ContinueByTyping(page),
                    ReviewAnswers(page), ExportPending(page, 0), RetryExport(page),
                    CreateExport(page), InitialContext, page}
      \/ \E q : page' = GoToQuestion(page, q)
  BY DEF Move, Continue, OpenReview, TypeInstead, ReviewAnswersAfterFailure, PressExport, Edit, Answer,
         VoiceNavigate, Browse, Reload, Send
<1>3. Keeps(page, page')
  BY <1>2, PageFacts, StudentKeeps, AnswerKeeps
<1>4. route' \in {route, Question, Review} \/ \E v \in Exported : route' = Export(v)
  BY DEF Move, Continue, OpenReview, TypeInstead, ReviewAnswersAfterFailure, PressExport, Edit, Answer,
         VoiceNavigate, Browse, Reload
<1>5. route' = route \/ Reached(route'.id)
  BY <1>4, PageFacts DEF Question, Review, Export, Exported, ExportsReached, Reached
<1> QED
  BY <1>1, <1>3, <1>5, KeptSteady DEF NoOp

\* The server's answers come of versions it has, and exports too.
LEMMA ServerSteady ==
  ASSUME PInv, ExportsReached, Server \/ ServeOrphan \/ \E v \in Versions : FinishExport(v)
  PROVE  ExportsReached' /\ Steady
<1>1. UNCHANGED <<page, poll, route, shown>>
  BY DEF Server, Serve, ServeExport, LoseRequest, ServeOrphan, FinishExport
<1>2. Later(manifest, manifest')
  <2>1. CASE Serve
    <3>1. PICK h \in Replies(manifest, op.req) : manifest' = h.m
      BY <2>1 DEF Serve
    <3>2. GoodRequest(op.req, manifest, approved)
      BY <2>1 DEF Serve, Waiting, PInv, GoodOp
    <3> QED
      BY <3>1, <3>2, RequestServed DEF PInv, Handles
  <2>2. CASE ServeOrphan
    <3>1. PICK h \in Replies(manifest, orphan) : manifest' = h.m
      BY <2>2 DEF ServeOrphan
    <3>2. GoodRequest(orphan, manifest, approved)
      BY <2>2 DEF ServeOrphan, PInv
    <3> QED
      BY <3>1, <3>2, RequestServed DEF PInv, Handles
  <2>3. CASE ServeExport \/ LoseRequest \/ \E v \in Versions : FinishExport(v)
    BY <2>3, LaterReflexive DEF ServeExport, LoseRequest, FinishExport, PInv
  <2> QED
    BY <2>1, <2>2, <2>3 DEF Server
<1>3. /\ DOMAIN exports' = Versions
      /\ \A v \in Versions : exports'[v] # "none" => exports[v] # "none" \/ v = manifest.version
  <2>1. \/ exports' = exports
        \/ \E s : exports' = [exports EXCEPT ![manifest.version] = s]
        \/ \E v \in Versions : \E s : exports[v] = "creating" /\ exports' = [exports EXCEPT ![v] = s]
    BY DEF Server, Serve, ServeExport, LoseRequest, ServeOrphan, FinishExport
  <2> QED
    BY <2>1 DEF ExportsReached
<1>4. \A v : Reached(v) => Reached(v)'
  BY <1>2, PageFacts DEF Reached, Later
<1>5. \A v \in Versions : exports'[v] # "none" => Reached(v)'
  BY <1>2, <1>3, <1>4, PageFacts DEF ExportsReached, Reached
<1>6. ExportsReached'
  BY <1>1, <1>2, <1>3, <1>5, PageFacts DEF ExportsReached, Reached, Later
<1> QED
  BY <1>1, <1>2, <1>6 DEF Steady

\* Taking an answer in: only a finished export brings one.
LEMMA TakeSteady ==
  ASSUME PInv, ExportsReached, Take
  PROVE  ExportsReached' /\ Steady
<1>0. UNCHANGED <<manifest, exports, poll, shown>> /\ DOMAIN page = PageFields
  BY PageFacts DEF Take, TakeFailure, TakePersisted, TakeSelected, TakeRephrase, TakeReview,
         TakeConfirmed, TakeRevision, TakeExport
<1>1. CASE TakeFailure \/ TakePersisted \/ TakeSelected \/ TakeRephrase \/ TakeReview \/ TakeConfirmed
           \/ TakeRevision
  <2>1. \/ page' \in {RephraseFailed(page), ConfirmFailed(page), ExportFailed(page, 0),
                      RequestFailed(page), page}
        \/ \E v, c, q, rev, epoch : page' = CandidatePersisted(page, v, c, q, rev, epoch)
        \/ \E o, s, v : page' = RephraseReady(page, o, s, v)
        \/ \E c, r, v : page' = ReviewReady(page, c, r, v)
        \/ \E a, v : page' = ConfirmSucceeded(page, a, v)
        \/ \E q, seed, v : page' = RevisionReady(page, q, seed, v)
    <3>1. CASE TakeFailure
      BY <3>1 DEF TakeFailure, FailedEvent, Send
    <3>2. CASE TakePersisted \/ TakeSelected
      BY <3>2 DEF TakePersisted, TakeSelected, Send
    <3>3. CASE TakeRephrase \/ TakeReview
      BY <3>3 DEF TakeRephrase, TakeReview, Send
    <3>4. CASE TakeConfirmed \/ TakeRevision
      BY <3>4 DEF TakeConfirmed, TakeRevision, Send
    <3> QED
      BY <1>1, <3>1, <3>2, <3>3, <3>4
  <2>2. Keeps(page, page')
    BY <1>0, <2>1, AnswerKeeps, StudentKeeps
  <2>3. route' \in {route, Question}
    BY <1>1 DEF TakeFailure, TakePersisted, TakeSelected, TakeRephrase, TakeReview, TakeConfirmed,
                TakeRevision
  <2> QED
    BY <1>0, <2>2, <2>3, PageFacts, KeptSteady DEF Question, Reached
<1>2. CASE TakeExport
  <2> DEFINE v == op.ans.version
  <2>1. /\ page' \in {ExportSucceeded(page, v, v), ExportFailed(page, v), ExportPending(page, v)}
        /\ route' \in {route, Export(v)}
    BY <1>2 DEF TakeExport, Send
  <2>2. Reached(v)
    BY <1>2, AnswerFacts DEF TakeExport, Reached
  <2> HIDE DEF v
  <2>3. CASE page' = ExportSucceeded(page, v, v) /\ page.at = "exporting"
    <3>1. page'.result = v
      BY <1>0, <2>3 DEF ExportSucceeded, PageFields
    <3> QED
      BY <1>0, <2>1, <2>2, <2>3, <3>1, LaterReflexive DEF ExportsReached, Steady, Reached, Export, PInv
  <2>4. CASE ~(page' = ExportSucceeded(page, v, v) /\ page.at = "exporting")
    <3>1. Keeps(page, page')
      BY <1>0, <2>1, <2>4, AnswerKeeps, StudentKeeps DEF ExportSucceeded
    <3> QED
      BY <1>0, <2>1, <2>2, <3>1, KeptSteady DEF Export
  <2> QED
    BY <2>3, <2>4
<1> QED
  BY <1>1, <1>2 DEF Take

\* Loading, and following an export.
LEMMA LoadSteady ==
  ASSUME PInv, LInv, ExportsReached, Load
  PROVE  ExportsReached' /\ Steady
<1>0. UNCHANGED <<manifest, exports, route, shown>> /\ DOMAIN page = PageFields
  BY PageFacts DEF Load, LoadAssignment, LoadSetup, LoadFails, PollExport, PollFails
<1>1. CASE LoadAssignment \/ LoadFails \/ PollFails
  <2>1. /\ page' \in {page, AnalysisFailed(page), ExportFailed(page, 0)}
        /\ poll' \in {NoOp, Restored(manifest)}
    BY <1>1 DEF LoadAssignment, LoadFails, PollFails, Send
  <2>2. Keeps(page, page') /\ poll'.kind # "export"
    BY <1>0, <2>1, AnswerKeeps, StudentKeeps DEF NoOp, Restored
  <2> QED
    BY <1>0, <2>2, KeptSteady
<1>2. CASE LoadSetup
  <2>1. /\ poll.kind = "setup" /\ page' = RestoredPage(poll, manifest.version, shown.mode)
        /\ poll' \in {NoOp, Following(shown.id)}
    BY <1>2 DEF LoadSetup, Send
  <2>2. Keeps(page, page') /\ page'.at # "exportComplete"
    BY <1>0, <2>1, LoadingKeeps DEF LInv, SoundPoll
  <2>3. poll'.kind = "export" => Reached(poll'.id)
    BY <2>1 DEF NoOp, Following, ExportsReached
  <2> QED
    BY <1>0, <2>2, <2>3, LaterReflexive, PageFacts DEF Steady, ExportsReached, Keeps, Reached, PInv
<1>3. CASE PollExport
  <2> DEFINE v == manifest.version
  <2>1. /\ poll.kind = "export" /\ poll' \in {poll, NoOp}
        /\ page' \in {ExportRestored(page, poll.id, v), ExportFailed(page, v), ExportPending(page, v)}
    BY <1>3 DEF PollExport, GetExport, Send
  <2>2. CASE page' = ExportRestored(page, poll.id, v)
    <3>1. page'.result = poll.id /\ page'.confirmed = page.confirmed
      BY <1>0, <2>2 DEF ExportRestored, PageFields
    <3> QED
      BY <1>0, <2>1, <3>1, LaterReflexive DEF Steady, ExportsReached, Reached, NoOp, PInv
  <2>3. CASE page' # ExportRestored(page, poll.id, v)
    <3>1. Keeps(page, page')
      BY <1>0, <2>1, <2>3, AnswerKeeps
    <3> QED
      BY <1>0, <2>1, <3>1, KeptSteady DEF NoOp
  <2> QED
    BY <2>2, <2>3
<1> QED
  BY <1>1, <1>2, <1>3 DEF Load

\* Entering a route leaves a page that shows another export.
LEMMA RouteSteady ==
  ASSUME PInv, ExportsReached, EnterRoute
  PROVE  ExportsReached' /\ Steady
<1>0. UNCHANGED <<manifest, exports, route>> /\ shown' = route /\ DOMAIN page = PageFields
  BY PageFacts DEF EnterRoute
<1>1. /\ page' \in {StartAnalysis(Reset(page)), OpenReviewRoute(page), OpenAssignmentRoute(page),
                    ExportPending(page, 0), page}
      /\ \/ poll' \in {Loading, NoOp}
         \/ poll' = Following(route.id) /\ page' = ExportPending(page, 0)
  BY DEF EnterRoute, Send
<1>2. Keeps(page, StartAnalysis(Reset(page)))
  BY DEF StartAnalysis, Reset, ClearForAnalysis, InitialContext, Keeps
<1>3. Keeps(page, page')
  BY <1>0, <1>1, <1>2, StudentKeeps, AnswerKeeps
<1>4. ExportPending(page, 0).at = "exporting"
  BY <1>0 DEF ExportPending, PageFields
<1>5. /\ poll'.kind = "export" => Reached(poll'.id) /\ page'.at # "exportComplete"
  BY <1>1, <1>4 DEF Loading, NoOp, Following, ExportsReached
<1> QED
  BY <1>0, <1>3, <1>5, LaterReflexive, PageFacts DEF Steady, ExportsReached, Keeps, Reached, PInv

\* So it is with every step of the page.
LEMMA StepSteady ==
  ASSUME PInv, LInv, ExportsReached, [Next]_vars
  PROVE  ExportsReached' /\ Steady
<1>1. CASE RunEffects \/ UNCHANGED vars
  <2>1. UNCHANGED <<manifest, exports, page, poll, route, shown>>
    BY <1>1 DEF RunEffects, vars
  <2> QED
    BY <2>1, PageFacts, StudentKeeps, KeptSteady
<1> QED
  BY <1>1, WriteSteady, MoveSteady, ServerSteady, TakeSteady, LoadSteady, RouteSteady DEF Next

\* A render makes the picture anew, or keeps it beside the same answers and exports.
LEMMA RenderKeeps ==
  ASSUME PInv, CopyIsGood, Steady, Render, page'.result \in Nat
  PROVE  CopyIsGood'
<1>1. CASE ContextUrl(page') # crop.url
  <2>1. crop' = Attempt(ContextUrl(page'))
    BY <1>1 DEF Render
  <2>2. DOMAIN crop' = {"url", "at", "context"} /\ crop'.context.source = Original
        /\ crop'.url = ContextUrl(page')
    BY <2>1 DEF Attempt, NoContext
  <2> QED
    BY <2>2 DEF CopyIsGood
<1>2. CASE ContextUrl(page') = crop.url
  <2>1. crop' = crop
    BY <1>2 DEF Render
  <2> PICK s : s = crop.context.source
    OBVIOUS
  <2>2. SUFFICES ASSUME s # Original
                 PROVE  /\ Reached(s)' /\ page'.result <= s
                        /\ poll'.kind = "export" => poll'.id <= s
                        /\ HoldsAnswers(s)'
    BY <1>2, <2>1 DEF CopyIsGood, HoldsAnswers, Reached
  <2>3. page.at = "exportComplete" /\ page'.at = "exportComplete"
    <3>1. \A p : ContextUrl(p).preview => p.at = "exportComplete"
      BY DEF ContextUrl, ShowsCompletedPreview, NoUrl
    <3> QED
      BY <1>2, <2>2, <3>1 DEF CopyIsGood
  <2>4. /\ Reached(s) /\ page.result <= s /\ HoldsAnswers(s)
        /\ poll.kind = "export" => poll.id <= s
    BY <2>2 DEF CopyIsGood
  <2>5. Reached(s)'
    BY <2>4, PageFacts DEF Reached, Steady, Later
  <2>6. page'.result <= s /\ (poll'.kind = "export" => poll'.id <= s)
    BY <2>3, <2>4 DEF Steady, Reached
  <2>7. HoldsAnswers(s)'
    BY <2>3, <2>4 DEF Steady, HoldsAnswers, Answered, Later
  <2> QED
    BY <2>5, <2>6, <2>7
<1> QED
  BY <1>1, <1>2

\* The steps of the picture itself; what is fetched is of the version of now.
LEMMA CropKeeps ==
  ASSUME PInv, ExportsReached, CopyIsGood, Crop, UNCHANGED vars
  PROVE  CopyIsGood'
<1>0. UNCHANGED <<manifest, page, poll>>
  BY DEF vars
<1>1. DOMAIN crop = {"url", "at", "context"} /\ crop.url = ContextUrl(page)
  BY DEF CopyIsGood
<1>2. CASE TakeContext
  <2> DEFINE c == ParseContext(GetPageContext(crop.url))
  <2>1. DOMAIN crop' = DOMAIN crop /\ crop'.url = crop.url /\ crop'.context = c
    BY <1>1, <1>2 DEF TakeContext
  <2>2. c.source # Original => c.source = manifest.version /\ crop.url.preview
    BY DEF ParseContext, GetPageContext, CompletedCopy
  <2> HIDE DEF c
  <2>3. manifest.version \in Nat /\ Reached(manifest.version) /\ page.result <= manifest.version
        /\ (poll.kind = "export" => poll.id <= manifest.version)
    BY PageFacts DEF ExportsReached, Reached
  <2>4. HoldsAnswers(manifest.version)
    BY DEF HoldsAnswers, Answered, PInv, WellFormed, GoodPage, Shown
  <2> QED
    BY <1>0, <1>1, <2>1, <2>2, <2>3, <2>4 DEF CopyIsGood, Reached, HoldsAnswers
<1>3. CASE ShowImage \/ CropFails
  <2>1. DOMAIN crop' = DOMAIN crop /\ crop'.url = crop.url /\ crop'.context = crop.context
    BY <1>1, <1>3 DEF ShowImage, CropFails
  <2> QED
    BY <1>0, <2>1 DEF CopyIsGood, Reached, HoldsAnswers
<1>4. CASE TryAgain
  <2>1. DOMAIN crop' = {"url", "at", "context"} /\ crop'.url = crop.url
        /\ crop'.context.source = Original
    BY <1>4 DEF TryAgain, Attempt, NoContext
  <2> QED
    BY <1>0, <1>1, <2>1 DEF CopyIsGood
<1> QED
  BY <1>2, <1>3, <1>4 DEF Crop

\* The page beside its picture behaves as the page alone.
LEMMA PaneWatches == PreviewSpec => Spec
<1>1. PreviewInit => Init
  BY DEF PreviewInit
<1>2. [PreviewNext]_previewVars => [Next]_vars
  BY DEF PreviewNext, previewVars
<1> QED
  BY <1>1, <1>2, PTL DEF PreviewSpec, Spec

\* A completed copy shown beside the page is not older than the one offered for
\* download, and has in it every answer the page shows as added (SourcePane in
\* WorkspaceShell.tsx, DocumentCrop.tsx and get_page_context).
THEOREM CopiesHoldAddedAnswers == PreviewSpec => []CopyHoldsAddedAnswers
<1> DEFINE Inv == ExportsReached /\ CopyIsGood
<1>1. PreviewInit => Inv
  <2> SUFFICES ASSUME PreviewInit PROVE Inv
    OBVIOUS
  <2>1. /\ manifest.version \in Nat /\ crop = Attempt(ContextUrl(InitialContext))
        /\ page = InitialContext
    BY InitPInv DEF PreviewInit, Init, PInv, WellFormed
  <2>2. ExportsReached
    BY <2>1 DEF PreviewInit, Init, ExportsReached, Reached, InitialContext, Question, NoRoute, NoOp
  <2>3. CopyIsGood
    BY <2>1 DEF CopyIsGood, Attempt, NoContext
  <2> QED
    BY <2>2, <2>3
<1>2. PInv /\ LInv /\ Inv /\ [PreviewNext]_previewVars => Inv'
  <2> SUFFICES ASSUME PInv, LInv, Inv, [PreviewNext]_previewVars PROVE Inv'
    OBVIOUS
  <2>1. CASE Next /\ Render
    <3>1. ExportsReached' /\ Steady
      BY <2>1, StepSteady
    <3>2. page'.result \in Nat
      BY <3>1 DEF ExportsReached, Reached
    <3> QED
      BY <2>1, <3>1, <3>2, RenderKeeps
  <2>2. CASE Crop /\ UNCHANGED vars
    <3>1. ExportsReached'
      BY <2>2 DEF vars, ExportsReached, Reached
    <3> QED
      BY <2>2, <3>1, CropKeeps
  <2>3. CASE UNCHANGED previewVars
    BY <2>3 DEF previewVars, vars, ExportsReached, CopyIsGood, Reached, HoldsAnswers
  <2> QED
    BY <2>1, <2>2, <2>3 DEF PreviewNext
<1>3. Inv => CopyHoldsAddedAnswers
  BY DEF CopyIsGood, ExportsReached, Reached, HoldsAnswers, CopyHoldsAddedAnswers
<1> QED
  BY <1>1, <1>2, <1>3, PaneWatches, LateAnswers, PTL DEF PreviewSpec

-----------------------------------------------------------------------------
(* The worksheet's order of the questions.                                 *)

\* A set of numbers that is not empty has a smallest one.
LEMMA SmallestNumber ==
  ASSUME NEW T, T \subseteq Nat, T # {}
  PROVE  \E x \in T : \A y \in T : x <= y
<1>1. \E x \in T : \A y \in T : ~(<<y, x>> \in OpToRel(<, Nat))
  BY WFMin, NatLessThanWellFounded, Zenon
<1>2. \E x \in T : \A y \in T : ~(y < x)
  BY <1>1, Zenon DEF OpToRel
<1> QED
  BY <1>2

\* So Min is what its name says.
LEMMA MinOfNumbers ==
  ASSUME NEW T, T \subseteq Nat, T # {}
  PROVE  Min(T) \in T
BY SmallestNumber DEF Min

\* f counts through T upwards.
Ascends(f, T) ==
  /\ f \in [1..Cardinality(T) -> T]
  /\ \A i, j \in DOMAIN f : i < j => f[i] < f[j]

\* A number below all of T goes first.
LEMMA AscendsFrom ==
  ASSUME NEW T, T \subseteq Nat, IsFiniteSet(T), NEW x \in T, \A y \in T : x <= y,
         NEW f, Ascends(f, T \ {x})
  PROVE  \E g : Ascends(g, T)
<1> DEFINE n == Cardinality(T)
           g == [i \in 1..n |-> IF i = 1 THEN x ELSE f[i - 1]]
<1>1. n \in Nat \ {0} /\ Cardinality(T \ {x}) = n - 1
  BY FS_CardinalityType, FS_EmptySet, FS_RemoveElement
<1> HIDE DEF n
<1>2. /\ f \in [1..(n - 1) -> T \ {x}]
      /\ \A i, j \in 1..(n - 1) : i < j => f[i] < f[j]
  BY <1>1 DEF Ascends
<1>3. \A i \in 1..n : g[i] = IF i = 1 THEN x ELSE f[i - 1]
  OBVIOUS
<1>4. ASSUME NEW i \in 2..n PROVE f[i - 1] \in T \ {x} /\ x < f[i - 1]
  <2>1. i - 1 \in 1..(n - 1)
    BY <1>1
  <2>2. f[i - 1] \in T \ {x}
    BY <1>2, <2>1
  <2>3. f[i - 1] \in T /\ f[i - 1] # x
    BY <2>2
  <2>4. x \in Nat /\ f[i - 1] \in Nat /\ x <= f[i - 1]
    BY <2>3
  <2> QED
    BY <2>2, <2>3, <2>4
<1>5. g \in [1..n -> T] /\ DOMAIN g = 1..n
  BY <1>1, <1>4
<1> HIDE DEF g
<1>6. ASSUME NEW i \in 1..n, NEW j \in 1..n, i < j
      PROVE  g[i] < g[j]
  <2>1. CASE i = 1
    BY <1>3, <1>4, <1>6, <2>1
  <2>2. CASE i # 1
    BY <1>1, <1>2, <1>3, <1>6, <2>2
  <2> QED
    BY <2>1, <2>2
<1> QED
  BY <1>5, <1>6 DEF Ascends, n

\* Every finite set of numbers can be counted through upwards: there is no
\* smallest one that cannot.
LEMMA FiniteAscends ==
  ASSUME NEW T, T \subseteq Nat, IsFiniteSet(T)
  PROVE  \E f : Ascends(f, T)
<1> DEFINE Fails(n) == \E V \in SUBSET T : /\ Cardinality(V) = n
                                           /\ ~\E f : Ascends(f, V)
           Bad == {n \in Nat : Fails(n)}
<1>1. \A V \in SUBSET T : IsFiniteSet(V) /\ V \subseteq Nat /\ Cardinality(V) \in Nat
  BY FS_Subset, FS_CardinalityType
<1>2. Bad = {}
  <2> SUFFICES ASSUME Bad # {} PROVE FALSE
    OBVIOUS
  <2>1. PICK n \in Bad : \A k \in Bad : n <= k
    BY SmallestNumber
  <2>2. PICK V \in SUBSET T : Cardinality(V) = n /\ ~\E f : Ascends(f, V)
    BY <2>1
  <2> HIDE DEF Fails
  <2>3. V # {}
    <3>1. Ascends([i \in {} |-> 0], {})
      BY FS_EmptySet DEF Ascends
    <3> QED
      BY <2>2, <3>1
  <2>4. PICK x \in V : \A y \in V : x <= y
    BY <1>1, <2>3, SmallestNumber
  <2>5. V \ {x} \in SUBSET T /\ Cardinality(V \ {x}) = n - 1
    BY <1>1, <2>2, FS_RemoveElement
  <2>6. n - 1 \in Nat
    BY <1>1, <2>5
  <2>7. ~Fails(n - 1)
    BY <2>1, <2>6
  <2>8. PICK f : Ascends(f, V \ {x})
    BY <2>5, <2>7 DEF Fails
  <2> QED
    BY <1>1, <2>2, <2>4, <2>8, AscendsFrom
<1>3. ~Fails(Cardinality(T))
  BY <1>1, <1>2
<1> QED
  BY <1>3

\* So the order exists; it shows every question, none twice.
LEMMA OrderFacts ==
  /\ Ascends(Order, QuestionIds)
  /\ Order \in Seq(QuestionIds) /\ IsInjective(Order)
<1>1. QuestionIds \subseteq Nat /\ IsFiniteSet(QuestionIds)
  BY IdAssumption, PageAssumption
<1>2. \E f : Ascends(f, QuestionIds)
  BY <1>1, FiniteAscends
<1>3. \E f \in [1..Cardinality(QuestionIds) -> QuestionIds] :
        \A i, j \in DOMAIN f : i < j => f[i] < f[j]
  BY <1>2, Zenon DEF Ascends
<1>4. Ascends(Order, QuestionIds)
  BY <1>3, Zenon DEF Ascends, Order
<1> DEFINE n == Cardinality(QuestionIds)
<1>5. n \in Nat
  BY <1>1, FS_CardinalityType
<1> HIDE DEF n
<1>6. Order \in [1..n -> QuestionIds] /\ \A i, j \in 1..n : i < j => Order[i] < Order[j]
  BY <1>4 DEF Ascends, n
<1>7. Order \in Seq(QuestionIds)
  BY <1>5, <1>6, SeqDef, Zenon
<1>8. ASSUME NEW i \in 1..n, NEW j \in 1..n, Order[i] = Order[j]
      PROVE  i = j
  <2>1. Order[i] \in QuestionIds
    BY <1>6
  <2>2. Order[i] \in Nat
    BY <1>1, <2>1
  <2>3. ~(Order[i] < Order[j]) /\ ~(Order[j] < Order[i])
    BY <1>8, <2>2
  <2>4. i \in Nat /\ j \in Nat
    BY <1>5
  <2> QED
    BY <1>6, <2>3, <2>4
<1>9. IsInjective(Order)
  BY <1>6, <1>8 DEF IsInjective
<1> QED
  BY <1>4, <1>7, <1>9

-----------------------------------------------------------------------------
(* The shapes of what is stored, asked and answered.                       *)

\* A wording of the page, or none.
Held == Candidate \cup {NoCandidate}

\* A question on the server: what is there has a text, and no suggestion has a
\* number beyond the next candidate's.
TypedState(s) ==
  /\ s \in S!QuestionState
  /\ s.current.ver > 0 => s.current.text \in Texts
  /\ s.confirmed.rev > 0 => s.confirmed.text \in Texts
  /\ \A r \in s.rephrases : r.suggestion <= s.seq + 1

\* A receipt records a confirmation that was made.
TypedReceipt(r) ==
  r \in S!Receipt /\ r.version > 0 /\ r.answer.rev > 0 /\ r.answer.text \in Texts

\* The assignment on the server, with the questions of the worksheet.
TypedServer(m) ==
  /\ S!IsManifest(m)
  /\ DOMAIN m.questions = QuestionIds
  /\ \A q \in QuestionIds : TypedState(m.questions[q])
  /\ \A r \in m.receipts : TypedReceipt(r)

\* A request is about a question of the worksheet and a version the server had.
TypedRequest(r, m) ==
  /\ r.q \in QuestionIds /\ r.aver \in 1..m.version
  /\ r.what = "candidate" => r.text \in Texts /\ r.origin \in S!Origins
  /\ r.what = "rephrase" => r.cand \in Held

TypedAnswer(r, a, m) ==
  /\ a.version \in 1..m.version
  /\ r.what \in {"candidate", "rephrase", "review"} => a.cand \in Candidate
  /\ r.what = "rephrase" => a.suggestion \in Candidate
  /\ r.what = "review" => a.review \in ReviewSnapshot /\ a.review.aver \in 1..m.version
  /\ r.what = "confirm" => a.answer \in ConfirmedAnswer
  /\ r.what = "revise" => a.seed \in Texts

\* A handled request leaves a server of that shape, moved on by one version at
\* most, and is answered in that shape.
TypedReply(m, r, h) ==
  /\ TypedServer(h.m) /\ h.m.version \in {m.version, m.version + 1}
  /\ h.ans # NoRequest
  /\ h.ans # Failed => TypedAnswer(r, h.ans, h.m)

-----------------------------------------------------------------------------
(* What the server stores.                                                 *)

\* The manifest m with the record s of question q, a version and receipts.
Stored(m, q, s, v, receipts) ==
  [version |-> v, status |-> m.status, verified |-> m.verified,
   questions |-> [m.questions EXCEPT ![q] = s], receipts |-> receipts]

\* One question's record changes at a time, and a confirmation files a receipt.
LEMMA QuestionStored ==
  ASSUME NEW m, S!IsManifest(m), NEW q, NEW s
  PROVE  /\ S!ReplaceQuestion(m, q, s) = Stored(m, q, s, m.version, m.receipts)
         /\ S!Bump(S!ReplaceQuestion(m, q, s)) = Stored(m, q, s, m.version + 1, m.receipts)
<1>1. m = [version |-> m.version, status |-> m.status, verified |-> m.verified,
           questions |-> m.questions, receipts |-> m.receipts]
  BY DEF S!IsManifest
<1>2. S!ReplaceQuestion(m, q, s) = Stored(m, q, s, m.version, m.receipts)
  BY <1>1 DEF S!ReplaceQuestion, Stored
<1>3. \A v, rs : S!Bump(Stored(m, q, s, v, rs)) = Stored(m, q, s, v + 1, rs)
  BY DEF S!Bump, Stored
<1> QED
  BY <1>2, <1>3

\* The same with a receipt.
LEMMA ReceiptStored ==
  ASSUME NEW m, S!IsManifest(m), NEW q, NEW s, NEW r
  PROVE  S!Bump([S!ReplaceQuestion(m, q, s) EXCEPT !.receipts = @ \cup {r}])
           = Stored(m, q, s, m.version + 1, m.receipts \cup {r})
<1> DEFINE n == Stored(m, q, s, m.version, m.receipts)
           k == Stored(m, q, s, m.version, m.receipts \cup {r})
<1>1. S!ReplaceQuestion(m, q, s) = n
  BY QuestionStored
<1>2. [n EXCEPT !.receipts = @ \cup {r}] = k
  BY DEF Stored
<1>3. S!Bump(k) = Stored(m, q, s, m.version + 1, m.receipts \cup {r})
  BY DEF S!Bump, Stored
<1> HIDE DEF n, k
<1> QED
  BY <1>1, <1>2, <1>3

\* Such a manifest has its shape.
LEMMA StoredTyped ==
  ASSUME NEW m, TypedServer(m), NEW q \in QuestionIds, NEW s, TypedState(s),
         NEW v \in {m.version, m.version + 1},
         NEW receipts, \A r \in receipts : TypedReceipt(r)
  PROVE  LET n == Stored(m, q, s, v, receipts)
         IN  TypedServer(n) /\ n.version = v /\ n.questions[q] = s /\ n.receipts = receipts
<1> DEFINE n == Stored(m, q, s, v, receipts)
<1>1. /\ n = [version |-> n.version, status |-> n.status, verified |-> n.verified,
              questions |-> n.questions, receipts |-> n.receipts]
      /\ n.version = v /\ n.status = m.status /\ n.verified = m.verified
      /\ n.questions = [m.questions EXCEPT ![q] = s] /\ n.receipts = receipts
  BY DEF Stored
<1> HIDE DEF n
<1>2. /\ DOMAIN m.questions = QuestionIds
      /\ \A x \in QuestionIds : TypedState(m.questions[x])
      /\ m.questions \in [QuestionIds -> S!QuestionState]
      /\ m.version \in Nat \ {0} /\ m.status \in S!Status /\ m.verified \in BOOLEAN
  BY DEF TypedServer, S!IsManifest
<1>3. /\ DOMAIN n.questions = QuestionIds /\ n.questions[q] = s
      /\ \A x \in QuestionIds : TypedState(n.questions[x])
  BY <1>1, <1>2
<1>4. n.questions \in [QuestionIds -> S!QuestionState]
  BY <1>1, <1>2 DEF TypedState
<1>5. n.receipts \subseteq S!Receipt
  BY <1>1 DEF TypedReceipt
<1>6. n.version \in Nat \ {0}
  BY <1>1, <1>2
<1>7. n.status \in S!Status /\ n.verified \in BOOLEAN
  BY <1>1, <1>2
<1>8. S!IsManifest(n)
  <2>1. DOMAIN n.questions \subseteq QuestionIds /\ n.questions \in [DOMAIN n.questions -> S!QuestionState]
    BY <1>3, <1>4
  <2> QED
    BY <1>1, <1>5, <1>6, <1>7, <2>1, Zenon DEF S!IsManifest
<1> QED
  BY <1>1, <1>3, <1>8 DEF TypedServer, n

\* Marking tokens keeps their shape.
LEMMA TokensMarked ==
  ASSUME NEW tokens \in Seq(S!ReviewToken)
  PROVE  /\ S!InvalidateReviews(tokens) \in Seq(S!ReviewToken)
         /\ \A tok \in DOMAIN tokens : S!ConsumeReview(tokens, tok) \in Seq(S!ReviewToken)
<1>1. \A k \in S!ReviewToken : /\ [k EXCEPT !.invalidated = TRUE] \in S!ReviewToken
                               /\ [k EXCEPT !.consumed = TRUE] \in S!ReviewToken
  BY DEF S!ReviewToken
<1>2. \A i \in DOMAIN tokens : tokens[i] \in S!ReviewToken
  OBVIOUS
<1>3. S!InvalidateReviews(tokens) \in Seq(S!ReviewToken)
  <2>1. DOMAIN tokens = 1..Len(tokens) /\ Len(tokens) \in Nat
    OBVIOUS
  <2>2. \A i \in 1..Len(tokens) : [tokens[i] EXCEPT !.invalidated = TRUE] \in S!ReviewToken
    BY <1>1, <1>2, <2>1, Zenon
  <2>3. S!InvalidateReviews(tokens)
          = [i \in 1..Len(tokens) |-> [tokens[i] EXCEPT !.invalidated = TRUE]]
    BY <2>1, Zenon DEF S!InvalidateReviews
  <2> QED
    BY <2>1, <2>2, <2>3
<1>4. ASSUME NEW tok \in DOMAIN tokens
      PROVE  S!ConsumeReview(tokens, tok) \in Seq(S!ReviewToken)
  <2> DEFINE k == [tokens[tok] EXCEPT !.consumed = TRUE]
  <2>1. k \in S!ReviewToken
    BY <1>1, <1>2
  <2>2. S!ConsumeReview(tokens, tok) = [tokens EXCEPT ![tok] = k]
    BY DEF S!ConsumeReview
  <2> HIDE DEF k
  <2> QED
    BY <2>1, <2>2
<1> QED
  BY <1>3, <1>4

\* The fields of a question's record.
LEMMA StateShape ==
  ASSUME NEW s \in S!QuestionState
  PROVE  /\ s.seq \in Nat /\ s.current \in S!Candidate /\ s.confirmed \in S!Answer
         /\ s.revision \in S!RevisionDraft /\ s.rephrases \subseteq S!RephraseRecord
         /\ s.tokens \in Seq(S!ReviewToken)
BY DEF S!QuestionState

\* Storing a candidate.
LEMMA CandidateTyped ==
  ASSUME NEW m, TypedServer(m), NEW q \in QuestionIds, NEW text \in Texts,
         NEW origin \in S!Origins
  PROVE  LET n == S!ReplaceCandidate(m, q, text, origin)
         IN  /\ TypedServer(n) /\ n.version = m.version + 1
             /\ n.questions[q].current \in S!Candidate /\ n.questions[q].current.text = text
<1> DEFINE s == m.questions[q]
           c == [ver |-> s.seq + 1, text |-> text, origin |-> origin]
           z == [s EXCEPT !.seq = @ + 1, !.current = c, !.tokens = S!InvalidateReviews(@)]
           n == S!ReplaceCandidate(m, q, text, origin)
<1>1. /\ S!IsManifest(m) /\ TypedState(s) /\ s \in S!QuestionState
      /\ \A x \in m.receipts : TypedReceipt(x)
  BY DEF TypedServer, TypedState
<1>2. /\ s.seq \in Nat /\ s.tokens \in Seq(S!ReviewToken)
      /\ S!InvalidateReviews(s.tokens) \in Seq(S!ReviewToken)
  BY <1>1, StateShape, TokensMarked
<1>3. c \in S!Candidate /\ c.text = text /\ s.seq + 1 \in Nat
  BY <1>2 DEF S!Candidate
<1>4. n = Stored(m, q, z, m.version + 1, m.receipts)
  BY <1>1, QuestionStored DEF S!ReplaceCandidate
<1> HIDE DEF c
<1>5. z \in S!QuestionState
  <2>1. [s EXCEPT !.seq = @ + 1] \in S!QuestionState
    BY <1>1, <1>2, <1>3 DEF S!QuestionState
  <2>2. [[s EXCEPT !.seq = @ + 1] EXCEPT !.current = c, !.tokens = S!InvalidateReviews(s.tokens)]
          \in S!QuestionState
    BY <1>2, <1>3, <2>1 DEF S!QuestionState
  <2>3. z = [[s EXCEPT !.seq = @ + 1] EXCEPT !.current = c, !.tokens = S!InvalidateReviews(s.tokens)]
    BY <1>1 DEF S!QuestionState
  <2> QED
    BY <2>2, <2>3
<1>6. /\ z.seq = s.seq + 1 /\ z.current = c /\ z.confirmed = s.confirmed
      /\ z.rephrases = s.rephrases
  BY <1>1 DEF S!QuestionState
<1> HIDE DEF z, n
<1>7. TypedState(z)
  <2>1. \A r \in s.rephrases : r.suggestion \in Nat
    BY <1>1 DEF S!QuestionState, S!RephraseRecord
  <2> QED
    BY <1>1, <1>2, <1>3, <1>5, <1>6, <2>1 DEF TypedState
<1>8. TypedServer(n) /\ n.version = m.version + 1 /\ n.questions[q] = z
  BY <1>1, <1>4, <1>7, StoredTyped
<1> QED
  BY <1>3, <1>6, <1>8 DEF n

\* Recording a suggestion, which then is the one with the greatest number.
LEMMA RephraseTyped ==
  ASSUME NEW m, TypedServer(m), NEW q \in QuestionIds, NEW text \in Texts
  PROVE  LET n == S!RecordRephrase(m, q, text)
             all == n.questions[q].rephrases
             x == CHOOSE x \in all : \A y \in all : y.suggestion <= x.suggestion
         IN  /\ TypedServer(n) /\ n.version = m.version + 1
             /\ x.suggestion \in Nat /\ x.text \in Texts
<1> DEFINE s == m.questions[q]
           r == [original |-> s.current.ver, suggestion |-> s.seq + 1, text |-> text]
           z == [s EXCEPT !.rephrases = @ \cup {r}]
           n == S!RecordRephrase(m, q, text)
<1>1. /\ S!IsManifest(m) /\ TypedState(s) /\ s \in S!QuestionState
      /\ \A x \in m.receipts : TypedReceipt(x)
  BY DEF TypedServer, TypedState
<1>2. s.seq \in Nat /\ s.current.ver \in Nat /\ s.rephrases \subseteq S!RephraseRecord
  BY <1>1, StateShape DEF S!Candidate
<1>3. r \in S!RephraseRecord /\ r.suggestion = s.seq + 1
  BY <1>2 DEF S!RephraseRecord
<1>4. n = Stored(m, q, z, m.version + 1, m.receipts)
  BY <1>1, QuestionStored DEF S!RecordRephrase
<1> HIDE DEF r
<1>5. z \in S!QuestionState
  <2>1. s.rephrases \cup {r} \in SUBSET S!RephraseRecord
    BY <1>2, <1>3
  <2> QED
    BY <1>1, <2>1 DEF S!QuestionState
<1>6. /\ z.seq = s.seq /\ z.current = s.current /\ z.confirmed = s.confirmed
      /\ z.rephrases = s.rephrases \cup {r}
  BY <1>1 DEF S!QuestionState
<1> HIDE DEF z, n
<1>7. \A y \in z.rephrases : y \in S!RephraseRecord /\ y.suggestion <= r.suggestion
  BY <1>1, <1>2, <1>3, <1>6 DEF TypedState
<1>8. TypedState(z)
  BY <1>1, <1>3, <1>5, <1>6, <1>7 DEF TypedState
<1>9. TypedServer(n) /\ n.version = m.version + 1 /\ n.questions[q] = z
  BY <1>1, <1>4, <1>8, StoredTyped
<1>10. \E x \in z.rephrases : \A y \in z.rephrases : y.suggestion <= x.suggestion
  BY <1>6, <1>7
<1> DEFINE x == CHOOSE x \in z.rephrases : \A y \in z.rephrases : y.suggestion <= x.suggestion
<1>11. x \in z.rephrases
  BY <1>10
<1> HIDE DEF x
<1>12. x.suggestion \in Nat /\ x.text \in Texts
  BY <1>7, <1>11 DEF S!RephraseRecord
<1> QED
  BY <1>9, <1>12 DEF n, x

\* Issuing a review.
LEMMA ReviewTyped ==
  ASSUME NEW m, TypedServer(m), NEW q \in QuestionIds
  PROVE  LET n == S!IssueReview(m, q, Now)
         IN  /\ TypedServer(n) /\ n.version = m.version
             /\ n.questions[q].current = m.questions[q].current
             /\ Len(n.questions[q].tokens) \in Nat
<1> DEFINE s == m.questions[q]
           k == [cand |-> s.current.ver, text |-> s.current.text, aver |-> m.version,
                 expires |-> Now + 1, consumed |-> FALSE, invalidated |-> FALSE]
           z == [s EXCEPT !.tokens = Append(@, k)]
           n == S!IssueReview(m, q, Now)
<1>1. /\ S!IsManifest(m) /\ TypedState(s) /\ s \in S!QuestionState
      /\ m.version \in Nat /\ \A x \in m.receipts : TypedReceipt(x)
  BY DEF TypedServer, TypedState, S!IsManifest
<1>2. /\ s.current.ver \in Nat /\ s.current.text \in Texts \cup {NoText}
      /\ s.tokens \in Seq(S!ReviewToken)
  BY <1>1, StateShape DEF S!Candidate
<1>3. k \in S!ReviewToken
  BY <1>1, <1>2 DEF S!ReviewToken, Now
<1>4. n = Stored(m, q, z, m.version, m.receipts)
  BY <1>1, QuestionStored DEF S!IssueReview
<1> HIDE DEF k
<1>5. Append(s.tokens, k) \in Seq(S!ReviewToken)
  BY <1>2, <1>3
<1>6. z \in S!QuestionState
  BY <1>1, <1>5 DEF S!QuestionState
<1>7. /\ z.seq = s.seq /\ z.current = s.current /\ z.confirmed = s.confirmed
      /\ z.rephrases = s.rephrases /\ z.tokens = Append(s.tokens, k)
  BY <1>1 DEF S!QuestionState
<1> HIDE DEF z, n
<1>8. TypedState(z)
  BY <1>1, <1>6, <1>7 DEF TypedState
<1>9. TypedServer(n) /\ n.version = m.version /\ n.questions[q] = z
  BY <1>1, <1>4, <1>8, StoredTyped
<1>10. Len(z.tokens) \in Nat
  BY <1>5, <1>7
<1> QED
  BY <1>7, <1>9, <1>10 DEF n

\* Confirming.
LEMMA ConfirmationTyped ==
  ASSUME NEW m, TypedServer(m), NEW q \in QuestionIds, NEW tok \in DOMAIN m.questions[q].tokens,
         m.questions[q].current.ver > 0
  PROVE  LET n == S!ConfirmCandidate(m, q, tok)
         IN  TypedServer(n) /\ n.version = m.version + 1
<1> DEFINE s == m.questions[q]
           a == [rev |-> s.confirmed.rev + 1, cand |-> s.current.ver,
                 text |-> s.current.text, origin |-> s.current.origin]
           r == [q |-> q, tok |-> tok, cand |-> s.current.ver, aver |-> m.version,
                 version |-> m.version + 1, answer |-> a]
           z == [s EXCEPT !.confirmed = a, !.revision = S!NoRevision,
                          !.tokens = S!ConsumeReview(@, tok)]
           n == S!ConfirmCandidate(m, q, tok)
<1>1. /\ S!IsManifest(m) /\ TypedState(s) /\ s \in S!QuestionState
      /\ m.version \in Nat \ {0} /\ \A x \in m.receipts : TypedReceipt(x)
  BY DEF TypedServer, TypedState, S!IsManifest
<1>2. /\ s.current \in S!Candidate /\ s.confirmed \in S!Answer
      /\ s.current.text \in Texts /\ s.tokens \in Seq(S!ReviewToken)
  BY <1>1, StateShape DEF TypedState
<1>3. a \in S!Answer /\ a.rev > 0 /\ a.text \in Texts
  BY <1>2 DEF S!Answer, S!Candidate
<1>4. r \in S!Receipt /\ r.version > 0 /\ r.answer = a
  <2>1. tok \in Nat /\ s.current.ver \in Nat
    BY <1>2 DEF S!Candidate
  <2> HIDE DEF a, s
  <2> QED
    BY <1>1, <1>3, <2>1 DEF S!Receipt
<1>5. n = Stored(m, q, z, m.version + 1, m.receipts \cup {r})
  BY <1>1, ReceiptStored DEF S!ConfirmCandidate
<1> HIDE DEF a
<1>6. S!ConsumeReview(s.tokens, tok) \in Seq(S!ReviewToken)
  BY <1>2, TokensMarked
<1>7. S!NoRevision \in S!RevisionDraft
  BY DEF S!NoRevision, S!RevisionDraft
<1>8. z \in S!QuestionState
  BY <1>1, <1>3, <1>6, <1>7 DEF S!QuestionState
<1>9. /\ z.seq = s.seq /\ z.current = s.current /\ z.confirmed = a
      /\ z.rephrases = s.rephrases
  BY <1>1 DEF S!QuestionState
<1> HIDE DEF z, n, r
<1>10. TypedState(z)
  BY <1>1, <1>3, <1>8, <1>9 DEF TypedState
<1>11. \A x \in m.receipts \cup {r} : TypedReceipt(x)
  BY <1>1, <1>3, <1>4 DEF TypedReceipt
<1>12. TypedServer(n) /\ n.version = m.version + 1
  BY <1>5, <1>10, <1>11, StoredTyped
<1> QED
  BY <1>12 DEF n

\* Opening a revision: its seed is the answer's wording.
LEMMA RevisionTyped ==
  ASSUME NEW m, TypedServer(m), NEW q \in QuestionIds
  PROVE  LET n == S!BeginRevision(m, q)
         IN  /\ TypedServer(n) /\ n.version = m.version + 1
             /\ n.questions[q].revision.seed = m.questions[q].confirmed.text
<1> DEFINE s == m.questions[q]
           d == [prior |-> s.confirmed.rev, seed |-> s.confirmed.text]
           z == [s EXCEPT !.current = S!NoCandidate, !.revision = d,
                          !.tokens = S!InvalidateReviews(@)]
           n == S!BeginRevision(m, q)
<1>1. /\ S!IsManifest(m) /\ TypedState(s) /\ s \in S!QuestionState
      /\ \A x \in m.receipts : TypedReceipt(x)
  BY DEF TypedServer, TypedState
<1>2. /\ s.confirmed \in S!Answer
      /\ S!InvalidateReviews(s.tokens) \in Seq(S!ReviewToken)
  BY <1>1, StateShape, TokensMarked
<1>3. d \in S!RevisionDraft /\ d.seed = s.confirmed.text
  BY <1>2 DEF S!RevisionDraft, S!Answer
<1>4. S!NoCandidate \in S!Candidate /\ S!NoCandidate.ver = 0
  BY DEF S!NoCandidate, S!Candidate, S!Origins
<1>5. n = Stored(m, q, z, m.version + 1, m.receipts)
  BY <1>1, QuestionStored DEF S!BeginRevision
<1> HIDE DEF d
<1>6. z \in S!QuestionState
  BY <1>1, <1>2, <1>3, <1>4 DEF S!QuestionState
<1>7. /\ z.seq = s.seq /\ z.current = S!NoCandidate /\ z.confirmed = s.confirmed
      /\ z.rephrases = s.rephrases /\ z.revision = d
  BY <1>1 DEF S!QuestionState
<1> HIDE DEF z, n
<1>8. TypedState(z)
  BY <1>1, <1>4, <1>6, <1>7 DEF TypedState
<1>9. TypedServer(n) /\ n.version = m.version + 1 /\ n.questions[q] = z
  BY <1>1, <1>5, <1>8, StoredTyped
<1> QED
  BY <1>3, <1>7, <1>9 DEF n

-----------------------------------------------------------------------------
(* What the server answers.                                                *)

\* A body is no missing answer.
LEMMA BodiesAnswer ==
  ASSUME NEW n, NEW body, "ok" \in DOMAIN body, NEW h \in Handled(n, body)
  PROVE  h.m = n /\ h.ans # NoRequest /\ (h.ans # Failed => h.ans = body)
<1>1. body # NoRequest /\ Failed # NoRequest
  BY DEF NoRequest, Failed
<1> QED
  BY <1>1, HandledReplies DEF Handled

\* A refusal.
LEMMA RefusalTyped ==
  ASSUME NEW m, TypedServer(m), NEW r, NEW h \in Refused(m)
  PROVE  TypedReply(m, r, h)
<1>1. h.m = m /\ h.ans = Failed /\ Failed # NoRequest
  BY DEF Refused, Failed, NoRequest
<1> QED
  BY <1>1 DEF TypedReply

\* The page's form of what the server stores.
LEMMA MappedTyped ==
  /\ \A q \in QuestionIds, c \in S!Candidate : c.text \in Texts => MapCandidate(q, c) \in Candidate
  /\ \A a \in S!Answer : /\ a.rev > 0 /\ a.text \in Texts => MapAnswer(a) \in ConfirmedAnswer
                         /\ a.rev = 0 => MapAnswer(a) = NoAnswer
BY DEF MapCandidate, MapAnswer, S!Candidate, S!Answer, S!Origins, Candidate, ConfirmedAnswer

\* The shape of a server's version.
LEMMA ServerVersion ==
  ASSUME NEW m, TypedServer(m)
  PROVE  m.version \in Nat \ {0} /\ m.version \in 1..m.version
BY DEF TypedServer, S!IsManifest

\* A candidate.
LEMMA CandidateAnswered ==
  ASSUME NEW m, TypedServer(m), NEW r, TypedRequest(r, m), r.what = "candidate",
         NEW h \in CandidateReplies(m, r)
  PROVE  TypedReply(m, r, h)
<1> DEFINE may == /\ S!RequireCurrentVersion(m, r.aver)
                  /\ S!CanReplaceCandidate(m, r.q, r.text, r.origin, r.prior, Now)
           n == S!ReplaceCandidate(m, r.q, r.text, r.origin)
           body == [ok |-> TRUE, version |-> n.version,
                    cand |-> MapCandidate(r.q, n.questions[r.q].current)]
<1>1. CASE may
  <2>1. h \in Handled(n, body)
    BY <1>1 DEF CandidateReplies
  <2>2. r.q \in QuestionIds /\ r.text \in Texts /\ r.origin \in S!Origins
    BY DEF TypedRequest
  <2>3. /\ body.version = n.version /\ "ok" \in DOMAIN body
        /\ body.cand = MapCandidate(r.q, n.questions[r.q].current)
    OBVIOUS
  <2> HIDE DEF body, n
  <2>4. /\ TypedServer(n) /\ n.version = m.version + 1
        /\ n.questions[r.q].current \in S!Candidate /\ n.questions[r.q].current.text = r.text
    BY <2>2, CandidateTyped DEF n
  <2>5. body.cand \in Candidate
    BY <2>2, <2>3, <2>4, MappedTyped
  <2>6. h.m = n /\ h.ans # NoRequest /\ (h.ans # Failed => h.ans = body)
    BY <2>1, <2>3, BodiesAnswer
  <2>7. TypedAnswer(r, body, n)
    BY <2>3, <2>4, <2>5, ServerVersion DEF TypedAnswer
  <2> QED
    BY <2>4, <2>6, <2>7 DEF TypedReply
<1>2. CASE ~may
  BY <1>2, RefusalTyped DEF CandidateReplies
<1> QED
  BY <1>1, <1>2

\* A suggestion.
LEMMA RephraseAnswered ==
  ASSUME NEW m, TypedServer(m), NEW r, TypedRequest(r, m), r.what = "rephrase",
         NEW h \in RephraseReplies(m, r)
  PROVE  TypedReply(m, r, h)
<1> DEFINE may == /\ S!RequireCurrentVersion(m, r.aver)
                  /\ r.cand.q = r.q
                  /\ S!CanRecordRephrase(m, r.q, r.cand.ver, Now)
<1>1. CASE may
  <2>1. PICK text \in Texts :
          h \in LET n == S!RecordRephrase(m, r.q, text)
                    s == CHOOSE x \in n.questions[r.q].rephrases :
                           \A y \in n.questions[r.q].rephrases : y.suggestion <= x.suggestion
                IN  Handled(n, [ok |-> TRUE, version |-> n.version, cand |-> r.cand,
                                suggestion |-> [q |-> r.q, ver |-> s.suggestion, text |-> s.text,
                                                origin |-> "claros_rephrase"]])
    BY <1>1, ZenonT(30) DEF RephraseReplies
  <2> DEFINE n == S!RecordRephrase(m, r.q, text)
             s == CHOOSE x \in n.questions[r.q].rephrases :
                    \A y \in n.questions[r.q].rephrases : y.suggestion <= x.suggestion
             c == [q |-> r.q, ver |-> s.suggestion, text |-> s.text, origin |-> "claros_rephrase"]
             body == [ok |-> TRUE, version |-> n.version, cand |-> r.cand, suggestion |-> c]
  <2>2. h \in Handled(n, body)
    BY <2>1, Zenon
  <2>3. r.q \in QuestionIds /\ r.cand \in Candidate
    BY <1>1, IdAssumption DEF TypedRequest, Held, NoCandidate
  <2>4. TypedServer(n) /\ n.version = m.version + 1 /\ s.suggestion \in Nat /\ s.text \in Texts
    BY <2>3, RephraseTyped
  <2>5. c \in Candidate
    BY <2>3, <2>4 DEF Candidate
  <2>6. /\ body.version = n.version /\ "ok" \in DOMAIN body /\ body.cand = r.cand
        /\ body.suggestion = c
    OBVIOUS
  <2> HIDE DEF body, n, c
  <2>7. h.m = n /\ h.ans # NoRequest /\ (h.ans # Failed => h.ans = body)
    BY <2>2, <2>6, BodiesAnswer
  <2>8. TypedAnswer(r, body, n)
    BY <2>3, <2>4, <2>5, <2>6, ServerVersion DEF TypedAnswer
  <2> QED
    BY <2>4, <2>7, <2>8 DEF TypedReply
<1>2. CASE ~may
  BY <1>2, RefusalTyped DEF RephraseReplies
<1> QED
  BY <1>1, <1>2

\* A review.
LEMMA ReviewAnswered ==
  ASSUME NEW m, TypedServer(m), NEW r, TypedRequest(r, m), r.what = "review",
         NEW h \in ReviewReplies(m, r)
  PROVE  TypedReply(m, r, h)
<1> DEFINE may == /\ S!RequireCurrentVersion(m, r.aver)
                  /\ r.cand.q = r.q
                  /\ S!CanIssueReview(m, r.q, r.cand.ver, Now)
           n == S!IssueReview(m, r.q, Now)
           s == n.questions[r.q]
           v == [q |-> r.q, tok |-> Len(s.tokens), cand |-> s.current.ver,
                 text |-> s.current.text, aver |-> n.version]
           body == [ok |-> TRUE, version |-> n.version, cand |-> MapCandidate(r.q, s.current),
                    review |-> v]
<1>1. CASE may
  <2>1. h \in Handled(n, body)
    BY <1>1 DEF ReviewReplies
  <2>2. r.q \in QuestionIds /\ m.questions[r.q].current.ver > 0
    BY <1>1 DEF TypedRequest, S!CanIssueReview, S!RequireCandidate, S!HasCandidate
  <2>3. /\ m.questions[r.q].current \in S!Candidate
        /\ m.questions[r.q].current.text \in Texts
    BY <2>2, StateShape DEF TypedServer, TypedState
  <2>4. /\ TypedServer(n) /\ n.version = m.version
        /\ s.current = m.questions[r.q].current /\ Len(s.tokens) \in Nat
    BY <2>2, ReviewTyped
  <2>5. n.version \in Nat \ {0} /\ n.version \in 1..n.version
    BY <2>4, ServerVersion
  <2> HIDE DEF n
  <2>6. v \in ReviewSnapshot /\ v.aver = n.version
    BY <2>2, <2>3, <2>4, <2>5 DEF ReviewSnapshot, S!Candidate
  <2>7. /\ body.version = n.version /\ "ok" \in DOMAIN body
        /\ body.cand = MapCandidate(r.q, s.current) /\ body.review = v
    OBVIOUS
  <2> HIDE DEF v, body
  <2>8. body.cand \in Candidate
    BY <2>2, <2>3, <2>4, <2>7, MappedTyped
  <2>9. h.m = n /\ h.ans # NoRequest /\ (h.ans # Failed => h.ans = body)
    BY <2>1, <2>7, BodiesAnswer
  <2>10. TypedAnswer(r, body, n)
    BY <2>5, <2>6, <2>7, <2>8 DEF TypedAnswer
  <2> QED
    BY <2>4, <2>9, <2>10 DEF TypedReply
<1>2. CASE ~may
  BY <1>2, RefusalTyped DEF ReviewReplies
<1> QED
  BY <1>1, <1>2

\* A confirmation, made now or before.
LEMMA ConfirmationAnswered ==
  ASSUME NEW m, TypedServer(m), WellFormed(m), NEW r, TypedRequest(r, m), r.what = "confirm",
         NEW h \in ConfirmReplies(m, r)
  PROVE  TypedReply(m, r, h)
<1> DEFINE made == S!ReplayReceipts(m, r.q, r.tok, r.cand.ver, r.aver, Now) # {}
           n    == IF made THEN m ELSE S!ConfirmCandidate(m, r.q, r.tok)
           k    == CHOOSE x \in S!ReceiptsOf(n, r.q, r.tok) : TRUE
           body == [ok |-> TRUE, version |-> k.version, answer |-> MapAnswer(k.answer)]
           may  == /\ r.cand.q = r.q
                   /\ made \/ S!CanConfirmCandidate(m, r.q, r.tok, r.cand.ver, r.aver, Now)
<1>1. CASE may
  <2>1. h \in Handled(n, body)
    BY <1>1 DEF ConfirmReplies
  <2>2. /\ body.version = k.version /\ body.answer = MapAnswer(k.answer)
        /\ "ok" \in DOMAIN body
    OBVIOUS
  <2>3. /\ TypedServer(n) /\ n.version \in {m.version, m.version + 1}
        /\ WellFormed(n) /\ S!ReceiptsOf(n, r.q, r.tok) # {}
    <3>1. CASE made
      BY <3>1 DEF S!ReplayReceipts
    <3>2. CASE ~made
      <4> DEFINE c == S!ConfirmCandidate(m, r.q, r.tok)
      <4>1. S!CanConfirmCandidate(m, r.q, r.tok, r.cand.ver, r.aver, Now) /\ n = c
        BY <1>1, <3>2
      <4> HIDE DEF made
      <4>2. WellFormed(c) /\ \E x \in c.receipts : x.q = r.q /\ x.tok = r.tok
        BY <4>1, AnswerConfirmed
      <4>3. r.tok \in DOMAIN m.questions[r.q].tokens /\ m.questions[r.q].current.ver > 0
        BY <4>1 DEF S!CanConfirmCandidate, S!TokenUsable, S!RequireCandidate, S!HasCandidate
      <4>4. TypedServer(c) /\ c.version = m.version + 1
        BY <4>3, ConfirmationTyped DEF TypedRequest
      <4> HIDE DEF c
      <4>5. S!ReceiptsOf(c, r.q, r.tok) # {}
        BY <4>2 DEF S!ReceiptsOf
      <4> QED
        BY <4>1, <4>2, <4>4, <4>5
    <3> QED
      BY <3>1, <3>2
  <2> HIDE DEF body, n
  <2>4. h.m = n /\ h.ans # NoRequest /\ (h.ans # Failed => h.ans = body)
    BY <2>1, <2>2, BodiesAnswer
  <2>5. k \in n.receipts
    BY <2>3 DEF S!ReceiptsOf
  <2> HIDE DEF k
  <2>6. TypedReceipt(k) /\ k.version \in 0..n.version
    BY <2>3, <2>5 DEF TypedServer, WellFormed
  <2>7. k.answer \in S!Answer /\ k.answer.rev > 0 /\ k.answer.text \in Texts /\ k.version > 0
    BY <2>6 DEF TypedReceipt, S!Receipt
  <2>8. body.answer \in ConfirmedAnswer
    BY <2>2, <2>7, MappedTyped
  <2>9. body.version \in 1..n.version
    BY <2>2, <2>6, <2>7
  <2>10. TypedAnswer(r, body, n)
    BY <2>8, <2>9 DEF TypedAnswer
  <2> QED
    BY <2>3, <2>4, <2>10 DEF TypedReply
<1>2. CASE ~may
  BY <1>2, RefusalTyped DEF ConfirmReplies
<1> QED
  BY <1>1, <1>2

\* The start of a revision.
LEMMA RevisionAnswered ==
  ASSUME NEW m, TypedServer(m), NEW r, TypedRequest(r, m), r.what = "revise",
         NEW h \in RevisionReplies(m, r)
  PROVE  TypedReply(m, r, h)
<1> DEFINE may == S!RequireCurrentVersion(m, r.aver) /\ S!CanBeginRevision(m, r.q, Now)
           n == S!BeginRevision(m, r.q)
           s == n.questions[r.q]
           body == [ok |-> TRUE, version |-> n.version, seed |-> s.revision.seed,
                    prior |-> s.confirmed.cand]
<1>1. CASE may
  <2>1. h \in Handled(n, body)
    BY <1>1 DEF RevisionReplies
  <2>2. r.q \in QuestionIds /\ m.questions[r.q].confirmed.rev > 0
    BY <1>1 DEF TypedRequest, S!CanBeginRevision, S!HasAnswer
  <2>3. m.questions[r.q].confirmed.text \in Texts
    BY <2>2 DEF TypedServer, TypedState
  <2>4. /\ body.version = n.version /\ "ok" \in DOMAIN body
        /\ body.seed = s.revision.seed
    OBVIOUS
  <2> HIDE DEF body
  <2>5. /\ TypedServer(n) /\ n.version = m.version + 1
        /\ s.revision.seed = m.questions[r.q].confirmed.text
    BY <2>2, RevisionTyped
  <2> HIDE DEF n
  <2>6. h.m = n /\ h.ans # NoRequest /\ (h.ans # Failed => h.ans = body)
    BY <2>1, <2>4, BodiesAnswer
  <2>7. TypedAnswer(r, body, n)
    BY <2>3, <2>4, <2>5, ServerVersion DEF TypedAnswer
  <2> QED
    BY <2>5, <2>6, <2>7 DEF TypedReply
<1>2. CASE ~may
  BY <1>2, RefusalTyped DEF RevisionReplies
<1> QED
  BY <1>1, <1>2

\* Any request.
LEMMA RequestAnswered ==
  ASSUME NEW m, TypedServer(m), WellFormed(m), NEW r, TypedRequest(r, m),
         r.what \in AnswerRequests, NEW h \in Replies(m, r)
  PROVE  TypedReply(m, r, h)
<1>1. CASE r.what = "candidate"
  BY <1>1, CandidateAnswered DEF Replies
<1>2. CASE r.what = "rephrase"
  BY <1>2, RephraseAnswered DEF Replies
<1>3. CASE r.what = "review"
  BY <1>3, ReviewAnswered DEF Replies
<1>4. CASE r.what = "confirm"
  BY <1>4, ConfirmationAnswered DEF Replies
<1>5. CASE r.what = "revise"
  BY <1>5, RevisionAnswered DEF Replies
<1> QED
  BY <1>1, <1>2, <1>3, <1>4, <1>5 DEF AnswerRequests

-----------------------------------------------------------------------------
(* The page's events keep its shape.                                       *)

\* A loaded page has a version and an active question; the review it shows is of
\* a version the server had.
TypedPage(p, m) ==
  /\ IsContext(p)
  /\ Loaded(p) => p.version > 0 /\ HasQuestion(p)
  /\ p.review # NoReview => p.review.aver \in 1..m.version

\* An event that keeps the questions, and whose changes are of the right shape.
Shaped(p, n, m) ==
  /\ DOMAIN n = PageFields
  /\ n.at \in States /\ n.error \in {p.error, TRUE, FALSE}
  /\ n.version = p.version \/ n.version \in 1..m.version
  /\ n.questions = p.questions /\ n.verified = p.verified
  /\ n.active = p.active \/ n.active \in DOMAIN p.questions
  /\ n.result \in Nat /\ n.epoch \in Nat
  /\ n.cand \in Held /\ n.original \in Held /\ n.suggestion \in Held
  /\ \/ n.review \in {p.review, NoReview}
     \/ n.review \in ReviewSnapshot /\ n.review.aver \in 1..m.version
  /\ \/ n.confirmed = p.confirmed
     \/ \E q \in QuestionIds, a \in ConfirmedAnswer : n.confirmed = [p.confirmed EXCEPT ![q] = a]
  /\ \/ n.drafts = p.drafts
     \/ \E q \in QuestionIds, d \in QuestionDraft : n.drafts = [p.drafts EXCEPT ![q] = d]

\* What the shape of the context says.
LEMMA PageShape ==
  ASSUME NEW p, IsContext(p)
  PROVE  /\ DOMAIN p = PageFields /\ p.at \in States
         /\ p.version \in Nat /\ p.epoch \in Nat /\ p.result \in Nat /\ p.active \in Nat \ {0}
         /\ p.questions \in Seq(QuestionIds)
         /\ p.cand \in Held /\ p.original \in Held /\ p.suggestion \in Held
         /\ p.review \in ReviewSnapshot \cup {NoReview}
         /\ p.confirmed \in [QuestionIds -> ConfirmedAnswer \cup {NoAnswer}]
         /\ p.drafts \in [QuestionIds -> QuestionDraft \cup {NoDraft}]
         /\ HasQuestion(p) => ActiveQuestion(p) \in QuestionIds
         /\ \A i \in DOMAIN p.questions : p.questions[i] \in QuestionIds /\ i \in Nat \ {0}
<1>1. /\ DOMAIN p = PageFields /\ p.at \in States
      /\ p.version \in Nat /\ p.epoch \in Nat /\ p.result \in Nat /\ p.active \in Nat \ {0}
      /\ p.questions \in Seq(QuestionIds)
      /\ p.cand \in Held /\ p.original \in Held /\ p.suggestion \in Held
      /\ p.review \in ReviewSnapshot \cup {NoReview}
      /\ p.confirmed \in [QuestionIds -> ConfirmedAnswer \cup {NoAnswer}]
      /\ p.drafts \in [QuestionIds -> QuestionDraft \cup {NoDraft}]
  BY ContextFields DEF IsContext, Held
<1>2. \A i \in DOMAIN p.questions : p.questions[i] \in QuestionIds /\ i \in Nat \ {0}
  BY <1>1
<1> QED
  BY <1>1, <1>2 DEF HasQuestion, ActiveQuestion

\* Such an event keeps a page of its shape.
LEMMA ShapedKeep ==
  ASSUME NEW m, m.version \in Nat, NEW p, TypedPage(p, m), NEW n, Shaped(p, n, m)
  PROVE  TypedPage(n, m)
<1>1. IsContext(p) /\ p.version \in Nat
  BY PageShape DEF TypedPage
<1>2. n.verified \in BOOLEAN /\ n.error \in BOOLEAN
  BY <1>1, Zenon DEF IsContext, Shaped
<1>3. n.active \in Nat \ {0} /\ (Loaded(p) => n.active \in DOMAIN p.questions)
  BY <1>1, PageShape DEF Shaped, TypedPage, HasQuestion
<1>4. n.version \in Nat /\ (Loaded(p) => n.version > 0)
  BY <1>1 DEF Shaped, TypedPage
<1>5. /\ n.review \in ReviewSnapshot \cup {NoReview}
      /\ n.review # NoReview => n.review.aver \in 1..m.version
  BY <1>1, PageShape DEF Shaped, TypedPage
<1>6. n.confirmed \in [QuestionIds -> ConfirmedAnswer \cup {NoAnswer}]
  <2>1. p.confirmed \in [QuestionIds -> ConfirmedAnswer \cup {NoAnswer}]
    BY <1>1 DEF IsContext
  <2>2. \/ n.confirmed = p.confirmed
        \/ \E q \in QuestionIds, a \in ConfirmedAnswer : n.confirmed = [p.confirmed EXCEPT ![q] = a]
    BY Zenon DEF Shaped
  <2> QED
    BY <2>1, <2>2
<1>7. n.drafts \in [QuestionIds -> QuestionDraft \cup {NoDraft}]
  <2>1. p.drafts \in [QuestionIds -> QuestionDraft \cup {NoDraft}]
    BY <1>1 DEF IsContext
  <2>2. \/ n.drafts = p.drafts
        \/ \E q \in QuestionIds, d \in QuestionDraft : n.drafts = [p.drafts EXCEPT ![q] = d]
    BY Zenon DEF Shaped
  <2> QED
    BY <2>1, <2>2
<1>8. n.questions \in Seq(QuestionIds) /\ IsInjective(n.questions) /\ n.at \in States
  BY <1>1 DEF Shaped, IsContext
<1>9. {n.version, n.epoch, n.result} \subseteq Nat
  BY <1>4 DEF Shaped
<1>10. {n.cand, n.original, n.suggestion} \subseteq Candidate \cup {NoCandidate}
  BY DEF Shaped, Held
<1>11. {n.verified, n.error} \subseteq BOOLEAN
  BY <1>2, Zenon
<1>12. DOMAIN n = DOMAIN InitialContext
  BY ContextFields DEF Shaped
<1>13. IsContext(n)
  BY <1>3, <1>5, <1>6, <1>7, <1>8, <1>9, <1>10, <1>11, <1>12, Zenon DEF IsContext
<1> QED
  BY <1>3, <1>4, <1>5, <1>13 DEF TypedPage, Shaped, Loaded, HasQuestion

\* An event that leaves the page alone.
LEMMA SameShape ==
  ASSUME NEW m, NEW p, IsContext(p)
  PROVE  Shaped(p, p, m)
BY PageShape DEF Shaped

\* Events that change the state, the error, or put the review away.
LEMMA StateShaped ==
  ASSUME NEW m, NEW p, IsContext(p)
  PROVE  /\ \A at \in States : Shaped(p, [p EXCEPT !.at = at], m)
         /\ \A at \in States : Shaped(p, [p EXCEPT !.at = at, !.error = FALSE], m)
         /\ \A at \in States : Shaped(p, [p EXCEPT !.at = at, !.error = TRUE], m)
         /\ Shaped(p, [p EXCEPT !.error = FALSE], m)
         /\ Shaped(p, [p EXCEPT !.error = TRUE], m)
         /\ \A at \in States :
              Shaped(p, [p EXCEPT !.at = at, !.review = NoReview, !.error = FALSE], m)
<1> USE PageShape DEF Shaped, PageFields
<1>1. \A at \in States : Shaped(p, [p EXCEPT !.at = at], m)
  OBVIOUS
<1>2. \A at \in States : Shaped(p, [p EXCEPT !.at = at, !.error = FALSE], m)
  OBVIOUS
<1>3. \A at \in States : Shaped(p, [p EXCEPT !.at = at, !.error = TRUE], m)
  OBVIOUS
<1>4. Shaped(p, [p EXCEPT !.error = FALSE], m) /\ Shaped(p, [p EXCEPT !.error = TRUE], m)
  OBVIOUS
<1>5. \A at \in States :
        Shaped(p, [p EXCEPT !.at = at, !.review = NoReview, !.error = FALSE], m)
  OBVIOUS
<1> QED
  BY <1>1, <1>2, <1>3, <1>4, <1>5

\* The states the events lead to.
LEMMA SomeStates ==
  {"conversation", "rephrasing", "comparison", "exactReview", "confirming", "answerAdded",
   "worksheetReview", "exporting", "exportFailed", "exportComplete", "rejected"} \subseteq States
BY DEF States

\* The events that do no more.
LEMMA PlainShaped ==
  ASSUME NEW m, NEW p, IsContext(p)
  PROVE  /\ Shaped(p, RequestRephrase(p), m) /\ Shaped(p, RephraseFailed(p), m)
         /\ Shaped(p, ChangeAnswer(p), m) /\ Shaped(p, Confirm(p), m)
         /\ Shaped(p, ConfirmFailed(p), m) /\ Shaped(p, RequestFailed(p), m)
         /\ Shaped(p, AnalysisFailed(p), m) /\ Shaped(p, ContinueByTyping(p), m)
         /\ Shaped(p, OpenWorksheetReview(p), m) /\ Shaped(p, ReviewAnswers(p), m)
         /\ Shaped(p, CreateExport(p), m) /\ Shaped(p, RetryExport(p), m)
         /\ Shaped(p, OpenReviewRoute(p), m)
<1> USE SameShape, StateShaped, SomeStates
<1>1. Shaped(p, RequestRephrase(p), m) /\ Shaped(p, RephraseFailed(p), m)
  BY DEF RequestRephrase, RephraseFailed
<1>2. Shaped(p, ChangeAnswer(p), m) /\ Shaped(p, Confirm(p), m)
  BY DEF ChangeAnswer, Confirm
<1>3. Shaped(p, ConfirmFailed(p), m) /\ Shaped(p, RequestFailed(p), m)
  BY DEF ConfirmFailed, RequestFailed
<1>4. Shaped(p, AnalysisFailed(p), m) /\ Shaped(p, ContinueByTyping(p), m)
  BY DEF AnalysisFailed, ContinueByTyping
<1>5. Shaped(p, OpenWorksheetReview(p), m) /\ Shaped(p, ReviewAnswers(p), m)
  BY DEF OpenWorksheetReview, ReviewAnswers
<1>6. /\ Shaped(p, CreateExport(p), m) /\ Shaped(p, RetryExport(p), m)
      /\ Shaped(p, OpenReviewRoute(p), m)
  BY DEF CreateExport, RetryExport, OpenReviewRoute
<1> QED
  BY <1>1, <1>2, <1>3, <1>4, <1>5, <1>6

\* A draft of a page.
LEMMA DraftShape ==
  ASSUME NEW p, IsContext(p), NEW q \in QuestionIds
  PROVE  /\ p.drafts[q] \in QuestionDraft \cup {NoDraft}
         /\ p.drafts[q].rev \in Nat /\ p.drafts[q].ack \in Held
         /\ p.drafts[q] # NoDraft => /\ p.drafts[q].text \in Texts
                                     /\ p.drafts[q].origin \in {"student", "claros_rephrase"}
<1>1. p.drafts[q] \in QuestionDraft \cup {NoDraft}
  BY PageShape
<1>2. \A d \in QuestionDraft : /\ d.rev \in Nat /\ d.ack \in Held
                               /\ d.text \in Texts /\ d.origin \in {"student", "claros_rephrase"}
  BY DEF QuestionDraft, Held
<1>3. NoDraft.rev = 0 /\ NoDraft.ack \in Held
  BY DEF NoDraft, Held
<1> QED
  BY <1>1, <1>2, <1>3

\* The events of writing.
LEMMA WritingShaped ==
  ASSUME NEW m, NEW p, IsContext(p), NEW text \in Texts
  PROVE  /\ Shaped(p, CandidateChanged(p, text), m)
         /\ Shaped(p, VoiceCaptured(p, text), m)
<1>1. ASSUME HasQuestion(p), NEW origin \in {"student", "claros_rephrase"}, NEW changed \in BOOLEAN
      PROVE  Shaped(p, WriteCandidate(p, text, origin, changed), m)
  <2> DEFINE q == ActiveQuestion(p)
             d == [text |-> text, origin |-> origin, dirty |-> TRUE, ack |-> p.drafts[q].ack,
                   rev |-> IF changed THEN p.drafts[q].rev + 1 ELSE p.drafts[q].rev]
             c == CandidateFor(q, text, origin)
             n == WriteCandidate(p, text, origin, changed)
  <2>1. q \in QuestionIds
    BY <1>1, PageShape
  <2>2. d \in QuestionDraft
    BY <1>1, <2>1, DraftShape DEF QuestionDraft, Held
  <2>3. c \in Held /\ NoCandidate \in Held
    BY <1>1, <2>1 DEF CandidateFor, Candidate, Held
  <2>4. n = [Unreviewed(p) EXCEPT !.cand = c, !.drafts[q] = d]
    BY DEF WriteCandidate
  <2> HIDE DEF d, c, q, n
  <2>5. /\ DOMAIN n = PageFields /\ n.cand = c /\ n.drafts = [p.drafts EXCEPT ![q] = d]
        /\ n.at = p.at /\ n.error = FALSE /\ n.version = p.version
        /\ n.questions = p.questions /\ n.verified = p.verified /\ n.active = p.active
        /\ n.result = p.result /\ n.epoch = p.epoch
        /\ n.original = NoCandidate /\ n.suggestion = NoCandidate /\ n.review = NoReview
        /\ n.confirmed = p.confirmed
    BY <2>4, PageShape DEF Unreviewed, PageFields
  <2>6. Shaped(p, n, m)
    BY <2>1, <2>2, <2>3, <2>5, PageShape DEF Shaped
  <2> QED
    BY <2>6 DEF n
<1>2. p.cand.origin \in {"student", "claros_rephrase"}
  BY PageShape DEF Held, Candidate, NoCandidate
<1>3. Shaped(p, CandidateChanged(p, text), m)
  <2>1. CASE p.at # "conversation" \/ ~HasQuestion(p)
    BY <2>1, SameShape DEF CandidateChanged
  <2>2. CASE ~(p.at # "conversation" \/ ~HasQuestion(p))
    <3> DEFINE origin == IF p.cand.text = text THEN p.cand.origin ELSE "student"
               changed == p.cand.text # text
    <3>1. origin \in {"student", "claros_rephrase"} /\ changed \in BOOLEAN
      BY <1>2
    <3>2. CandidateChanged(p, text) = WriteCandidate(p, text, origin, changed)
      BY <2>2, Zenon DEF CandidateChanged
    <3> HIDE DEF origin, changed
    <3> QED
      BY <1>1, <2>2, <3>1, <3>2
  <2> QED
    BY <2>1, <2>2
<1>4. Shaped(p, VoiceCaptured(p, text), m)
  BY <1>1, SameShape DEF VoiceCaptured
<1> QED
  BY <1>3, <1>4

\* The events of moving between questions.
LEMMA MovingShaped ==
  ASSUME NEW m, NEW p, IsContext(p)
  PROVE  /\ \A q : Shaped(p, GoToQuestion(p, q), m)
         /\ Shaped(p, ContinueToNext(p), m)
         /\ Shaped(p, OpenAssignmentRoute(p), m)
<1> DEFINE there == [p EXCEPT !.at = "conversation"]
<1>1. /\ DOMAIN there = PageFields /\ there.at = "conversation" /\ there.error = p.error
      /\ there.version = p.version /\ there.questions = p.questions
      /\ there.verified = p.verified /\ there.active = p.active /\ there.result = p.result
      /\ there.epoch = p.epoch /\ there.confirmed = p.confirmed /\ there.drafts = p.drafts
      /\ there.cand = p.cand /\ there.original = p.original
      /\ there.suggestion = p.suggestion /\ there.review = p.review
  BY PageShape DEF PageFields
<1>2. Shaped(p, there, m)
  BY StateShaped, SomeStates
<1>3. NoCandidate \in Held /\ "conversation" \in States
  BY SomeStates DEF Held
<1>8. p.result \in Nat /\ p.epoch \in Nat /\ p.epoch + 1 \in Nat
  BY PageShape
<1> HIDE DEF there
<1>4. ASSUME NEW i \in DOMAIN p.questions
      PROVE  Shaped(p, MoveTo(there, i), m)
  <2> DEFINE q == p.questions[i]
             c == DraftCandidate(there, q)
             n == MoveTo(there, i)
  <2>1. q \in QuestionIds
    BY PageShape
  <2>2. c \in Held
    BY <1>1, <2>1, DraftShape DEF DraftCandidate, CandidateFor, Held, Candidate
  <2>3. n = [Unreviewed(there) EXCEPT !.active = i, !.epoch = @ + 1, !.cand = c]
    BY <1>1 DEF MoveTo
  <2> HIDE DEF c, n, q
  <2>4. /\ DOMAIN n = PageFields /\ n.cand = c /\ n.drafts = p.drafts
        /\ n.at = "conversation" /\ n.error = FALSE /\ n.version = p.version
        /\ n.questions = p.questions /\ n.verified = p.verified /\ n.active = i
        /\ n.result = p.result /\ n.epoch = p.epoch + 1
        /\ n.original = NoCandidate /\ n.suggestion = NoCandidate /\ n.review = NoReview
        /\ n.confirmed = p.confirmed
    BY <1>1, <2>3 DEF Unreviewed, PageFields
  <2>5. Shaped(p, n, m)
    BY <1>3, <2>2, <2>4, <1>8 DEF Shaped
  <2> QED
    BY <2>5 DEF n
<1>5. ASSUME NEW q PROVE Shaped(p, GoToQuestion(p, q), m)
  <2>1. Shows(p, q) => IndexOf(p, q) \in DOMAIN p.questions
    BY DEF Shows, IndexOf, Range
  <2> QED
    BY <1>2, <1>4, <2>1, SameShape DEF GoToQuestion, there
<1>6. Shaped(p, ContinueToNext(p), m)
  <2>1. HasNextQuestion(p) => p.active + 1 \in DOMAIN p.questions
    BY PageShape DEF HasNextQuestion
  <2>2. Shaped(p, [p EXCEPT !.at = "worksheetReview"], m)
    BY StateShaped, SomeStates
  <2> QED
    BY <1>4, <2>1, <2>2, SameShape DEF ContinueToNext, there
<1>7. Shaped(p, OpenAssignmentRoute(p), m)
  <2> DEFINE n == OpenAssignmentRoute(p)
  <2>1. /\ DOMAIN n = PageFields /\ n.cand = NoCandidate /\ n.drafts = p.drafts
        /\ n.at = "conversation" /\ n.error = FALSE /\ n.version = p.version
        /\ n.questions = p.questions /\ n.verified = p.verified /\ n.active = p.active
        /\ n.result = 0 /\ n.epoch = p.epoch
        /\ n.original = NoCandidate /\ n.suggestion = NoCandidate /\ n.review = NoReview
        /\ n.confirmed = p.confirmed
    BY PageShape DEF OpenAssignmentRoute, Unreviewed, PageFields
  <2> HIDE DEF n
  <2>2. /\ n.at \in States /\ n.cand \in Held /\ n.original \in Held /\ n.suggestion \in Held
        /\ n.result \in Nat /\ n.epoch \in Nat
    BY <1>3, <1>8, <2>1
  <2>3. n.error \in {p.error, TRUE, FALSE} /\ n.review \in {p.review, NoReview}
    BY <2>1
  <2>4. Shaped(p, n, m)
    BY <2>1, <2>2, <2>3, Zenon DEF Shaped
  <2> QED
    BY <2>4 DEF n
<1> QED
  BY <1>5, <1>6, <1>7

\* The events of exports.
LEMMA ExportShaped ==
  ASSUME NEW m, NEW p, IsContext(p), NEW result \in Nat,
         NEW v, v = 0 \/ v \in 1..m.version
  PROVE  /\ Shaped(p, ExportSucceeded(p, result, v), m)
         /\ Shaped(p, ExportRestored(p, result, v), m)
         /\ Shaped(p, ExportPending(p, v), m)
         /\ Shaped(p, ExportFailed(p, v), m)
<1> DEFINE w == TakeVersion(p, v)
<1>1. w = p.version \/ w \in 1..m.version
  BY DEF TakeVersion
<1> HIDE DEF w
<1>2. ASSUME NEW at \in States, NEW error \in {TRUE, FALSE}, NEW x \in Nat
      PROVE  Shaped(p, [p EXCEPT !.at = at, !.result = x, !.version = w, !.error = error], m)
  BY <1>1, <1>2, PageShape DEF Shaped, PageFields
<1>3. Shaped(p, ExportSucceeded(p, result, v), m) /\ Shaped(p, ExportRestored(p, result, v), m)
  BY <1>2, SameShape, SomeStates DEF ExportSucceeded, ExportRestored, w
<1>4. Shaped(p, ExportPending(p, v), m) /\ Shaped(p, ExportFailed(p, v), m)
  BY <1>2, SomeStates DEF ExportPending, ExportFailed, w
<1> QED
  BY <1>3, <1>4

\* What is remembered of a stored candidate.
LEMMA StoredShaped ==
  ASSUME NEW m, NEW p, IsContext(p), NEW v \in 1..m.version, NEW c \in Candidate,
         NEW q \in QuestionIds, NEW rev \in Nat \cup {-1}, NEW epoch
  PROVE  Shaped(p, CandidatePersisted(p, v, c, q, rev, epoch), m)
<1> DEFINE current == IsCurrentDraft(p, q, rev, epoch)
           draft   == p.drafts[q]
           kept    == IF current \/ draft = NoDraft THEN c ELSE draft
           number  == IF draft = NoDraft /\ rev # -1 THEN rev ELSE draft.rev
           d == [text |-> kept.text, origin |-> kept.origin, rev |-> number,
                 dirty |-> ~current, ack |-> c]
           w == IF Loaded(p) THEN v ELSE p.version
           n == [p EXCEPT !.version = w, !.drafts[q] = d]
           k == [n EXCEPT !.cand = c, !.review = NoReview, !.error = FALSE]
<1>1. kept.text \in Texts /\ kept.origin \in {"student", "claros_rephrase"}
  BY DraftShape DEF Candidate
<1>2. number \in Nat
  BY DraftShape
<1>3. current \in BOOLEAN
  BY DEF IsCurrentDraft
<1>4. d \in QuestionDraft
  <2> HIDE DEF kept, number, current
  <2> QED
    BY <1>1, <1>2, <1>3 DEF QuestionDraft
<1>5. w = p.version \/ w \in 1..m.version
  OBVIOUS
<1>6. CandidatePersisted(p, v, c, q, rev, epoch) = IF current THEN k ELSE n
  BY DEF CandidatePersisted
<1> HIDE DEF d, w, current
<1>7. /\ DOMAIN n = PageFields /\ n.version = w /\ n.drafts = [p.drafts EXCEPT ![q] = d]
      /\ n.at = p.at /\ n.error = p.error
      /\ n.questions = p.questions /\ n.verified = p.verified /\ n.active = p.active
      /\ n.result = p.result /\ n.epoch = p.epoch /\ n.cand = p.cand
      /\ n.original = p.original /\ n.suggestion = p.suggestion /\ n.review = p.review
      /\ n.confirmed = p.confirmed
  BY PageShape DEF PageFields
<1> HIDE DEF n
<1>8. /\ DOMAIN k = PageFields /\ k.version = w /\ k.drafts = [p.drafts EXCEPT ![q] = d]
      /\ k.at = p.at /\ k.error = FALSE
      /\ k.questions = p.questions /\ k.verified = p.verified /\ k.active = p.active
      /\ k.result = p.result /\ k.epoch = p.epoch /\ k.cand = c
      /\ k.original = p.original /\ k.suggestion = p.suggestion /\ k.review = NoReview
      /\ k.confirmed = p.confirmed
  BY <1>7 DEF PageFields
<1> HIDE DEF k
<1>9. /\ p.at \in States /\ p.result \in Nat /\ p.epoch \in Nat
      /\ p.cand \in Held /\ c \in Held /\ p.original \in Held /\ p.suggestion \in Held
  BY PageShape DEF Held
<1>10. Shaped(p, n, m)
  BY <1>4, <1>5, <1>7, <1>9 DEF Shaped
<1>11. Shaped(p, k, m)
  BY <1>4, <1>5, <1>8, <1>9 DEF Shaped
<1> QED
  BY <1>6, <1>10, <1>11

\* The suggestion, the review and the answer.
LEMMA AnswersShaped ==
  ASSUME NEW m, NEW p, TypedPage(p, m), NEW v \in 1..m.version, NEW c \in Candidate
  PROVE  /\ \A s \in Candidate : Shaped(p, RephraseReady(p, c, s, v), m)
         /\ \A r \in ReviewSnapshot : r.aver \in 1..m.version =>
                                        Shaped(p, ReviewReady(p, c, r, v), m)
<1> USE SomeStates
<1>0. /\ IsContext(p) /\ DOMAIN p = PageFields /\ p.at \in States
      /\ p.result \in Nat /\ p.epoch \in Nat
      /\ p.cand \in Held /\ c \in Held /\ p.original \in Held /\ p.suggestion \in Held
      /\ NoCandidate \in Held
  BY PageShape DEF TypedPage, Held
<1>1. ASSUME NEW s \in Candidate PROVE Shaped(p, RephraseReady(p, c, s, v), m)
  <2> DEFINE n == [p EXCEPT !.at = "comparison", !.original = c, !.suggestion = s,
                            !.version = v, !.error = FALSE]
  <2>1. Shaped(p, n, m)
    BY <1>0, <1>1 DEF Shaped, PageFields, Held
  <2>2. RephraseReady(p, c, s, v) \in {p, [p EXCEPT !.at = "comparison"], n}
    BY DEF RephraseReady
  <2>3. Shaped(p, p, m) /\ Shaped(p, [p EXCEPT !.at = "comparison"], m)
    BY <1>0, SameShape, StateShaped
  <2> HIDE DEF n
  <2> QED
    BY <2>1, <2>2, <2>3
<1>2. ASSUME NEW r \in ReviewSnapshot, r.aver \in 1..m.version
      PROVE  Shaped(p, ReviewReady(p, c, r, v), m)
  <2> DEFINE n == ReviewReady(p, c, r, v)
  <2>1. /\ DOMAIN n = PageFields /\ n.version \in {v, p.version} /\ n.drafts = p.drafts
        /\ n.at = "exactReview" /\ n.error = FALSE
        /\ n.questions = p.questions /\ n.verified = p.verified /\ n.active = p.active
        /\ n.result = p.result /\ n.epoch = p.epoch /\ n.cand = c
        /\ n.original = NoCandidate /\ n.suggestion = NoCandidate /\ n.review = r
        /\ n.confirmed = p.confirmed
    BY <1>0 DEF ReviewReady, Unreviewed, PageFields
  <2> HIDE DEF n
  <2>2. /\ n.at \in States /\ n.cand \in Held /\ n.original \in Held /\ n.suggestion \in Held
        /\ n.result \in Nat /\ n.epoch \in Nat /\ (n.version = p.version \/ n.version \in 1..m.version)
    BY <1>0, <2>1
  <2>3. n.error \in {p.error, TRUE, FALSE}
    BY <2>1
  <2>4. n.review \in ReviewSnapshot /\ n.review.aver \in 1..m.version
    BY <1>2, <2>1
  <2>5. Shaped(p, n, m)
    BY <2>1, <2>2, <2>3, <2>4, Zenon DEF Shaped
  <2> QED
    BY <2>5 DEF n
<1> QED
  BY <1>1, <1>2

\* A confirmed answer, or one opened to be revised.
LEMMA ConfirmedShaped ==
  ASSUME NEW m, NEW p, TypedPage(p, m), NEW v \in 1..m.version
  PROVE  /\ \A a \in ConfirmedAnswer : Shaped(p, ConfirmSucceeded(p, a, v), m)
         /\ \A q \in QuestionIds, seed \in Texts : Shaped(p, RevisionReady(p, q, seed, v), m)
<1> USE SomeStates
<1>0. /\ IsContext(p) /\ DOMAIN p = PageFields /\ p.at \in States
      /\ p.result \in Nat /\ p.epoch \in Nat /\ p.epoch + 1 \in Nat
      /\ p.cand \in Held /\ p.original \in Held /\ p.suggestion \in Held
      /\ NoCandidate \in Held
  BY PageShape DEF TypedPage, Held
<1>1. ASSUME NEW a \in ConfirmedAnswer PROVE Shaped(p, ConfirmSucceeded(p, a, v), m)
  <2> DEFINE q == ActiveQuestion(p)
             n == [p EXCEPT !.at = "answerAdded", !.confirmed[q] = a,
                            !.version = v, !.error = FALSE]
  <2>1. HasQuestion(p) => q \in QuestionIds
    BY <1>0, PageShape
  <2>2. \/ ConfirmSucceeded(p, a, v) \in {p, [p EXCEPT !.at = "answerAdded"]}
        \/ ConfirmSucceeded(p, a, v) = n /\ HasQuestion(p)
    BY DEF ConfirmSucceeded
  <2> HIDE DEF q
  <2>3. HasQuestion(p) => Shaped(p, n, m)
    <3> SUFFICES ASSUME HasQuestion(p) PROVE Shaped(p, n, m)
      OBVIOUS
    <3>1. /\ DOMAIN n = PageFields /\ n.version = v /\ n.drafts = p.drafts
          /\ n.at = "answerAdded" /\ n.error = FALSE
          /\ n.questions = p.questions /\ n.verified = p.verified /\ n.active = p.active
          /\ n.result = p.result /\ n.epoch = p.epoch /\ n.cand = p.cand
          /\ n.original = p.original /\ n.suggestion = p.suggestion /\ n.review = p.review
          /\ n.confirmed = [p.confirmed EXCEPT ![q] = a]
      BY <1>0 DEF PageFields
    <3> HIDE DEF n
    <3>2. n.at \in States /\ n.error \in {p.error, TRUE, FALSE}
      BY <3>1
    <3> QED
      BY <1>0, <1>1, <2>1, <3>1, <3>2 DEF Shaped
  <2>4. Shaped(p, p, m) /\ Shaped(p, [p EXCEPT !.at = "answerAdded"], m)
    BY <1>0, SameShape, StateShaped
  <2> HIDE DEF n
  <2> QED
    BY <2>2, <2>3, <2>4
<1>2. ASSUME NEW q \in QuestionIds, NEW seed \in Texts
      PROVE  Shaped(p, RevisionReady(p, q, seed, v), m)
  <2> DEFINE there == [p EXCEPT !.at = "conversation"]
             i == IndexOf(p, q)
             e == IF i = p.active THEN p.epoch ELSE p.epoch + 1
             c == CandidateFor(q, seed, "student")
             n == [Unreviewed(there) EXCEPT !.active = i, !.epoch = e, !.cand = c, !.version = v]
  <2>1. Shows(p, q) => i \in DOMAIN p.questions
    BY DEF Shows, IndexOf, Range
  <2>2. c \in Held /\ e \in Nat
    BY <1>0, <1>2 DEF CandidateFor, Candidate, Held
  <2>3. \/ RevisionReady(p, q, seed, v) = there
        \/ RevisionReady(p, q, seed, v) = n /\ Shows(p, q)
    BY <1>0 DEF RevisionReady, Unreviewed, PageFields
  <2> HIDE DEF i, e, c
  <2>4. Shows(p, q) => Shaped(p, n, m)
    <3> SUFFICES ASSUME Shows(p, q) PROVE Shaped(p, n, m)
      OBVIOUS
    <3>1. /\ DOMAIN n = PageFields /\ n.version = v /\ n.drafts = p.drafts
          /\ n.at = "conversation" /\ n.error = FALSE
          /\ n.questions = p.questions /\ n.verified = p.verified /\ n.active = i
          /\ n.result = p.result /\ n.epoch = e /\ n.cand = c
          /\ n.original = NoCandidate /\ n.suggestion = NoCandidate /\ n.review = NoReview
          /\ n.confirmed = p.confirmed
      BY <1>0 DEF Unreviewed, PageFields
    <3> HIDE DEF n
    <3>2. /\ n.at \in States /\ n.error \in {p.error, TRUE, FALSE}
          /\ n.review \in {p.review, NoReview}
      BY <3>1
    <3> QED
      BY <1>0, <2>1, <2>2, <3>1, <3>2 DEF Shaped
  <2> HIDE DEF n
  <2>5. Shaped(p, there, m)
    BY <1>0, StateShaped
  <2> QED
    BY <2>3, <2>4, <2>5
<1> QED
  BY <1>1, <1>2

\* A page without an assignment.
LEMMA EmptyTyped ==
  ASSUME NEW m
  PROVE  /\ TypedPage(InitialContext, m)
         /\ \A p : TypedPage(StartAnalysis(Reset(p)), m)
<1> DEFINE Blank(p) ==
             /\ DOMAIN p = PageFields /\ p.at \in States /\ p.version = 0 /\ p.questions = <<>>
             /\ p.verified = FALSE /\ p.active = 1 /\ p.cand = NoCandidate
             /\ p.original = NoCandidate /\ p.suggestion = NoCandidate /\ p.review = NoReview
             /\ p.epoch = 0 /\ p.error = FALSE /\ p.result = 0
             /\ p.confirmed = [q \in QuestionIds |-> NoAnswer]
             /\ p.drafts = [q \in QuestionIds |-> NoDraft]
<1>1. ASSUME NEW p, Blank(p) PROVE TypedPage(p, m)
  <2>1. <<>> \in Seq(QuestionIds) /\ IsInjective(<<>>)
    BY DEF IsInjective
  <2>2. p.questions \in Seq(QuestionIds) /\ IsInjective(p.questions)
    BY <1>1, <2>1
  <2>3. /\ p.confirmed \in [QuestionIds -> ConfirmedAnswer \cup {NoAnswer}]
        /\ p.drafts \in [QuestionIds -> QuestionDraft \cup {NoDraft}]
    BY <1>1
  <2>4. /\ {p.version, p.epoch, p.result} \subseteq Nat /\ p.active \in Nat \ {0}
        /\ {p.cand, p.original, p.suggestion} \subseteq Candidate \cup {NoCandidate}
        /\ p.review \in ReviewSnapshot \cup {NoReview}
    BY <1>1
  <2>5. {p.verified, p.error} \subseteq BOOLEAN
    BY <1>1, Zenon
  <2>6. IsContext(p)
    BY <1>1, <2>2, <2>3, <2>4, <2>5, ContextFields, Zenon DEF IsContext
  <2> QED
    BY <1>1, <2>6 DEF TypedPage, Loaded
<1>2. {"upload", "checking"} \subseteq States
  BY DEF States
<1>3. Blank(InitialContext)
  BY <1>2 DEF InitialContext, PageFields
<1>4. ASSUME NEW at \in States PROVE Blank(ClearForAnalysis(at))
  BY <1>4 DEF ClearForAnalysis, InitialContext, PageFields
<1> HIDE DEF Blank
<1>5. ASSUME NEW p PROVE TypedPage(StartAnalysis(Reset(p)), m)
  <2>1. StartAnalysis(Reset(p)) \in {ClearForAnalysis("checking"), ClearForAnalysis("upload")}
    BY DEF StartAnalysis, Reset
  <2> QED
    BY <1>1, <1>2, <1>4, <2>1
<1> QED
  BY <1>1, <1>3, <1>5

\* The page as it is loaded.
LEMMA LoadedTyped ==
  ASSUME NEW m, NEW p, TypedPage(p, m), p.at = "checking", NEW v \in 1..m.version, v \in Nat,
         NEW active \in Nat \ {0}, Order # <<>> => active \in DOMAIN Order,
         NEW confirmed \in [QuestionIds -> ConfirmedAnswer \cup {NoAnswer}], NEW c \in Held
  PROVE  LET n == AnalysisReady(p, v, Order, TRUE, confirmed, active, c)
         IN  TypedPage(n, m) /\ TypedPage(QuestionSetupAccepted(n, v, Order, TRUE), m)
<1> DEFINE fresh == [q \in QuestionIds |->
                       IF c # NoCandidate /\ q = c.q
                       THEN [text |-> c.text, origin |-> c.origin, rev |-> 0,
                             dirty |-> FALSE, ack |-> c]
                       ELSE NoDraft]
           n == AnalysisReady(p, v, Order, TRUE, confirmed, active, c)
           k == QuestionSetupAccepted(n, v, Order, TRUE)
<1>1. fresh \in [QuestionIds -> QuestionDraft \cup {NoDraft}]
  <2>1. c # NoCandidate => [text |-> c.text, origin |-> c.origin, rev |-> 0,
                            dirty |-> FALSE, ack |-> c] \in QuestionDraft
    BY DEF Held, Candidate, QuestionDraft
  <2> QED
    BY <2>1
<1>2. IsContext(p) /\ DOMAIN p = PageFields
  BY PageShape DEF TypedPage
<1>3. n = [p EXCEPT !.at = "questionCheck", !.version = v, !.questions = Order,
                    !.verified = TRUE, !.confirmed = confirmed, !.active = active,
                    !.cand = c, !.error = FALSE, !.drafts = fresh]
  BY DEF AnalysisReady
<1> HIDE DEF fresh
<1>4. /\ DOMAIN n = PageFields /\ n.at = "questionCheck" /\ n.version = v
      /\ n.questions = Order /\ n.verified = TRUE /\ n.active = active /\ n.error = FALSE
      /\ n.cand = c /\ n.original = p.original
      /\ n.suggestion = p.suggestion /\ n.review = p.review /\ n.epoch = p.epoch
      /\ n.result = p.result /\ n.confirmed = confirmed /\ n.drafts = fresh
  BY <1>2, <1>3 DEF PageFields
<1>5. k = [n EXCEPT !.version = v, !.questions = Order, !.verified = TRUE, !.active = 1,
                    !.error = FALSE, !.at = "conversation"]
  BY <1>4 DEF QuestionSetupAccepted, ApplyQuestionSetup, InSetup
<1> HIDE DEF n
<1>6. /\ DOMAIN k = PageFields /\ k.at = "conversation" /\ k.version = v
      /\ k.questions = Order /\ k.verified = TRUE /\ k.active = 1 /\ k.error = FALSE
      /\ k.cand = c /\ k.original = p.original
      /\ k.suggestion = p.suggestion /\ k.review = p.review /\ k.epoch = p.epoch
      /\ k.result = p.result /\ k.confirmed = confirmed /\ k.drafts = fresh
  BY <1>4, <1>5 DEF PageFields
<1> HIDE DEF k
<1>7. Order \in Seq(QuestionIds) /\ IsInjective(Order) /\ (Order # <<>> => 1 \in DOMAIN Order)
  BY OrderFacts
<1>8. ASSUME NEW x, DOMAIN x = PageFields, x.at \in States, x.version = v,
             x.questions = Order, x.verified = TRUE, x.active \in {1, active}, x.error = FALSE,
             x.cand = c, x.original = p.original,
             x.suggestion = p.suggestion, x.review = p.review, x.epoch = p.epoch,
             x.result = p.result, x.confirmed = confirmed, x.drafts = fresh
      PROVE  TypedPage(x, m)
  <2>1. /\ {x.version, x.epoch, x.result} \subseteq Nat /\ x.active \in Nat \ {0}
        /\ {x.cand, x.original, x.suggestion} \subseteq Candidate \cup {NoCandidate}
        /\ x.review \in ReviewSnapshot \cup {NoReview}
    BY <1>2, <1>8, PageShape DEF Held
  <2>2. {x.verified, x.error} \subseteq BOOLEAN
    BY <1>8, Zenon
  <2>3. /\ DOMAIN x = DOMAIN InitialContext
        /\ x.confirmed \in [QuestionIds -> ConfirmedAnswer \cup {NoAnswer}]
        /\ x.drafts \in [QuestionIds -> QuestionDraft \cup {NoDraft}]
        /\ x.questions \in Seq(QuestionIds) /\ IsInjective(x.questions)
    BY <1>1, <1>7, <1>8, ContextFields
  <2>4. IsContext(x)
    BY <1>8, <2>1, <2>2, <2>3, Zenon DEF IsContext
  <2>5. Loaded(x) => x.version > 0 /\ HasQuestion(x)
    BY <1>7, <1>8 DEF Loaded, HasQuestion
  <2> QED
    BY <1>8, <2>4, <2>5 DEF TypedPage
<1>9. {"questionCheck", "conversation"} \subseteq States
  BY DEF States
<1>10. TypedPage(n, m)
  BY <1>4, <1>8, <1>9
<1>11. TypedPage(k, m)
  BY <1>6, <1>8, <1>9
<1> QED
  BY <1>10, <1>11 DEF n, k

-----------------------------------------------------------------------------
(* The shape of the page's world: the invariant.                           *)

\* The status of a version's export, and what a route shows.
Statuses == {"none", "creating", "complete", "failed"}
Modes    == {"none", "question", "review", "export"}

\* A mutation under way is about a question of the worksheet and a version the
\* server had, and its answer is of the shape its request asks for.
TypedOp(o, m) ==
  o # NoOp =>
    /\ o.req.aver \in 1..m.version
    /\ o.kind = "revise" => o.req.what = "revise"
    /\ o.kind # "export" =>
         /\ o.q \in QuestionIds /\ o.rev \in Nat
         /\ TypedRequest(o.req, m)
         /\ Answers(o) => TypedAnswer(o.req, o.ans, m)
    /\ o.kind = "export" /\ Answers(o) =>
         o.ans.version \in 1..m.version /\ o.ans.status \in {"creating", "complete", "failed"}

\* The export the page has asked for is of a version the server had.
TypedAttempt(t, m) == t = NoAttempt \/ t \in [asked : 1..m.version, current : Nat]

\* What the page keeps beside its statechart.
TypedRefs(r, m) ==
  /\ DOMAIN r = RefFields
  /\ r.persisted.cand \in Held /\ r.pollRetry \in BOOLEAN
  /\ TypedAttempt(r.attempt, m)

\* What a load has read of the assignment, before the page shows it.
TypedPoll(w) ==
  w.kind = "setup" =>
    /\ w.active \in Nat \ {0} /\ (Order # <<>> => w.active \in DOMAIN Order)
    /\ w.confirmed \in [QuestionIds -> ConfirmedAnswer \cup {NoAnswer}]
    /\ w.cand \in Held

\* The changes of the server the page has already caused: by the requests of the
\* mutation under way, one a reload left behind, and one for a button pressed.
Owed(o) ==
  IF o = NoOp \/ o.kind = "export" THEN 0
  ELSE (IF o.step = "persist" THEN 1 ELSE 0) + (IF o.ans = NoRequest THEN 1 ELSE 0)
Left    == IF orphan = NoRequest THEN 0 ELSE 1
Pressed == IF page.at = "confirming" /\ op.kind # "confirm" THEN 1 ELSE 0

\* That they all fit under the bound is why every version is one of Versions.
Within == manifest.version + Owed(op) + Left + Pressed <= MaxVersion + 3

\* The invariant.
TInv ==
  /\ TypedServer(manifest) /\ exports \in [Versions -> Statuses]
  /\ TypedPage(page, manifest) /\ settled \in BOOLEAN
  /\ TypedOp(op, manifest)
  /\ orphan # NoRequest => TypedRequest(orphan, manifest)
  /\ TypedRefs(refs, manifest)
  /\ TypedPoll(poll)
  /\ {route.mode, shown.mode} \subseteq Modes
  /\ approved \subseteq QuestionIds \X Texts
  /\ Within

\* What is of its shape stays so on a later server.
LEMMA TypedLater ==
  ASSUME NEW m, m.version \in Nat, NEW n, n.version \in {m.version, m.version + 1}
  PROVE  /\ \A p : TypedPage(p, m) => TypedPage(p, n)
         /\ \A r : TypedRequest(r, m) => TypedRequest(r, n)
         /\ \A r, a : TypedAnswer(r, a, m) => TypedAnswer(r, a, n)
         /\ \A o : TypedOp(o, m) => TypedOp(o, n)
         /\ \A r : TypedRefs(r, m) => TypedRefs(r, n)
<1>1. \A v \in 1..m.version : v \in 1..n.version
  OBVIOUS
<1>2. \A p : TypedPage(p, m) => TypedPage(p, n)
  BY <1>1, Zenon DEF TypedPage
<1>3. \A r : TypedRequest(r, m) => TypedRequest(r, n)
  BY <1>1, Zenon DEF TypedRequest
<1>4. \A r, a : TypedAnswer(r, a, m) => TypedAnswer(r, a, n)
  BY <1>1, Zenon DEF TypedAnswer
<1>5. \A o : TypedOp(o, m) => TypedOp(o, n)
  BY <1>1, <1>3, <1>4, Zenon DEF TypedOp
<1>6. \A t : TypedAttempt(t, m) => TypedAttempt(t, n)
  BY <1>1 DEF TypedAttempt
<1>7. \A r : TypedRefs(r, m) => TypedRefs(r, n)
  BY <1>6, Zenon DEF TypedRefs
<1> QED
  BY <1>2, <1>3, <1>4, <1>5, <1>7

-----------------------------------------------------------------------------
(* The budget of versions.                                                 *)

\* Its terms are small.
LEMMA Budget ==
  /\ \A o : Owed(o) \in 0..2
  /\ Left \in 0..1 /\ Pressed \in 0..1 /\ Left' \in 0..1 /\ Pressed' \in 0..1
  /\ Owed(NoOp) = 0
  /\ \A v : Owed(ExportOp(v)) = 0
BY DEF Owed, Left, Pressed, ExportOp

\* An action that is begun finds room for all of them.
LEMMA RoomWithin ==
  ASSUME manifest.version \in Nat, Room, UNCHANGED manifest
  PROVE  Within'
<1>1. Owed(op') \in 0..2 /\ Left' \in 0..1 /\ Pressed' \in 0..1
  BY Budget
<1>2. manifest'.version < MaxVersion /\ manifest'.version \in Nat
  BY DEF Room
<1> QED
  BY <1>1, <1>2, PageAssumption DEF Within

\* A step that causes no more than the step before it did.
LEMMA StayWithin ==
  ASSUME manifest.version \in Nat, Within, UNCHANGED <<manifest, orphan>>,
         Owed(op') <= Owed(op),
         page'.at = "confirming" => page.at = "confirming" /\ (op' = op \/ op.kind # "confirm")
  PROVE  Within'
<1>1. Owed(op) \in 0..2 /\ Owed(op') \in 0..2 /\ Left \in 0..1 /\ Left' = Left
  BY Budget DEF Left
<1>2. Pressed' <= Pressed /\ Pressed \in 0..1 /\ Pressed' \in 0..1
  BY DEF Pressed
<1> QED
  BY <1>1, <1>2, PageAssumption DEF Within

-----------------------------------------------------------------------------
(* Requests.                                                               *)

\* A mutation that was just begun.
LEMMA FreshTyped ==
  ASSUME NEW m, NEW o, o.ans = NoRequest, o.kind # "export",
         o.q \in QuestionIds, o.rev \in Nat, TypedRequest(o.req, m),
         o.kind = "revise" => o.req.what = "revise"
  PROVE  TypedOp(o, m)
BY DEF TypedOp, Answers, TypedRequest

\* What is sent, with what is kept over the await.
LEMMA AwaitTyped ==
  ASSUME NEW m, NEW p, IsContext(p), NEW q \in QuestionIds, NEW kind, kind # "export",
         NEW step, NEW text, NEW req, TypedRequest(req, m),
         kind = "revise" => req.what = "revise"
  PROVE  TypedOp(Await(kind, step, p, q, text, req), m)
<1> DEFINE o == Await(kind, step, p, q, text, req)
<1>1. /\ o.kind = kind /\ o.req = req /\ o.ans = NoRequest /\ o.q = q
      /\ o.rev = p.drafts[q].rev
  BY AwaitFields, AwaitReads
<1> HIDE DEF o
<1>2. o.rev \in Nat
  BY <1>1, DraftShape
<1>3. TypedOp(o, m)
  BY <1>1, <1>2, FreshTyped
<1> QED
  BY <1>3 DEF o

\* The requests about a question, a version and a candidate.
LEMMA RequestsTyped ==
  ASSUME NEW m, NEW q \in QuestionIds, NEW v \in 1..m.version, NEW c
  PROVE  /\ \A what : what # "candidate" /\ (what = "rephrase" => c \in Held)
              => TypedRequest(AboutCandidate(what, q, v, c), m)
         /\ TypedRequest(Request("revise", q, v), m)
<1>1. \A what : /\ Request(what, q, v).what = what /\ Request(what, q, v).q = q
                /\ Request(what, q, v).aver = v
  BY DEF Request
<1>2. \A what : /\ AboutCandidate(what, q, v, c).what = what /\ AboutCandidate(what, q, v, c).q = q
                /\ AboutCandidate(what, q, v, c).aver = v /\ AboutCandidate(what, q, v, c).cand = c
  BY DEF AboutCandidate, Request
<1> QED
  BY <1>1, <1>2 DEF TypedRequest

\* The request after a candidate is stored.
LEMMA FollowTyped ==
  ASSUME NEW m, NEW p, IsContext(p), NEW q \in QuestionIds, NEW v \in 1..m.version,
         NEW c, NEW kind \in {"rephrase", "review"}, kind = "rephrase" => c \in Held
  PROVE  TypedOp(Follow(kind, p, q, v, c), m) /\ Owed(Follow(kind, p, q, v, c)) = 1
<1> DEFINE o == Follow(kind, p, q, v, c)
<1>1. TypedRequest(AboutCandidate(kind, q, v, c), m)
  BY RequestsTyped
<1>2. TypedOp(o, m)
  BY <1>1, AwaitTyped DEF Follow
<1>3. DOMAIN o = OpFields /\ o.kind = kind /\ o.step = "main" /\ o.ans = NoRequest
  BY AwaitFields, AwaitReads DEF Follow
<1> HIDE DEF o
<1>4. DOMAIN NoOp # OpFields
  BY DEF NoOp, OpFields
<1>5. Owed(o) = 1
  BY <1>3, <1>4 DEF Owed
<1> QED
  BY <1>2, <1>5 DEF o

\* The review of a selection.
LEMMA SelectTyped ==
  ASSUME NEW m, NEW p, IsContext(p), NEW q \in QuestionIds, NEW v \in 1..m.version, NEW c
  PROVE  /\ TypedOp([Follow("review", p, q, v, c) EXCEPT !.kind = "select"], m)
         /\ Owed([Follow("review", p, q, v, c) EXCEPT !.kind = "select"]) = 1
<1> DEFINE r == Follow("review", p, q, v, c)
           z == [r EXCEPT !.kind = "select"]
<1>1. TypedRequest(AboutCandidate("review", q, v, c), m)
  BY RequestsTyped
<1>2. /\ DOMAIN r = OpFields /\ r.step = "main" /\ r.ans = NoRequest
      /\ r.q = q /\ r.rev = p.drafts[q].rev /\ r.req = AboutCandidate("review", q, v, c)
  BY AwaitFields, AwaitReads DEF Follow
<1> HIDE DEF r
<1>3. /\ z.kind = "select" /\ z.step = "main" /\ z.ans = NoRequest
      /\ z.q = q /\ z.rev = p.drafts[q].rev /\ z.req = AboutCandidate("review", q, v, c)
      /\ DOMAIN z = OpFields
  BY <1>2 DEF OpFields
<1> HIDE DEF z
<1>4. z.rev \in Nat
  BY <1>3, DraftShape
<1>5. TypedOp(z, m)
  BY <1>1, <1>3, <1>4, FreshTyped
<1>6. DOMAIN NoOp # OpFields
  BY DEF NoOp, OpFields
<1>7. Owed(z) = 1
  BY <1>3, <1>6 DEF Owed
<1> QED
  BY <1>5, <1>7 DEF z, r

\* The wording on the page, to be stored.
LEMMA WordingTyped ==
  ASSUME NEW m, NEW p, IsContext(p), HasQuestion(p), HasCandidate(p),
         p.version \in 1..m.version, NEW r
  PROVE  TypedRequest(CandidateRequest(p, r), m)
<1> DEFINE q == ActiveQuestion(p)
           direct == [Request("candidate", q, p.version) EXCEPT !.text = p.cand.text]
           edited == [direct EXCEPT !.origin = "student_edited", !.prior = r.source.ver]
<1>1. q \in QuestionIds /\ p.cand.text \in Texts
  BY PageShape DEF HasCandidate, Held, Candidate
<1>2. /\ direct.what = "candidate" /\ direct.q = q /\ direct.aver = p.version
      /\ direct.text = p.cand.text /\ direct.origin = "student_verbatim"
      /\ edited.what = "candidate" /\ edited.q = q /\ edited.aver = p.version
      /\ edited.text = p.cand.text /\ edited.origin = "student_edited"
  BY DEF Request
<1>3. CandidateRequest(p, r) = IF r.source.q = q THEN edited ELSE direct
  BY DEF CandidateRequest
<1>4. {"student_verbatim", "student_edited"} \subseteq S!Origins
  BY DEF S!Origins
<1> HIDE DEF direct, edited, q
<1>5. TypedRequest(direct, m) /\ TypedRequest(edited, m)
  BY <1>1, <1>2, <1>4 DEF TypedRequest
<1> QED
  BY <1>3, <1>5

\* requestRephrase and requestReview.
LEMMA BeginTyped ==
  ASSUME NEW m, NEW p, IsContext(p), HasQuestion(p), HasCandidate(p),
         p.version \in 1..m.version, NEW kind \in {"rephrase", "review"}
  PROVE  TypedOp(Begin(kind, p), m)
<1> DEFINE q == ActiveQuestion(p)
<1>1. q \in QuestionIds /\ p.cand \in Held
  BY PageShape
<1>2. TypedOp(Follow(kind, p, q, p.version, p.cand), m)
  BY <1>1, FollowTyped
<1>3. TypedRequest(CandidateRequest(p, refs), m)
  BY WordingTyped
<1>4. TypedOp(Await(kind, "persist", p, q, p.cand.text, CandidateRequest(p, refs)), m)
  BY <1>1, <1>3, AwaitTyped
<1> QED
  BY <1>2, <1>4 DEF Begin

-----------------------------------------------------------------------------
(* Steps.                                                                  *)

\* What the invariants say of the page, for its events.
LEMMA TypedFacts ==
  ASSUME PInv, TInv
  PROVE  /\ IsContext(page) /\ DOMAIN page = PageFields
         /\ manifest.version \in Nat /\ manifest.version \in 1..manifest.version
         /\ TypedServer(manifest) /\ WellFormed(manifest)
         /\ TypedPage(page, manifest) /\ Shaped(page, page, manifest)
         /\ Loaded(page) => /\ HasQuestion(page) /\ ActiveQuestion(page) \in QuestionIds
                            /\ page.version \in 1..manifest.version
<1>1. /\ IsContext(page) /\ TypedPage(page, manifest) /\ TypedServer(manifest)
      /\ Loaded(page) => HasQuestion(page) /\ page.version > 0
  BY DEF TInv, TypedPage
<1>2. manifest.version \in Nat /\ manifest.version \in 1..manifest.version
  BY <1>1, ServerVersion
<1>3. /\ DOMAIN page = PageFields /\ page.version \in 0..manifest.version
      /\ WellFormed(manifest)
  BY PageFacts DEF PInv, GoodPage
<1>4. HasQuestion(page) => ActiveQuestion(page) \in QuestionIds
  BY <1>1, PageShape
<1>5. page.version > 0 => page.version \in 1..manifest.version
  BY <1>2, <1>3
<1> QED
  BY <1>1, <1>2, <1>3, <1>4, <1>5, SameShape

\* Whether the effects have run is yes or no.
LEMMA SendSettles == \A p : Send(p) => settled' \in BOOLEAN
BY Zenon DEF Send

\* An event that keeps the shape of the page, with the mutation of the right shape.
LEMMA ShapedStep ==
  ASSUME PInv, TInv, UNCHANGED <<manifest, exports, orphan>>,
         Shaped(page, page', manifest), settled' \in BOOLEAN, TypedOp(op', manifest),
         TypedRefs(refs', manifest), TypedPoll(poll'),
         {route'.mode, shown'.mode} \subseteq Modes, approved' \subseteq QuestionIds \X Texts,
         Within'
  PROVE  TInv'
<1>1. TypedPage(page', manifest)
  BY TypedFacts, ShapedKeep
<1> QED
  BY <1>1 DEF TInv

\* One that leaves all else alone.
LEMMA EventStep ==
  ASSUME PInv, TInv, UNCHANGED <<manifest, exports, orphan, op, refs, poll, route, shown, approved>>,
         Shaped(page, page', manifest), settled' \in BOOLEAN,
         page'.at = "confirming" => page.at = "confirming"
  PROVE  TInv'
<1>1. Owed(op') <= Owed(op)
  BY Budget
<1>2. Within'
  BY <1>1, TypedFacts, StayWithin DEF TInv
<1> QED
  BY <1>2, ShapedStep DEF TInv

\* A mutation is begun while the page stays as it is.
LEMMA BegunStep ==
  ASSUME PInv, TInv, UNCHANGED <<manifest, exports, orphan, page, settled, refs, poll, route, shown,
                                 approved>>,
         Room, TypedOp(op', manifest)
  PROVE  TInv'
BY TypedFacts, RoomWithin, ShapedStep DEF TInv

\* The student writes.
LEMMA TypedWrite ==
  ASSUME PInv, TInv, Write
  PROVE  TInv'
<1>0. IsContext(page) /\ DOMAIN page = PageFields
  BY TypedFacts
<1>1. ASSUME NEW text \in Texts, Type(text) \/ Dictate(text) PROVE TInv'
  <2>1. /\ page' \in {CandidateChanged(page, text), VoiceCaptured(page, text)}
        /\ UNCHANGED <<manifest, exports, orphan, op, refs, poll, route, shown, approved>>
        /\ \E p : Send(p)
    BY <1>1 DEF Type, Dictate, Send
  <2>2. Shaped(page, page', manifest)
    BY <1>0, <2>1, WritingShaped
  <2>3. Turns(page, page', manifest)
    BY <1>0, <2>1, WritingTurns
  <2> QED
    BY <2>1, <2>2, <2>3, SendSettles, EventStep DEF Turns
<1>2. CASE AskRephrase
  <2> DEFINE p == RequestRephrase(page)
  <2>1. /\ page' = p /\ Send(p) /\ op' = Begin("rephrase", p) /\ Room
        /\ UNCHANGED <<manifest, exports, orphan, refs, poll, route, shown, approved>>
        /\ "clearer" \in Offers(page) \/ VoiceMayAsk
    BY <1>2 DEF AskRephrase, Send
  <2>2. HasCandidate(page) /\ Loaded(page)
    BY <2>1, OffersAreLoaded
       DEF Offers, ConversationOffers, RephrasingOffers, ComparisonOffers, ExactReviewOffers,
           AnswerAddedOffers, WorksheetOffers, ExportFailureOffers, ExportCompleteOffers,
           VoiceMayAsk
  <2>3. HasQuestion(page) /\ page.version \in 1..manifest.version
    BY <2>2, TypedFacts
  <2>4. /\ p.cand = page.cand /\ p.version = page.version /\ p.questions = page.questions
        /\ p.active = page.active
    BY <1>0 DEF RequestRephrase, PageFields
  <2>5. Shaped(page, p, manifest)
    BY <1>0, PlainShaped
  <2>6. IsContext(p)
    BY <2>5, TypedFacts, ShapedKeep DEF TypedPage
  <2> HIDE DEF p
  <2>7. HasCandidate(p) /\ HasQuestion(p) /\ p.version \in 1..manifest.version
    BY <2>2, <2>3, <2>4 DEF HasCandidate, HasQuestion
  <2>8. TypedOp(op', manifest)
    BY <2>1, <2>6, <2>7, BeginTyped
  <2>9. Within'
    BY <2>1, TypedFacts, RoomWithin
  <2> QED
    BY <2>1, <2>5, <2>8, <2>9, SendSettles, ShapedStep DEF TInv
<1>3. CASE AskReview
  <2>1. /\ op' = Begin("review", page) /\ Room
        /\ UNCHANGED <<manifest, exports, orphan, page, settled, refs, poll, route, shown, approved>>
        /\ "review" \in Offers(page) \/ VoiceMayAsk
    BY <1>3 DEF AskReview
  <2>2. HasCandidate(page) /\ Loaded(page)
    BY <2>1, OffersAreLoaded
       DEF Offers, ConversationOffers, RephrasingOffers, ComparisonOffers, ExactReviewOffers,
           AnswerAddedOffers, WorksheetOffers, ExportFailureOffers, ExportCompleteOffers,
           VoiceMayAsk
  <2>3. TypedOp(op', manifest)
    BY <1>0, <2>1, <2>2, TypedFacts, BeginTyped
  <2> QED
    BY <2>1, <2>3, BegunStep
<1>4. CASE KeepOriginal
  <2>1. /\ \E c : op' = [Follow("review", page, ActiveQuestion(page), page.version, c)
                           EXCEPT !.kind = "select"]
        /\ UNCHANGED <<manifest, exports, orphan, page, settled, refs, poll, route, shown, approved>>
        /\ "keep" \in Offers(page) /\ Room
    BY <1>4, Zenon DEF KeepOriginal
  <2>2. Loaded(page)
    BY <2>1, OffersAreLoaded
  <2>3. ActiveQuestion(page) \in QuestionIds /\ page.version \in 1..manifest.version
    BY <2>2, TypedFacts
  <2>4. \A c : TypedOp([Follow("review", page, ActiveQuestion(page), page.version, c)
                         EXCEPT !.kind = "select"], manifest)
    BY <1>0, <2>3, SelectTyped
  <2>5. TypedOp(op', manifest)
    BY <2>1, <2>4
  <2> QED
    BY <2>1, <2>5, BegunStep
<1>5. CASE UseSuggestion
  <2> DEFINE q == ActiveQuestion(page)
             s == page.suggestion
             req == [Request("candidate", q, page.version) EXCEPT
                       !.text = s.text, !.origin = "claros_rephrase", !.prior = s.ver]
  <2>1. /\ \/ \E c : op' = [Follow("review", page, q, page.version, c) EXCEPT !.kind = "select"]
           \/ op' = Await("select", "persist", page, q, s.text, req)
        /\ UNCHANGED <<manifest, exports, orphan, page, settled, refs, poll, route, shown, approved>>
        /\ "use" \in Offers(page) /\ Room
    BY <1>5 DEF UseSuggestion
  <2>2. s # NoCandidate /\ Loaded(page)
    BY <2>1, OffersAreLoaded
       DEF Offers, ConversationOffers, RephrasingOffers, ComparisonOffers, ExactReviewOffers,
           AnswerAddedOffers, WorksheetOffers, ExportFailureOffers, ExportCompleteOffers
  <2>3. s.text \in Texts
    BY <1>0, <2>2, PageShape DEF Held, Candidate
  <2>4. q \in QuestionIds /\ page.version \in 1..manifest.version
    BY <2>2, TypedFacts
  <2>5. /\ req.what = "candidate" /\ req.q = q /\ req.aver = page.version
        /\ req.text = s.text /\ req.origin = "claros_rephrase"
    BY DEF Request
  <2> HIDE DEF req, q, s
  <2>6. TypedRequest(req, manifest)
    BY <2>3, <2>4, <2>5 DEF TypedRequest, S!Origins
  <2>7. TypedOp(Await("select", "persist", page, q, s.text, req), manifest)
    BY <1>0, <2>4, <2>6, AwaitTyped
  <2>8. \A c : TypedOp([Follow("review", page, q, page.version, c) EXCEPT !.kind = "select"], manifest)
    BY <1>0, <2>4, SelectTyped
  <2>9. TypedOp(op', manifest)
    BY <2>1, <2>7, <2>8
  <2> QED
    BY <2>1, <2>9, BegunStep
<1>6. CASE Change
  <2>1. /\ page' = ChangeAnswer(page) /\ Send(page')
        /\ UNCHANGED <<manifest, exports, orphan, op, refs, poll, route, shown, approved>>
    BY <1>6 DEF Change, Send
  <2>2. Shaped(page, page', manifest)
    BY <1>0, <2>1, PlainShaped
  <2>3. Turns(page, page', manifest)
    BY <1>0, <2>1, WritingTurns
  <2> QED
    BY <2>1, <2>2, <2>3, SendSettles, EventStep DEF Turns
<1>7. CASE PressConfirm
  <2>1. /\ page' = Confirm(page) /\ Send(page') /\ Room
        /\ approved' = IF Confirm(page).at = "confirming"
                       THEN approved \cup {<<page.review.q, page.cand.text>>} ELSE approved
        /\ UNCHANGED <<manifest, exports, orphan, op, refs, poll, route, shown>>
        /\ "confirm" \in Offers(page)
    BY <1>7 DEF PressConfirm, Send
  <2>2. page.at # "confirming"
    BY <2>1 DEF Offers, ConversationOffers, RephrasingOffers, ComparisonOffers, AnswerAddedOffers,
                WorksheetOffers, ExportFailureOffers, ExportCompleteOffers
  <2>3. Confirm(page).at = "confirming" => page.review # NoReview /\ page.cand # NoCandidate
    BY <2>2 DEF Confirm, HasCurrentReview, HasCandidate
  <2>4. Confirm(page).at = "confirming" => page.review.q \in QuestionIds /\ page.cand.text \in Texts
    BY <1>0, <2>3, PageShape DEF Held, Candidate, ReviewSnapshot
  <2>5. approved' \subseteq QuestionIds \X Texts
    BY <2>1, <2>4 DEF TInv
  <2>6. Shaped(page, page', manifest)
    BY <1>0, <2>1, PlainShaped
  <2>7. Within'
    BY <2>1, TypedFacts, RoomWithin
  <2> QED
    BY <2>1, <2>5, <2>6, <2>7, SendSettles, ShapedStep DEF TInv
<1> QED
  BY <1>1, <1>2, <1>3, <1>4, <1>5, <1>6, <1>7 DEF Write

\* The student moves about, exports, browses or reloads.
LEMMA TypedMove ==
  ASSUME PInv, TInv, Move
  PROVE  TInv'
<1>0. IsContext(page) /\ DOMAIN page = PageFields /\ TypedRefs(refs, manifest)
  BY TypedFacts DEF TInv
<1>1. CASE Continue \/ (\E q \in QuestionIds : Answer(q) \/ VoiceNavigate(q))
  <2>1. /\ page' = ContinueToNext(page) \/ \E q : page' = GoToQuestion(page, q)
        /\ route' \in {route, Review, Question} /\ Send(page')
        /\ refs' \in {refs, [refs EXCEPT !.persisted = NoPersisted]}
        /\ UNCHANGED <<manifest, exports, orphan, op, poll, shown, approved>>
    BY <1>1 DEF Continue, Answer, VoiceNavigate, Send
  <2>2. Shaped(page, page', manifest)
    BY <1>0, <2>1, MovingShaped
  <2>3. Turns(page, page', manifest)
    BY <1>0, <2>1, MovingTurns
  <2>4. TypedRefs(refs', manifest)
    BY <1>0, <2>1 DEF TypedRefs, RefFields, NoPersisted, Held
  <2>5. Within'
    BY <2>1, <2>3, Budget, TypedFacts, StayWithin DEF TInv, Turns
  <2>6. {route'.mode, shown'.mode} \subseteq Modes
    BY <2>1 DEF TInv, Review, Question, Modes
  <2> QED
    BY <2>1, <2>2, <2>4, <2>5, <2>6, SendSettles, ShapedStep DEF TInv
<1>2. CASE OpenReview \/ TypeInstead \/ ReviewAnswersAfterFailure
  <2>1. /\ page' \in {OpenWorksheetReview(page), ContinueByTyping(page), ReviewAnswers(page)}
        /\ route' \in {route, Review} /\ Send(page')
        /\ UNCHANGED <<manifest, exports, orphan, op, refs, poll, shown, approved>>
    BY <1>2 DEF OpenReview, TypeInstead, ReviewAnswersAfterFailure, Send
  <2>2. Shaped(page, page', manifest)
    BY <1>0, <2>1, PlainShaped
  <2>3. Turns(page, page', manifest)
    BY <1>0, <2>1, MovingTurns
  <2>4. Within'
    BY <2>1, <2>3, Budget, TypedFacts, StayWithin DEF TInv, Turns
  <2>5. {route'.mode, shown'.mode} \subseteq Modes
    BY <2>1 DEF TInv, Review, Modes
  <2> QED
    BY <2>1, <2>2, <2>4, <2>5, SendSettles, ShapedStep DEF TInv
<1>3. CASE PressExport
  <2> DEFINE attempt == IF refs.attempt.current = page.version THEN refs.attempt
                        ELSE [asked |-> page.version, current |-> page.version]
  <2>1. /\ page' \in {ExportPending(page, 0), RetryExport(page), CreateExport(page)}
        /\ Send(page') /\ "export" \in Offers(page)
        /\ UNCHANGED <<manifest, exports, orphan, route, poll, approved>>
        /\ shown' \in {shown, NoRoute}
        /\ \/ op' = op /\ refs' = [refs EXCEPT !.pollRetry = FALSE]
           \/ op' = op /\ refs' = refs
           \/ op = NoOp /\ op' = ExportOp(attempt.asked) /\ refs' = [refs EXCEPT !.attempt = attempt]
    BY <1>3 DEF PressExport, Send, Idle
  <2>2. Loaded(page) /\ page.version \in 1..manifest.version /\ page.version \in Nat
    BY <2>1, OffersAreLoaded, TypedFacts
  <2>3. attempt \in [asked : 1..manifest.version, current : Nat]
    <3>1. refs.attempt.current = page.version => refs.attempt # NoAttempt
      BY <2>2 DEF NoAttempt
    <3> QED
      BY <1>0, <2>2, <3>1 DEF TypedRefs, TypedAttempt
  <2> HIDE DEF attempt
  <2>4. TypedRefs(refs', manifest)
    <3>1. TypedRefs([refs EXCEPT !.pollRetry = FALSE], manifest)
      BY <1>0 DEF TypedRefs, RefFields
    <3>2. TypedRefs([refs EXCEPT !.attempt = attempt], manifest)
      BY <1>0, <2>3 DEF TypedRefs, TypedAttempt, RefFields
    <3> QED
      BY <1>0, <2>1, <3>1, <3>2
  <2>5. TypedOp(ExportOp(attempt.asked), manifest)
    <3>1. attempt.asked \in 1..manifest.version
      BY <2>3
    <3>2. /\ ExportOp(attempt.asked).req.aver = attempt.asked
          /\ ExportOp(attempt.asked).kind = "export"
          /\ ExportOp(attempt.asked).ans = NoRequest
      BY DEF ExportOp, Request
    <3> QED
      BY <3>1, <3>2 DEF TypedOp, Answers
  <2>6. TypedOp(op', manifest)
    BY <2>1, <2>5 DEF TInv
  <2>7. Shaped(page, page', manifest)
    BY <1>0, <2>1, PlainShaped, ExportShaped
  <2>8. Turns(page, page', manifest)
    BY <1>0, <2>1, TypedFacts, PageFacts, ExportTurns
  <2>9. Owed(op') <= Owed(op) /\ (op' = op \/ op.kind # "confirm")
    BY <2>1, Budget DEF NoOp
  <2>10. Within'
    BY <2>1, <2>8, <2>9, TypedFacts, StayWithin DEF TInv, Turns
  <2>11. {route'.mode, shown'.mode} \subseteq Modes
    BY <2>1 DEF TInv, NoRoute, Modes
  <2> QED
    BY <2>1, <2>4, <2>6, <2>7, <2>10, <2>11, SendSettles, ShapedStep DEF TInv
<1>4. CASE \E q \in QuestionIds : Edit(q)
  <2> PICK q \in QuestionIds : Edit(q)
    BY <1>4
  <2> DEFINE req == Request("revise", q, page.version)
             o == Await("revise", "main", page, q, NoText, req)
             e == [o EXCEPT !.follow = (page.at = "worksheetReview")]
  <2>1. /\ op' = e /\ Room /\ "edit" \in Offers(page)
        /\ UNCHANGED <<manifest, exports, orphan, page, settled, refs, poll, route, shown, approved>>
    BY DEF Edit
  <2>2. page.version \in 1..manifest.version
    BY <2>1, OffersAreLoaded, TypedFacts
  <2>3. TypedRequest(req, manifest) /\ req.what = "revise"
    BY <2>2, RequestsTyped, RequestKinds
  <2>4. /\ DOMAIN o = OpFields /\ o.ans = NoRequest /\ o.kind = "revise" /\ o.req = req
        /\ o.q = q /\ o.rev = page.drafts[q].rev
    BY AwaitFields, AwaitReads
  <2> HIDE DEF o, req
  <2>5. /\ e.ans = NoRequest /\ e.kind = "revise" /\ e.req = req
        /\ e.q = q /\ e.rev = page.drafts[q].rev
    BY <2>4 DEF OpFields
  <2> HIDE DEF e
  <2>6. e.rev \in Nat
    BY <1>0, <2>5, DraftShape
  <2>7. TypedOp(e, manifest)
    BY <2>3, <2>5, <2>6, FreshTyped
  <2> QED
    BY <2>1, <2>7, BegunStep
<1>5. CASE \E r \in {Question, Review} \cup {Export(v) : v \in Exported} : Browse(r)
  <2>1. /\ UNCHANGED <<manifest, exports, page, op, refs, shown, poll, settled, orphan, approved>>
        /\ route'.mode \in Modes
    BY <1>5 DEF Browse, Question, Review, Export, Modes
  <2>2. Within'
    BY <2>1, Budget, TypedFacts, StayWithin DEF TInv
  <2> QED
    BY <2>1, <2>2 DEF TInv
<1>6. CASE Reload
  <2>1. /\ page' = InitialContext /\ op' = NoOp /\ poll' = NoOp /\ refs' = NoRefs
        /\ settled' = TRUE /\ shown' = NoRoute
        /\ orphan' = (IF Waiting /\ op.kind \in LeftBehind THEN op.req ELSE NoRequest)
        /\ UNCHANGED <<manifest, exports, route, approved>>
    BY <1>6 DEF Reload
  <2>2. Waiting /\ op.kind \in LeftBehind => op # NoOp /\ op.ans = NoRequest /\ op.kind # "export"
    BY PageAssumption DEF Waiting
  <2>3. orphan' # NoRequest => TypedRequest(orphan', manifest)
    BY <2>1, <2>2 DEF TInv, TypedOp
  <2>4. TypedPage(page', manifest)
    BY <2>1, EmptyTyped
  <2>5. TypedRefs(refs', manifest)
    BY <2>1 DEF TypedRefs, TypedAttempt, NoRefs, NoPersisted, RefFields, Held
  <2>6. Within'
    <3>1. /\ Owed(op) \in 0..2 /\ Left \in 0..1 /\ Pressed \in 0..1
          /\ Owed(op') = 0 /\ Left' \in 0..1
      BY <2>1, Budget
    <3>2. Left' = 1 => Owed(op) \in 1..2
      BY <2>1, <2>2 DEF Left, Owed
    <3>3. Pressed' = 0
      BY <2>1 DEF Pressed, InitialContext
    <3>4. manifest.version \in Nat /\ manifest' = manifest
      BY <2>1, TypedFacts
    <3> QED
      BY <3>1, <3>2, <3>3, <3>4, PageAssumption DEF TInv, Within
  <2>7. TypedPoll(poll') /\ TypedOp(op', manifest)
    BY <2>1 DEF TypedPoll, TypedOp, NoOp
  <2>8. {route'.mode, shown'.mode} \subseteq Modes
    BY <2>1 DEF TInv, NoRoute, Modes
  <2> QED
    BY <2>1, <2>3, <2>4, <2>5, <2>6, <2>7, <2>8 DEF TInv
<1> QED
  BY <1>1, <1>2, <1>3, <1>4, <1>5, <1>6 DEF Move

\* The server answers, or does not.
LEMMA TypedServes ==
  ASSUME PInv, TInv, Server
  PROVE  TInv'
<1>0. /\ UNCHANGED <<page, refs, route, shown, poll, settled, orphan, approved>>
      /\ op # NoOp /\ op.ans = NoRequest
      /\ manifest.version \in Nat /\ TypedServer(manifest) /\ WellFormed(manifest)
      /\ DOMAIN op = OpFields
  BY TypedFacts DEF Server, Serve, ServeExport, LoseRequest, Waiting, PInv, GoodOp
<1>1. ASSUME NEW a, op' = [op EXCEPT !.ans = a]
      PROVE  /\ DOMAIN op' = OpFields /\ op'.kind = op.kind /\ op'.step = op.step /\ op'.q = op.q
             /\ op'.rev = op.rev /\ op'.req = op.req /\ op'.ans = a /\ Pressed' = Pressed
  BY <1>0, <1>1 DEF OpFields, Pressed
<1>2. CASE Serve
  <2>1. op.kind # "export" /\ \E h \in Replies(manifest, op.req) :
                                manifest' = h.m /\ op' = [op EXCEPT !.ans = h.ans]
    BY <1>2 DEF Serve
  <2>2. PICK h \in Replies(manifest, op.req) : manifest' = h.m /\ op' = [op EXCEPT !.ans = h.ans]
    BY <2>1
  <2>3. UNCHANGED exports
    BY <1>2 DEF Serve
  <2>4. /\ TypedRequest(op.req, manifest) /\ op.req.what \in AnswerRequests
        /\ op.q \in QuestionIds /\ op.rev \in Nat /\ op.req.aver \in 1..manifest.version
        /\ op.kind = "revise" => op.req.what = "revise"
    BY <1>0, <2>1 DEF TInv, TypedOp, PInv, GoodOp, GoodRequest
  <2>5. TypedReply(manifest, op.req, h)
    BY <1>0, <2>2, <2>4, RequestAnswered
  <2>6. /\ TypedServer(manifest') /\ manifest'.version \in {manifest.version, manifest.version + 1}
        /\ h.ans # NoRequest /\ (h.ans # Failed => TypedAnswer(op.req, h.ans, manifest'))
    BY <2>2, <2>5 DEF TypedReply
  <2>7. /\ TypedPage(page, manifest') /\ TypedRefs(refs, manifest')
        /\ TypedRequest(op.req, manifest') /\ (orphan # NoRequest => TypedRequest(orphan, manifest'))
    BY <1>0, <2>4, <2>6, TypedLater DEF TInv
  <2>8. /\ op'.kind = op.kind /\ op'.q = op.q /\ op'.rev = op.rev /\ op'.req = op.req
        /\ op'.ans = h.ans /\ op'.step = op.step /\ Pressed' = Pressed
    BY <1>1, <2>2
  <2>9. TypedOp(op', manifest')
    BY <2>1, <2>4, <2>6, <2>7, <2>8 DEF TypedOp, Answers, TypedRequest
  <2>10. Within'
    <3>1. Owed(op') <= Owed(op) - 1 /\ Owed(op) \in 0..2 /\ Owed(op') \in 0..2
      BY <1>0, <2>1, <2>6, <2>8 DEF Owed
    <3>2. Left' = Left /\ Left \in 0..1 /\ Pressed \in 0..1
      BY <1>0, Budget DEF Left
    <3> QED
      BY <1>0, <2>6, <2>8, <3>1, <3>2, PageAssumption DEF TInv, Within
  <2> QED
    BY <1>0, <2>3, <2>6, <2>7, <2>9, <2>10 DEF TInv
<1>3. CASE ServeExport
  <2> DEFINE v == manifest.version
  <2>1. op.kind = "export" /\ UNCHANGED manifest
    BY <1>3 DEF ServeExport
  <2> PICK status \in ExportStatuses(v) :
             /\ exports' = [exports EXCEPT ![v] = status]
             /\ op' \in {[op EXCEPT !.ans = [ok |-> TRUE, version |-> v, status |-> status]],
                         [op EXCEPT !.ans = Failed]}
    BY <1>3 DEF ServeExport
  <2>2. exports' \in [Versions -> Statuses]
    BY DEF TInv, ExportStatuses, Statuses
  <2>3. /\ op'.kind = "export" /\ op'.req = op.req /\ Pressed' = Pressed
        /\ Answers(op') => /\ op'.ans.version = v
                           /\ op'.ans.status \in {"creating", "complete", "failed"}
    <3>1. CASE op' = [op EXCEPT !.ans = [ok |-> TRUE, version |-> v, status |-> status]]
      BY <1>1, <2>1, <3>1 DEF ExportStatuses
    <3>2. CASE op' = [op EXCEPT !.ans = Failed]
      BY <1>1, <2>1, <3>2 DEF Answers
    <3> QED
      BY <3>1, <3>2
  <2>4. TypedOp(op', manifest)
    <3>1. op.req.aver \in 1..v
      BY <1>0 DEF TInv, TypedOp
    <3>2. v \in 1..v
      BY <1>0, <3>1
    <3> QED
      BY <2>3, <3>1, <3>2 DEF TypedOp
  <2>5. Within'
    BY <1>0, <2>1, <2>3 DEF TInv, Within, Owed, Left
  <2> QED
    BY <1>0, <2>1, <2>2, <2>4, <2>5 DEF TInv
<1>4. CASE LoseRequest
  <2>1. op' = [op EXCEPT !.ans = Failed] /\ UNCHANGED <<manifest, exports>>
    BY <1>4 DEF LoseRequest
  <2>2. /\ op'.kind = op.kind /\ op'.q = op.q /\ op'.rev = op.rev /\ op'.req = op.req
        /\ op'.ans = Failed /\ op'.step = op.step
    BY <1>1, <2>1
  <2>3. TypedOp(op', manifest)
    BY <1>0, <2>2 DEF TInv, TypedOp, Answers
  <2>4. Owed(op') <= Owed(op)
    BY <1>0, <2>2 DEF Owed
  <2>5. Within'
    <3>1. Left' = Left /\ Pressed' = Pressed /\ manifest' = manifest
      BY <1>0, <1>1, <2>1 DEF Left
    <3>2. Owed(op) \in 0..2 /\ Owed(op') \in 0..2 /\ Left \in 0..1 /\ Pressed \in 0..1
      BY Budget
    <3> QED
      BY <1>0, <2>4, <3>1, <3>2, PageAssumption DEF TInv, Within
  <2> QED
    BY <1>0, <2>1, <2>3, <2>5 DEF TInv
<1> QED
  BY <1>2, <1>3, <1>4 DEF Server

\* A request of before the reload lands.
LEMMA TypedOrphan ==
  ASSUME PInv, TInv, ServeOrphan
  PROVE  TInv'
<1>1. /\ orphan # NoRequest /\ orphan' = NoRequest
      /\ \E h \in Replies(manifest, orphan) : manifest' = h.m
      /\ UNCHANGED <<exports, page, op, refs, route, shown, poll, settled, approved>>
  BY DEF ServeOrphan
<1>2. PICK h \in Replies(manifest, orphan) : manifest' = h.m
  BY <1>1
<1>3. TypedReply(manifest, orphan, h)
  BY <1>1, <1>2, TypedFacts, RequestAnswered DEF TInv, PInv, GoodRequest
<1>4. TypedServer(manifest') /\ manifest'.version \in {manifest.version, manifest.version + 1}
  BY <1>2, <1>3 DEF TypedReply
<1>5. /\ TypedPage(page, manifest') /\ TypedRefs(refs, manifest') /\ TypedOp(op, manifest')
  BY <1>4, TypedFacts, TypedLater DEF TInv
<1>6. Within'
  <2>1. Left = 1 /\ Left' = 0 /\ Owed(op') = Owed(op) /\ Pressed' = Pressed
    BY <1>1 DEF Left, Pressed
  <2>2. Owed(op) \in 0..2 /\ Pressed \in 0..1 /\ manifest.version \in Nat
    BY Budget, TypedFacts
  <2> QED
    BY <1>4, <2>1, <2>2, PageAssumption DEF TInv, Within
<1> QED
  BY <1>1, <1>4, <1>5, <1>6 DEF TInv

\* The effects after a render: the confirmation that is sent was counted already.
LEMMA TypedEffects ==
  ASSUME PInv, TInv, RunEffects
  PROVE  TInv'
<1>0. /\ UNCHANGED <<manifest, exports, page, refs, route, shown, poll, orphan, approved>>
      /\ settled' = TRUE
  BY DEF RunEffects
<1>1. CASE page.at = "confirming" /\ Idle /\ page.review # NoReview /\ HasCandidate(page)
  <2> DEFINE about == AboutCandidate("confirm", page.review.q, page.review.aver, page.cand)
             req == [about EXCEPT !.tok = page.review.tok]
             o == Await("confirm", "main", page, page.review.q, page.cand.text, req)
  <2>1. op' = o
    BY <1>1 DEF RunEffects
  <2>2. IsContext(page) /\ page.review.aver \in 1..manifest.version
    BY <1>1, TypedFacts DEF TypedPage
  <2>3. page.review.q \in QuestionIds
    BY <1>1, <2>2, PageShape DEF ReviewSnapshot
  <2>4. req.what = "confirm" /\ req.q = page.review.q /\ req.aver = page.review.aver
    BY DEF AboutCandidate, Request
  <2> HIDE DEF req
  <2>5. TypedRequest(req, manifest)
    BY <2>2, <2>3, <2>4 DEF TypedRequest
  <2>6. TypedOp(o, manifest)
    BY <2>2, <2>3, <2>5, AwaitTyped
  <2>7. o.kind = "confirm" /\ o.step = "main" /\ DOMAIN o = OpFields
    BY AwaitFields
  <2> HIDE DEF o
  <2>8. Within'
    <3>1. Owed(op) = 0 /\ Pressed = 1
      BY <1>1, Budget DEF Idle, Pressed, NoOp
    <3>2. Owed(op') <= 1 /\ Owed(op') \in 0..2 /\ Pressed' = 0
      BY <2>1, <2>7 DEF Owed, Pressed
    <3>3. Left' = Left /\ Left \in 0..1 /\ manifest' = manifest /\ manifest.version \in Nat
      BY <1>0, Budget, TypedFacts DEF Left
    <3> QED
      BY <3>1, <3>2, <3>3, PageAssumption DEF TInv, Within
  <2> QED
    BY <1>0, <2>1, <2>6, <2>8 DEF TInv
<1>2. CASE ~(page.at = "confirming" /\ Idle /\ page.review # NoReview /\ HasCandidate(page))
  <2>1. op' = op
    BY <1>2 DEF RunEffects
  <2>2. Within'
    BY <1>0, <2>1, Budget, TypedFacts, StayWithin DEF TInv
  <2> QED
    BY <1>0, <2>1, <2>2 DEF TInv
<1> QED
  BY <1>1, <1>2

\* What an answer that came has the shape of.
LEMMA AnswerTyped ==
  ASSUME PInv, LInv, TInv, op # NoOp, Answers(op), op.kind # "export"
  PROVE  /\ op.q \in QuestionIds /\ op.rev \in Nat
         /\ TypedRequest(op.req, manifest) /\ TypedAnswer(op.req, op.ans, manifest)
         /\ op.kind \in {"rephrase", "review", "select"} =>
              op.req.what = IF op.step = "persist" THEN "candidate"
                            ELSE IF op.kind = "rephrase" THEN "rephrase" ELSE "review"
         /\ op.kind \in {"confirm", "revise"} => op.req.what = op.kind
BY DEF TInv, TypedOp, LInv, Fitting, PInv, GoodOp

\* What the code remembers of a candidate has its shape.
LEMMA RemembersTyped ==
  ASSUME NEW r, NEW m, TypedRefs(r, m), NEW c \in Held, NEW v
  PROVE  /\ \A q : TypedRefs(Persisted(r, q, v, c), m)
         /\ TypedRefs([r EXCEPT !.persisted = [aver |-> v, cand |-> c]], m)
         /\ TypedRefs([r EXCEPT !.persisted = NoPersisted], m)
         /\ \A s : TypedRefs([r EXCEPT !.persisted = NoPersisted, !.source = s], m)
<1>1. DOMAIN r = RefFields /\ r.pollRetry \in BOOLEAN /\ TypedAttempt(r.attempt, m)
  BY DEF TypedRefs
<1>2. NoPersisted.cand \in Held
  BY DEF NoPersisted, Held
<1>3. TypedRefs([r EXCEPT !.persisted = [aver |-> v, cand |-> c]], m)
  BY <1>1 DEF TypedRefs, RefFields
<1>4. TypedRefs([r EXCEPT !.persisted = NoPersisted], m)
  BY <1>1, <1>2 DEF TypedRefs, RefFields
<1>5. \A s : TypedRefs([r EXCEPT !.persisted = NoPersisted, !.source = s], m)
  BY <1>1, <1>2 DEF TypedRefs, RefFields
<1>6. ASSUME NEW s
      PROVE  TypedRefs([r EXCEPT !.persisted = [aver |-> v, cand |-> c], !.source = s], m)
  BY <1>1 DEF TypedRefs, RefFields
<1>7. ASSUME NEW q PROVE TypedRefs(Persisted(r, q, v, c), m)
  <2>1. \E s : Persisted(r, q, v, c)
                 = [r EXCEPT !.persisted = [aver |-> v, cand |-> c], !.source = s]
    BY DEF Persisted
  <2> QED
    BY <1>6, <2>1
<1> QED
  BY <1>3, <1>4, <1>5, <1>7

\* A mutation that ends, or goes on with no more to change than before.
LEMMA TakenStep ==
  ASSUME PInv, TInv, UNCHANGED <<manifest, exports, orphan, poll, shown, approved>>,
         Shaped(page, page', manifest), settled' \in BOOLEAN, TypedRefs(refs', manifest),
         route'.mode \in Modes,
         op' = NoOp \/ (TypedOp(op', manifest) /\ Owed(op') <= Owed(op)),
         page'.at = "confirming" => page.at = "confirming" /\ op.kind # "confirm"
  PROVE  TInv'
<1>1. Owed(op') <= Owed(op)
  BY Budget
<1>2. Within'
  BY <1>1, TypedFacts, StayWithin DEF TInv
<1>3. TypedOp(op', manifest)
  BY DEF TypedOp
<1> QED
  BY <1>2, <1>3, ShapedStep DEF TInv

\* The page takes an answer in.
LEMMA TypedTake ==
  ASSUME PInv, LInv, TInv, Take
  PROVE  TInv'
<1>0. /\ IsContext(page) /\ DOMAIN page = PageFields /\ TypedPage(page, manifest)
      /\ TypedRefs(refs, manifest) /\ manifest.version \in Nat
      /\ route.mode \in Modes /\ settled \in BOOLEAN /\ Shaped(page, page, manifest)
  BY TypedFacts DEF TInv
<1>1. UNCHANGED <<manifest, exports, orphan, poll, shown, approved>> /\ op # NoOp
  BY DEF Take, TakeFailure, TakePersisted, TakeSelected, TakeRephrase, TakeReview,
         TakeConfirmed, TakeRevision, TakeExport
<1>2. CASE TakeFailure
  <2>1. /\ page' \in {RephraseFailed(page), ConfirmFailed(page), ExportFailed(page, 0),
                      RequestFailed(page)}
        /\ op.kind = "confirm" => page' = ConfirmFailed(page)
        /\ Send(page') /\ op' = NoOp /\ refs' = refs /\ route' = route
    BY <1>2 DEF TakeFailure, FailedEvent, Send
  <2>2. Shaped(page, page', manifest)
    BY <1>0, <2>1, PlainShaped, ExportShaped
  <2>3. Turns(page, page', manifest)
    BY <1>0, <2>1, PageFacts, FailureTurns, ExportTurns
  <2>4. ConfirmFailed(page).at # "confirming"
    BY <1>0 DEF ConfirmFailed, PageFields
  <2> QED
    BY <1>0, <1>1, <2>1, <2>2, <2>3, <2>4, SendSettles, TakenStep DEF Turns
<1>3. CASE TakePersisted
  <2> DEFINE a == op.ans
             p == CandidatePersisted(page, a.version, a.cand, op.q, op.rev, op.epoch)
             o == Follow(op.kind, p, op.q, a.version, a.cand)
             r == Persisted(refs, op.q, a.version, a.cand)
  <2>1. /\ op.kind \in {"rephrase", "review"} /\ op.step = "persist" /\ Answers(op)
        /\ page' = p /\ Send(p) /\ route' = route
        /\ \/ refs' = r /\ op' = o
           \/ refs' = refs /\ op' = NoOp
    BY <1>3 DEF TakePersisted, Send, Answers
  <2>2. /\ op.q \in QuestionIds /\ op.rev \in Nat /\ op.req.what = "candidate"
        /\ TypedAnswer(op.req, a, manifest)
    BY <1>1, <2>1, AnswerTyped
  <2>3. a.version \in 1..manifest.version /\ a.cand \in Candidate /\ a.cand \in Held
    BY <2>2 DEF TypedAnswer, Held
  <2>4. Turns(page, p, manifest)
    <3>1. a.version \in 0..manifest.version
      BY <2>3
    <3> HIDE DEF a
    <3> QED
      BY <1>0, <3>1, AnswerTurns
  <2> HIDE DEF a
  <2>5. Shaped(page, p, manifest)
    BY <1>0, <2>2, <2>3, StoredShaped
  <2> HIDE DEF p
  <2>6. IsContext(p)
    BY <1>0, <2>5, ShapedKeep DEF TypedPage
  <2>7. TypedOp(o, manifest) /\ Owed(o) = 1
    <3> DEFINE kind == op.kind
               q == op.q
               v == a.version
               c == a.cand
    <3>1. /\ kind \in {"rephrase", "review"} /\ q \in QuestionIds
          /\ v \in 1..manifest.version /\ c \in Held
      BY <2>1, <2>2, <2>3
    <3> HIDE DEF kind, q, v, c
    <3>2. TypedOp(Follow(kind, p, q, v, c), manifest) /\ Owed(Follow(kind, p, q, v, c)) = 1
      BY <2>6, <3>1, FollowTyped
    <3> QED
      BY <3>2 DEF kind, q, v, c
  <2>8. Owed(op) = 1
    BY <1>1, <2>1 DEF Owed, Answers
  <2>9. TypedRefs(r, manifest)
    BY <1>0, <2>3, RemembersTyped
  <2> HIDE DEF o, r
  <2>10. page'.at = "confirming" => page.at = "confirming" /\ op.kind # "confirm"
    BY <2>1, <2>4 DEF Turns
  <2>11. op' = NoOp \/ (TypedOp(op', manifest) /\ Owed(op') <= Owed(op))
    BY <2>1, <2>7, <2>8
  <2>12. Shaped(page, page', manifest) /\ settled' \in BOOLEAN /\ TypedRefs(refs', manifest)
         /\ route'.mode \in Modes
    BY <1>0, <2>1, <2>5, <2>9, SendSettles
  <2> QED
    BY <1>1, <2>10, <2>11, <2>12, TakenStep
<1>4. CASE TakeSelected
  <2> DEFINE a == op.ans
             any == -1
             p == CandidatePersisted(page, a.version, a.cand, a.cand.q, any, any)
             o == [Follow("review", p, op.q, a.version, a.cand) EXCEPT !.kind = "select"]
             r == Persisted(refs, op.q, a.version, a.cand)
  <2>1. /\ op.kind = "select" /\ op.step = "persist" /\ Answers(op)
        /\ page' = p /\ Send(p) /\ route' = route /\ refs' = r /\ op' = o
    BY <1>4 DEF TakeSelected, Send, Answers
  <2>2. /\ op.q \in QuestionIds /\ op.req.what = "candidate"
        /\ TypedAnswer(op.req, a, manifest)
    BY <1>1, <2>1, AnswerTyped
  <2>3. /\ a.version \in 1..manifest.version /\ a.cand \in Candidate /\ a.cand \in Held
        /\ a.cand.q \in QuestionIds
    BY <2>2 DEF TypedAnswer, Held, Candidate
  <2>4. a.version \in 0..manifest.version
    BY <2>3
  <2>5. any \in Nat \cup {-1}
    OBVIOUS
  <2> HIDE DEF a, any
  <2>6. Turns(page, p, manifest)
    BY <1>0, <2>4, AnswerTurns
  <2>7. Shaped(page, p, manifest)
    BY <1>0, <2>3, <2>5, StoredShaped
  <2> HIDE DEF p
  <2>8. IsContext(p)
    BY <1>0, <2>7, ShapedKeep DEF TypedPage
  <2>9. TypedOp(o, manifest) /\ Owed(o) = 1
    BY <2>2, <2>3, <2>8, SelectTyped
  <2>10. Owed(op) = 1
    BY <1>1, <2>1 DEF Owed, Answers
  <2>11. TypedRefs(r, manifest)
    BY <1>0, <2>3, RemembersTyped
  <2> HIDE DEF o, r
  <2>12. page'.at = "confirming" => page.at = "confirming" /\ op.kind # "confirm"
    BY <2>1, <2>6 DEF Turns
  <2>13. TypedOp(op', manifest) /\ Owed(op') <= Owed(op)
    BY <2>1, <2>9, <2>10
  <2>14. Shaped(page, page', manifest) /\ settled' \in BOOLEAN /\ TypedRefs(refs', manifest)
         /\ route'.mode \in Modes
    BY <1>0, <2>1, <2>7, <2>11, SendSettles
  <2> QED
    BY <1>1, <2>12, <2>13, <2>14, TakenStep
<1>5. CASE TakeRephrase
  <2> DEFINE a == op.ans
  <2>1. /\ op.kind = "rephrase" /\ op.step = "main" /\ Answers(op) /\ op' = NoOp /\ route' = route
        /\ \/ page' = page /\ refs' = refs /\ settled' = settled
           \/ /\ page' = RephraseReady(page, a.cand, a.suggestion, a.version) /\ Send(page')
              /\ refs' = [refs EXCEPT !.persisted = [aver |-> a.version, cand |-> op.req.cand]]
    BY <1>5 DEF TakeRephrase, Send, Answers
  <2>2. /\ op.req.what = "rephrase" /\ TypedRequest(op.req, manifest)
        /\ TypedAnswer(op.req, a, manifest)
    BY <1>1, <2>1, AnswerTyped
  <2>3. /\ a.version \in 1..manifest.version /\ a.cand \in Candidate
        /\ a.suggestion \in Candidate /\ op.req.cand \in Held
    BY <2>2 DEF TypedAnswer, TypedRequest
  <2>4. a.version \in 0..manifest.version
    BY <2>3
  <2> HIDE DEF a
  <2>5. Shaped(page, RephraseReady(page, a.cand, a.suggestion, a.version), manifest)
    BY <1>0, <2>3, AnswersShaped
  <2>6. Turns(page, RephraseReady(page, a.cand, a.suggestion, a.version), manifest)
    BY <1>0, <2>4, AnswerTurns
  <2>7. TypedRefs(refs', manifest)
    <3>1. TypedRefs([refs EXCEPT !.persisted = [aver |-> a.version, cand |-> op.req.cand]], manifest)
      BY <1>0, <2>3, RemembersTyped
    <3> QED
      BY <1>0, <2>1, <3>1
  <2>8. Shaped(page, page', manifest) /\ settled' \in BOOLEAN
    BY <1>0, <2>1, <2>5, SendSettles
  <2>9. page'.at = "confirming" => page.at = "confirming" /\ op.kind # "confirm"
    BY <2>1, <2>6 DEF Turns
  <2> QED
    BY <1>0, <1>1, <2>1, <2>7, <2>8, <2>9, TakenStep
<1>6. CASE TakeReview
  <2> DEFINE a == op.ans
  <2>1. /\ op.kind \in {"review", "select"} /\ op.step = "main" /\ Answers(op) /\ op' = NoOp
        /\ route' = route
        /\ \/ page' = page /\ refs' = refs /\ settled' = settled
           \/ /\ page' = ReviewReady(page, a.cand, a.review, a.version) /\ Send(page')
              /\ refs' = [refs EXCEPT !.persisted = [aver |-> a.version, cand |-> a.cand]]
    BY <1>6 DEF TakeReview, Send, Answers
  <2>2. op.req.what = "review" /\ TypedAnswer(op.req, a, manifest)
    BY <1>1, <2>1, AnswerTyped
  <2>3. /\ a.version \in 1..manifest.version /\ a.cand \in Candidate /\ a.cand \in Held
        /\ a.review \in ReviewSnapshot /\ a.review.aver \in 1..manifest.version
    BY <2>2 DEF TypedAnswer, Held
  <2> HIDE DEF a
  <2>4. Shaped(page, ReviewReady(page, a.cand, a.review, a.version), manifest)
    BY <1>0, <2>3, AnswersShaped
  <2>5. ReviewReady(page, a.cand, a.review, a.version).at = "exactReview"
    BY <1>0 DEF ReviewReady, Unreviewed, PageFields
  <2>6. TypedRefs(refs', manifest)
    <3>1. TypedRefs([refs EXCEPT !.persisted = [aver |-> a.version, cand |-> a.cand]], manifest)
      BY <1>0, <2>3, RemembersTyped
    <3> QED
      BY <1>0, <2>1, <3>1
  <2>7. Shaped(page, page', manifest) /\ settled' \in BOOLEAN
    BY <1>0, <2>1, <2>4, SendSettles
  <2>8. page'.at = "confirming" => page.at = "confirming" /\ op.kind # "confirm"
    BY <2>1, <2>5
  <2> QED
    BY <1>0, <1>1, <2>1, <2>6, <2>7, <2>8, TakenStep
<1>7. CASE TakeConfirmed
  <2> DEFINE a == op.ans
  <2>1. /\ op.kind = "confirm" /\ Answers(op) /\ op' = NoOp /\ route' = route
        /\ page' = ConfirmSucceeded(page, a.answer, a.version) /\ Send(page')
        /\ refs' = [NoRefs EXCEPT !.pollRetry = refs.pollRetry]
    BY <1>7 DEF TakeConfirmed, Send, Answers
  <2>2. op.req.what = "confirm" /\ TypedAnswer(op.req, a, manifest)
    BY <1>1, <2>1, AnswerTyped
  <2>3. a.version \in 1..manifest.version /\ a.answer \in ConfirmedAnswer
    BY <2>2 DEF TypedAnswer
  <2> HIDE DEF a
  <2>4. Shaped(page, page', manifest)
    BY <1>0, <2>1, <2>3, ConfirmedShaped
  <2>5. page'.at # "confirming"
    BY <1>0, <2>1 DEF ConfirmSucceeded, PageFields
  <2>6. TypedRefs(refs', manifest)
    <3>1. refs.pollRetry \in BOOLEAN
      BY <1>0, Zenon DEF TypedRefs
    <3>2. /\ DOMAIN refs' = RefFields /\ refs'.persisted = NoPersisted
          /\ refs'.attempt = NoAttempt /\ refs'.pollRetry = refs.pollRetry
      BY <2>1 DEF NoRefs, RefFields
    <3>3. NoPersisted.cand \in Held
      BY DEF NoPersisted, Held
    <3> QED
      BY <3>1, <3>2, <3>3, Zenon DEF TypedRefs, TypedAttempt
  <2> QED
    BY <1>0, <1>1, <2>1, <2>4, <2>5, <2>6, SendSettles, TakenStep
<1>8. CASE TakeRevision
  <2> DEFINE a == op.ans
             s == [q |-> op.q, ver |-> a.prior]
  <2>1. /\ op.kind = "revise" /\ Answers(op) /\ op' = NoOp /\ route' \in {Question, route}
        /\ page' = RevisionReady(page, op.q, a.seed, a.version) /\ Send(page')
        /\ refs' = [refs EXCEPT !.persisted = NoPersisted, !.source = s]
    BY <1>8 DEF TakeRevision, Send, Answers
  <2>2. op.q \in QuestionIds /\ op.req.what = "revise" /\ TypedAnswer(op.req, a, manifest)
    BY <1>1, <2>1, AnswerTyped
  <2>3. a.version \in 1..manifest.version /\ a.seed \in Texts /\ a.version \in 0..manifest.version
    BY <2>2 DEF TypedAnswer
  <2> HIDE DEF a, s
  <2>4. Shaped(page, page', manifest)
    BY <1>0, <2>1, <2>2, <2>3, ConfirmedShaped
  <2>5. Turns(page, page', manifest)
    BY <1>0, <2>1, <2>3, AnswerTurns
  <2>6. TypedRefs(refs', manifest)
    BY <1>0, <2>1, RemembersTyped DEF Held
  <2>7. route'.mode \in Modes
    BY <1>0, <2>1 DEF Question, Modes
  <2>8. page'.at = "confirming" => page.at = "confirming" /\ op.kind # "confirm"
    BY <2>1, <2>5 DEF Turns
  <2> QED
    BY <1>0, <1>1, <2>1, <2>4, <2>6, <2>7, <2>8, SendSettles, TakenStep
<1>9. CASE TakeExport
  <2> DEFINE v == op.ans.version
             t == [asked |-> op.req.aver, current |-> v]
  <2>1. /\ op.kind = "export" /\ op.ans \notin {NoRequest, Failed} /\ op' = NoOp
        /\ page' \in {ExportSucceeded(page, v, v), ExportFailed(page, v), ExportPending(page, v)}
        /\ Send(page') /\ route' \in {route, Export(v)}
        /\ \/ refs' = [refs EXCEPT !.attempt = NoAttempt]
           \/ refs' = [refs EXCEPT !.attempt = t]
    BY <1>9 DEF TakeExport, Send
  <2>2. v \in 0..manifest.version /\ op.req.aver \in 1..manifest.version
    BY <1>1, <2>1, AnswerFacts DEF TInv, TypedOp
  <2>3. v \in Nat /\ (v = 0 \/ v \in 1..manifest.version)
    BY <1>0, <2>2
  <2>4. TypedAttempt(t, manifest)
    BY <2>2, <2>3 DEF TypedAttempt
  <2> HIDE DEF v, t
  <2>5. Shaped(page, page', manifest)
    BY <1>0, <2>1, <2>3, ExportShaped
  <2>6. Turns(page, page', manifest)
    BY <1>0, <2>1, <2>2, ExportTurns
  <2>7. TypedRefs(refs', manifest)
    BY <1>0, <2>1, <2>4 DEF TypedRefs, RefFields, TypedAttempt
  <2>8. route'.mode \in Modes
    BY <1>0, <2>1 DEF Export, Modes
  <2>9. page'.at = "confirming" => page.at = "confirming" /\ op.kind # "confirm"
    BY <2>1, <2>6 DEF Turns
  <2> QED
    BY <1>0, <1>1, <2>1, <2>5, <2>7, <2>8, <2>9, SendSettles, TakenStep
<1> QED
  BY <1>2, <1>3, <1>4, <1>5, <1>6, <1>7, <1>8, <1>9 DEF Take

\* What mapAssignment makes of the server's record.
LEMMA RestoredTyped ==
  ASSUME NEW m, TypedServer(m)
  PROVE  TypedPoll(Restored(m))
<1> DEFINE i == RestoredIndex(m)
           q == Order[i]
           w == Restored(m)
<1>1. /\ DOMAIN Order \subseteq Nat \ {0} /\ (Order # <<>> => 1 \in DOMAIN Order)
      /\ \A j \in DOMAIN Order : Order[j] \in QuestionIds
  BY OrderFacts
<1>2. \/ i \in DOMAIN Order
      \/ i = 1 /\ Drafted(m) = {}
  <2>1. Drafted(m) \subseteq Nat /\ Open(m) \subseteq Nat
    BY <1>1 DEF Drafted, Open
  <2>2. /\ Drafted(m) # {} => Min(Drafted(m)) \in Drafted(m)
        /\ Open(m) # {} => Min(Open(m)) \in Open(m)
    BY <2>1, MinOfNumbers
  <2> QED
    BY <2>2 DEF RestoredIndex, Drafted, Open
<1>3. i \in Nat \ {0} /\ (Order # <<>> => i \in DOMAIN Order)
  BY <1>1, <1>2
<1>4. [x \in QuestionIds |-> MapAnswer(m.questions[x].confirmed)]
        \in [QuestionIds -> ConfirmedAnswer \cup {NoAnswer}]
  <2> SUFFICES ASSUME NEW x \in QuestionIds
               PROVE  MapAnswer(m.questions[x].confirmed) \in ConfirmedAnswer \cup {NoAnswer}
    OBVIOUS
  <2> DEFINE a == m.questions[x].confirmed
  <2>1. a \in S!Answer /\ (a.rev > 0 => a.text \in Texts)
    BY StateShape DEF TypedServer, TypedState
  <2>2. a.rev = 0 \/ a.rev > 0
    BY <2>1 DEF S!Answer
  <2> HIDE DEF a
  <2> QED
    BY <2>1, <2>2, MappedTyped DEF a
<1>5. i \in Drafted(m) => MapCandidate(q, m.questions[q].current) \in Candidate
  <2> SUFFICES ASSUME i \in Drafted(m)
               PROVE  MapCandidate(q, m.questions[q].current) \in Candidate
    OBVIOUS
  <2>1. q \in QuestionIds /\ S!HasCandidate(m.questions[q])
    BY <1>1 DEF Drafted
  <2>2. TypedState(m.questions[q])
    BY <2>1 DEF TypedServer
  <2>3. /\ m.questions[q].current \in S!Candidate
        /\ m.questions[q].current.ver > 0
    BY <2>1, <2>2, StateShape DEF TypedState, S!HasCandidate, S!Candidate
  <2>4. m.questions[q].current.text \in Texts
    BY <2>2, <2>3 DEF TypedState
  <2> QED
    BY <2>1, <2>3, <2>4, MappedTyped
<1>6. /\ w.active = i /\ w.confirmed = [x \in QuestionIds |-> MapAnswer(m.questions[x].confirmed)]
      /\ w.cand = IF i \in Drafted(m) THEN MapCandidate(q, m.questions[q].current) ELSE NoCandidate
  BY DEF Restored
<1> HIDE DEF w, i, q
<1>7. w.cand \in Held
  BY <1>5, <1>6 DEF Held
<1> QED
  BY <1>3, <1>4, <1>6, <1>7 DEF TypedPoll, w

\* The page as it is loaded.
LEMMA RestoredShape ==
  ASSUME PInv, TInv, page.at = "checking", poll.kind = "setup", NEW mode
  PROVE  /\ TypedPage(RestoredPage(poll, manifest.version, mode), manifest)
         /\ RestoredPage(poll, manifest.version, mode).at # "confirming"
<1> DEFINE v == manifest.version
           n == AnalysisReady(page, v, Order, TRUE, poll.confirmed, poll.active, poll.cand)
           k == QuestionSetupAccepted(n, v, Order, TRUE)
<1>1. /\ v \in 1..manifest.version /\ v \in Nat /\ TypedPage(page, manifest)
      /\ DOMAIN page = PageFields
  BY TypedFacts
<1>2. /\ poll.active \in Nat \ {0} /\ (Order # <<>> => poll.active \in DOMAIN Order)
      /\ poll.confirmed \in [QuestionIds -> ConfirmedAnswer \cup {NoAnswer}]
      /\ poll.cand \in Held
  BY DEF TInv, TypedPoll
<1>3. TypedPage(n, manifest) /\ TypedPage(k, manifest)
  BY <1>1, <1>2, LoadedTyped
<1>4. n.at = "questionCheck"
  BY <1>1 DEF AnalysisReady, PageFields
<1> HIDE DEF n
<1>5. IsContext(n) /\ DOMAIN n = PageFields
  BY <1>3, PageShape DEF TypedPage
<1>6. TypedPage(OpenReviewRoute(n), manifest) /\ TypedPage(ExportPending(n, 0), manifest)
  BY <1>1, <1>3, <1>5, PlainShaped, ExportShaped, ShapedKeep
<1>7. /\ k.at # "confirming" /\ OpenReviewRoute(n).at # "confirming"
      /\ ExportPending(n, 0).at # "confirming"
  BY <1>4, <1>5 DEF QuestionSetupAccepted, ApplyQuestionSetup, OpenReviewRoute, ExportPending,
                    InSetup, PageFields
<1>8. RestoredPage(poll, v, mode) \in {k, OpenReviewRoute(n), ExportPending(n, 0)}
  BY DEF RestoredPage, n
<1> HIDE DEF k
<1> QED
  BY <1>3, <1>6, <1>7, <1>8

\* The page is loaded, or follows an export.
LEMMA TypedLoad ==
  ASSUME PInv, LInv, TInv, ExportsReached, Load
  PROVE  TInv'
<1>0. /\ IsContext(page) /\ DOMAIN page = PageFields /\ TypedRefs(refs, manifest)
      /\ manifest.version \in Nat /\ manifest.version \in 1..manifest.version
  BY TypedFacts DEF TInv
<1>1. UNCHANGED <<manifest, exports, op, orphan, approved, route, shown>>
  BY DEF Load, LoadAssignment, LoadSetup, LoadFails, PollExport, PollFails
<1>2. ASSUME page'.at = "confirming" => page.at = "confirming" PROVE Within'
  BY <1>1, <1>2, Budget, TypedFacts, StayWithin DEF TInv
<1>3. TypedPoll(NoOp) /\ \A v : TypedPoll(Following(v))
  BY DEF TypedPoll, NoOp, Following
<1>4. CASE LoadAssignment
  <2>1. UNCHANGED <<page, refs, settled>> /\ poll' = Restored(manifest)
    BY <1>4 DEF LoadAssignment
  <2>2. TypedPoll(poll')
    BY <2>1, RestoredTyped, TypedFacts
  <2>3. Within'
    BY <1>2, <2>1
  <2> QED
    BY <1>1, <2>1, <2>2, <2>3 DEF TInv
<1>5. CASE LoadSetup
  <2> DEFINE n == RestoredPage(poll, manifest.version, shown.mode)
             x == [aver |-> manifest.version, cand |-> poll.cand]
             y == IF poll.cand = NoCandidate THEN NoPersisted ELSE x
  <2>1. /\ poll.kind = "setup" /\ page' = n /\ Send(n) /\ refs' = [refs EXCEPT !.persisted = y]
        /\ poll' = NoOp \/ poll' = Following(shown.id)
    BY <1>5 DEF LoadSetup, Send
  <2>2. page.at = "checking"
    BY <2>1 DEF LInv, SoundPoll
  <2>3. TypedPage(n, manifest) /\ n.at # "confirming"
    BY <2>1, <2>2, RestoredShape
  <2>4. y.cand \in Held
    BY <2>1 DEF TInv, TypedPoll, NoPersisted, Held
  <2> HIDE DEF n, y
  <2>5. TypedRefs(refs', manifest)
    BY <1>0, <2>1, <2>4 DEF TypedRefs, RefFields
  <2>6. TypedPoll(poll') /\ Within' /\ settled' \in BOOLEAN
    BY <1>2, <1>3, <2>1, <2>3, SendSettles
  <2> QED
    BY <1>1, <2>1, <2>3, <2>5, <2>6 DEF TInv
<1>6. CASE LoadFails
  <2>1. page' = AnalysisFailed(page) /\ Send(page') /\ refs' = refs /\ poll' = NoOp
    BY <1>6 DEF LoadFails, Send
  <2>2. Shaped(page, page', manifest)
    BY <1>0, <2>1, PlainShaped
  <2>3. Turns(page, page', manifest)
    BY <1>0, <2>1, FailureTurns
  <2>4. Within'
    BY <1>2, <2>3 DEF Turns
  <2> QED
    BY <1>1, <1>3, <2>1, <2>2, <2>4, SendSettles, ShapedStep DEF TInv
<1>7. CASE PollExport \/ PollFails
  <2> DEFINE v == manifest.version
             kept == IF refs.attempt = NoAttempt THEN NoAttempt
                     ELSE [refs.attempt EXCEPT !.current = v]
  <2>1. /\ poll.kind = "export"
        /\ page' \in {ExportRestored(page, poll.id, v), ExportFailed(page, v),
                      ExportPending(page, v), ExportFailed(page, 0)}
        /\ Send(page') /\ (poll' = NoOp \/ poll' = poll)
        /\ \/ refs' = [refs EXCEPT !.pollRetry = TRUE]
           \/ refs' = [refs EXCEPT !.pollRetry = FALSE, !.attempt = NoAttempt]
           \/ refs' = [refs EXCEPT !.pollRetry = FALSE, !.attempt = kept]
    BY <1>7 DEF PollExport, PollFails, GetExport, Send
  <2>2. poll.id \in Nat /\ v \in 1..manifest.version /\ v \in Nat
    BY <1>0, <2>1 DEF ExportsReached, Reached
  <2>3. TypedAttempt(kept, manifest)
    BY <1>0, <2>2 DEF TypedRefs, TypedAttempt
  <2> HIDE DEF v, kept
  <2>4. Shaped(page, page', manifest)
    BY <1>0, <2>1, <2>2, ExportShaped
  <2>5. page'.at # "confirming"
    BY <1>0, <2>1 DEF ExportRestored, ExportFailed, ExportPending, PageFields
  <2>6. TypedRefs(refs', manifest)
    BY <1>0, <2>1, <2>3 DEF TypedRefs, RefFields, TypedAttempt
  <2>7. TypedPoll(poll') /\ Within'
    BY <1>2, <1>3, <2>1, <2>5 DEF TInv
  <2> QED
    BY <1>1, <2>1, <2>4, <2>6, <2>7, SendSettles, ShapedStep DEF TInv
<1> QED
  BY <1>4, <1>5, <1>6, <1>7 DEF Load

\* A new route: the page is emptied to be loaded, or turned.
LEMMA TypedRoute ==
  ASSUME PInv, TInv, EnterRoute
  PROVE  TInv'
<1>0. /\ IsContext(page) /\ DOMAIN page = PageFields /\ TypedRefs(refs, manifest)
  BY TypedFacts DEF TInv
<1> DEFINE retry == refs.pollRetry /\ route.mode = "export"
           kept == IF Loaded(page) THEN refs.persisted ELSE NoPersisted
<1>1. /\ page' \in {StartAnalysis(Reset(page)), OpenReviewRoute(page), OpenAssignmentRoute(page),
                    ExportPending(page, 0), page}
      /\ Send(page') /\ poll' \in {Loading, Following(route.id), NoOp} /\ shown' = route
      /\ UNCHANGED <<manifest, exports, op, route, orphan, approved>>
      /\ refs' = [refs EXCEPT !.pollRetry = retry, !.persisted = kept]
  BY DEF EnterRoute, Send
<1>2. retry \in BOOLEAN
  BY Zenon DEF retry
<1>3. kept.cand \in Held
  BY <1>0 DEF TypedRefs, NoPersisted, Held
<1> HIDE DEF retry, kept
<1>4. TypedRefs(refs', manifest)
  <2>1. /\ DOMAIN refs' = RefFields /\ refs'.persisted = kept /\ refs'.pollRetry = retry
        /\ refs'.attempt = refs.attempt
    BY <1>0, <1>1 DEF TypedRefs, RefFields
  <2> QED
    BY <1>0, <1>2, <1>3, <2>1, Zenon DEF TypedRefs
<1>5. TypedPoll(poll')
  BY <1>1 DEF TypedPoll, Loading, Following, NoOp
<1>6. TypedPage(page', manifest)
  <2>1. /\ Shaped(page, OpenReviewRoute(page), manifest) /\ Shaped(page, page, manifest)
        /\ Shaped(page, OpenAssignmentRoute(page), manifest)
        /\ Shaped(page, ExportPending(page, 0), manifest)
    BY <1>0, PlainShaped, MovingShaped, ExportShaped, SameShape
  <2>2. TypedPage(StartAnalysis(Reset(page)), manifest)
    BY EmptyTyped
  <2> QED
    BY <1>1, <2>1, <2>2, TypedFacts, ShapedKeep
<1>7. page'.at = "confirming" => page.at = "confirming"
  <2>1. StartAnalysis(Reset(page)).at # "confirming"
    BY DEF StartAnalysis, Reset, ClearForAnalysis, InitialContext
  <2>2. /\ Turns(page, OpenReviewRoute(page), manifest)
        /\ Turns(page, OpenAssignmentRoute(page), manifest)
        /\ Turns(page, ExportPending(page, 0), manifest)
    BY PageFacts, MovingTurns, ExportTurns
  <2> QED
    BY <1>1, <2>1, <2>2 DEF Turns
<1>8. Within'
  BY <1>1, <1>7, Budget, TypedFacts, StayWithin DEF TInv
<1>9. {route'.mode, shown'.mode} \subseteq Modes
  BY <1>1 DEF TInv
<1> QED
  BY <1>1, <1>4, <1>5, <1>6, <1>8, <1>9, SendSettles DEF TInv

\* An export is finished.
LEMMA TypedFinish ==
  ASSUME TInv, PInv, \E v \in Versions : FinishExport(v)
  PROVE  TInv'
<1>1. /\ UNCHANGED <<manifest, page, op, refs, route, shown, poll, settled, orphan, approved>>
      /\ \E v, status : status \in {"complete", "failed"} /\ exports' = [exports EXCEPT ![v] = status]
  BY DEF FinishExport
<1>2. exports' \in [Versions -> Statuses]
  BY <1>1 DEF TInv, Statuses
<1>3. Within'
  BY <1>1, Budget, TypedFacts, StayWithin DEF TInv
<1> QED
  BY <1>1, <1>2, <1>3 DEF TInv

-----------------------------------------------------------------------------
(* The theorem.                                                            *)

\* At the start the assignment is new, and its set-up accepted.
LEMMA InitTyped == Init => TInv /\ ExportsReached
<1> SUFFICES ASSUME Init PROVE TInv /\ ExportsReached
  OBVIOUS
<1>1. manifest = [version |-> 2, status |-> "READY", verified |-> TRUE,
                  questions |-> [q \in QuestionIds |-> S!NewQuestion], receipts |-> {}]
  <2> DEFINE Q == S!Fresh(QuestionIds)
             n == [version |-> 1, status |-> "ANALYZING", verified |-> TRUE,
                   questions |-> S!Fresh({}), receipts |-> {}]
             o == [version |-> 1, status |-> "READY", verified |-> FALSE,
                   questions |-> Q, receipts |-> {}]
             p == [version |-> 1, status |-> "READY", verified |-> TRUE,
                   questions |-> Q, receipts |-> {}]
  <2>1. Q = [q \in QuestionIds |-> S!NewQuestion]
    BY DEF S!Fresh
  <2>2. S!NewManifest = n
    BY DEF S!NewManifest
  <2> HIDE DEF Q
  <2>3. S!FinishAnalysis(n) = o
    <3>1. S!FinishAnalysis(n) = [S!WithQuestions(n, FALSE, Q) EXCEPT !.status = "READY"]
      BY DEF S!FinishAnalysis, Q
    <3> QED
      BY <3>1 DEF S!WithQuestions
  <2>4. S!WithQuestions(o, TRUE, o.questions) = p
    <3> DEFINE w == S!WithQuestions(o, TRUE, Q)
    <3>1. w = [o EXCEPT !.verified = TRUE, !.questions = Q]
      BY DEF S!WithQuestions
    <3>2. /\ w.version = 1 /\ w.status = "READY" /\ w.verified = TRUE
          /\ w.questions = Q /\ w.receipts = {}
          /\ w = [i \in {"version", "status", "verified", "questions", "receipts"} |-> w[i]]
      BY <3>1
    <3>3. w = p
      BY <3>2
    <3>4. o.questions = Q
      OBVIOUS
    <3> QED
      BY <3>3, <3>4
  <2>5. S!Bump(p) = [p EXCEPT !.version = 2]
    BY DEF S!Bump
  <2>6. S!AcceptQuestionSetup(o) = S!Bump(S!WithQuestions(o, TRUE, o.questions))
    BY DEF S!AcceptQuestionSetup
  <2>7. manifest = S!AcceptQuestionSetup(S!FinishAnalysis(S!NewManifest))
    BY DEF Init
  <2>8. manifest = [p EXCEPT !.version = 2]
    BY ONLY <2>2, <2>3, <2>4, <2>5, <2>6, <2>7
  <2> QED
    BY <2>1, <2>8
<1>2. /\ S!NewQuestion.current.ver = 0 /\ S!NewQuestion.confirmed.rev = 0
      /\ S!NewQuestion.rephrases = {}
  BY DEF S!NewQuestion, S!NoCandidate, S!NoAnswer
<1>3. S!NewQuestion \in S!QuestionState
  <2>1. /\ S!NoCandidate \in S!Candidate /\ S!NoAnswer \in S!Answer
        /\ S!NoRevision \in S!RevisionDraft /\ {} \in SUBSET S!RephraseRecord
        /\ <<>> \in Seq(S!ReviewToken)
    BY DEF S!NoCandidate, S!Candidate, S!NoAnswer, S!Answer, S!NoRevision, S!RevisionDraft,
           S!Origins
  <2> QED
    BY <2>1 DEF S!NewQuestion, S!QuestionState
<1>4. TypedState(S!NewQuestion)
  BY <1>2, <1>3 DEF TypedState
<1>5. manifest.version = 2 /\ manifest.questions = [q \in QuestionIds |-> S!NewQuestion]
      /\ manifest.receipts = {} /\ manifest.status = "READY" /\ manifest.verified = TRUE
  BY <1>1
<1>6. S!IsManifest(manifest)
  BY <1>1, <1>3, <1>5 DEF S!IsManifest, S!Status
<1>7. TypedServer(manifest)
  BY <1>4, <1>5, <1>6 DEF TypedServer
<1>8. /\ page = InitialContext /\ op = NoOp /\ orphan = NoRequest /\ refs = NoRefs
      /\ route = Question /\ shown = NoRoute /\ poll = NoOp /\ settled = TRUE /\ approved = {}
      /\ exports = [v \in Versions |-> "none"]
  BY DEF Init
<1>9. TypedPage(page, manifest)
  BY <1>8, EmptyTyped
<1>10. TypedRefs(refs, manifest)
  <2>1. /\ DOMAIN NoRefs = RefFields /\ NoRefs.persisted = NoPersisted
        /\ NoRefs.attempt = NoAttempt /\ NoRefs.pollRetry = FALSE /\ NoPersisted.cand \in Held
    BY DEF NoRefs, NoPersisted, RefFields, Held
  <2> QED
    BY <1>8, <2>1 DEF TypedRefs, TypedAttempt
<1>11. TypedPoll(poll) /\ TypedOp(op, manifest) /\ exports \in [Versions -> Statuses]
  BY <1>8 DEF TypedPoll, TypedOp, NoOp, Statuses
<1>12. {route.mode, shown.mode} \subseteq Modes
  BY <1>8 DEF Question, NoRoute, Modes
<1>13. Within
  <2>1. Owed(op) = 0 /\ Left = 0 /\ Pressed = 0
    BY <1>8, Budget DEF Left, Pressed, InitialContext
  <2> QED
    BY <1>5, <2>1, PageAssumption DEF Within
<1>14. ExportsReached
  BY <1>5, <1>8 DEF ExportsReached, Reached, InitialContext, Question, NoRoute, NoOp
<1> QED
  BY <1>7, <1>8, <1>9, <1>10, <1>11, <1>12, <1>13, <1>14 DEF TInv

\* A request on an answer and what came back are one of the API's exchanges.
LEMMA TypedExchange ==
  ASSUME NEW m, WellFormed(m), m.version <= MaxVersion + 3, NEW r, NEW a, NEW ok,
         GoodRequest(r, m, ok), TypedRequest(r, m), HasBody(a) => TypedAnswer(r, a, m)
  PROVE  Exchange(r, a)
<1>1. \A v \in 1..m.version : v \in Versions
  BY PageAssumption DEF WellFormed, Versions
<1>2. r.q \in QuestionIds /\ r.aver \in Versions
  BY <1>1 DEF TypedRequest
<1>3. HasBody(a) => a.version \in Versions
  BY <1>1 DEF TypedAnswer
<1>4. r.what \in AnswerRequests
  BY DEF GoodRequest
<1>5. CASE r.what = "candidate"
  BY <1>2, <1>3, <1>5 DEF Exchange, CandidateExchange, TypedRequest, TypedAnswer
<1>6. CASE r.what = "rephrase"
  BY <1>2, <1>3, <1>6 DEF Exchange, RephraseExchange, TypedRequest, TypedAnswer, Held
<1>7. CASE r.what = "review"
  BY <1>1, <1>2, <1>3, <1>7 DEF Exchange, ReviewExchange, TypedAnswer
<1>8. CASE r.what = "confirm"
  <2>1. r.tok \in 1..Len(m.questions[r.q].tokens)
    BY <1>8 DEF GoodRequest, HasToken
  <2>2. Len(m.questions[r.q].tokens) \in Nat
    BY <1>2 DEF WellFormed, AreTokens
  <2>3. r.tok \in Nat \ {0}
    BY <2>1, <2>2
  <2> QED
    BY <1>2, <1>3, <1>8, <2>3 DEF Exchange, ConfirmExchange, TypedAnswer
<1>9. CASE r.what = "revise"
  BY <1>2, <1>3, <1>9 DEF Exchange, RevisionExchange, TypedAnswer
<1> QED
  BY <1>4, <1>5, <1>6, <1>7, <1>8, <1>9 DEF AnswerRequests

\* The invariant says all of TypeOK: what fits under the bound is one of Versions.
LEMMA TypedIsTyped ==
  ASSUME PInv, TInv
  PROVE  TypeOK
<1>1. S!IsManifest(manifest) /\ IsContext(page) /\ (Loaded(page) => page.version > 0)
  BY DEF TInv, TypedServer, TypedPage
<1>2. {settled, refs.pollRetry} \subseteq BOOLEAN
  BY Zenon DEF TInv, TypedRefs
<1>3. manifest.version <= MaxVersion + 3
  <2>1. Owed(op) \in 0..2 /\ Left \in 0..1 /\ Pressed \in 0..1 /\ manifest.version \in Nat
    BY Budget, TypedFacts
  <2> QED
    BY <2>1, PageAssumption DEF TInv, Within
<1>4. \A v \in 1..manifest.version : v \in Versions
  BY <1>3, PageAssumption, TypedFacts DEF Versions
<1>5. WellFormed(manifest)
  BY DEF PInv
<1>6. ASSUME op # NoOp, op.kind = "export"
      PROVE  ExportExchange(op.req, op.ans)
  BY <1>4, <1>6 DEF TInv, TypedOp, ExportExchange, HasBody, Answers
<1>7. ASSUME op # NoOp, op.kind # "export"
      PROVE  /\ op.kind \in {"rephrase", "review", "select", "confirm", "revise"}
             /\ Exchange(op.req, op.ans)
  <2>1. op.kind \in {"rephrase", "review", "select", "confirm", "revise"}
    BY <1>7 DEF PInv, GoodOp
  <2>2. GoodRequest(op.req, manifest, approved)
    BY <1>7 DEF PInv, GoodOp
  <2>3. /\ TypedRequest(op.req, manifest)
        /\ HasBody(op.ans) => TypedAnswer(op.req, op.ans, manifest)
    BY <1>7 DEF TInv, TypedOp, HasBody, Answers
  <2> QED
    BY <1>3, <1>5, <2>1, <2>2, <2>3, TypedExchange
<1>8. ASSUME orphan # NoRequest
      PROVE  Exchange(orphan, NoRequest)
  <2>1. GoodRequest(orphan, manifest, approved) /\ TypedRequest(orphan, manifest)
    BY <1>8 DEF PInv, TInv
  <2>2. ~HasBody(NoRequest)
    BY DEF HasBody
  <2> QED
    BY <1>3, <1>5, <2>1, <2>2, TypedExchange
<1>9. poll.kind = "setup" => AssignmentBody(poll)
  BY DEF TInv, TypedPoll, AssignmentBody, Held
<1> QED
  BY <1>1, <1>2, <1>6, <1>7, <1>8, <1>9 DEF TInv, TypeOK, Statuses, Modes

\* Every variable of the page keeps its shape, and every request and answer is one of
\* the API's, about a version within the bound (WorkspaceShell.tsx, with the types
\* of workspaceMachine.ts and of the API).
THEOREM PageIsTyped == Spec => []TypeOK
<1> DEFINE Inv == TInv /\ ExportsReached
<1>1. PInv /\ LInv /\ Inv /\ [Next]_vars => Inv'
  <2> SUFFICES ASSUME PInv, LInv, Inv, [Next]_vars PROVE Inv'
    OBVIOUS
  <2>1. ExportsReached'
    BY StepSteady
  <2>2. CASE UNCHANGED vars
    <3>1. TInv'
      BY <2>2 DEF vars, TInv, Within, Left, Pressed
    <3> QED
      BY <2>1, <3>1
  <2>3. CASE Next
    <3>1. TInv'
      BY <2>3, TypedWrite, TypedMove, TypedServes, TypedTake, TypedLoad, TypedEffects, TypedRoute,
         TypedOrphan, TypedFinish DEF Next
    <3> QED
      BY <2>1, <3>1
  <2> QED
    BY <2>2, <2>3
<1>2. PInv /\ Inv => TypeOK
  BY TypedIsTyped
<1> QED
  BY <1>1, <1>2, InitTyped, LateAnswers, PTL DEF Spec

=============================================================================
