---------------------- MODULE AssignmentService_proofs ----------------------
(***************************************************************************)
(* AssignmentService implements AtomicAssignment, for any number of        *)
(* concurrent requests; what AtomicAssignment_proofs proves of the atomic  *)
(* manifest therefore holds of the stored one.  And what the requests are  *)
(* told about it is true.                                                  *)
(***************************************************************************)
EXTENDS AssignmentService, AnswerWorkflow_proofs, TLAPS

-----------------------------------------------------------------------------
(* The relation between a manifest and the result of one atomic operation. *)

SetupOutcome(m, n) ==
  \E t \in Times :
    \/ CanAcceptQuestionSetup(m, t) /\ n = AcceptQuestionSetup(m)
    \/ /\ m.status = "READY"
       /\ \/ \E S \in SUBSET QuestionIds :
               /\ IsCorrection(m, S) /\ CanReplaceQuestionSetup(m, S, t)
               /\ n = ReplaceQuestionSetup(m, S)
          \/ CanResetQuestionSetup(m, t) /\ n = ResetQuestionSetup(m)

CandidateOutcome(m, n) ==
  \E t \in Times, q \in DOMAIN m.questions, text \in Texts, origin \in Origins :
    \E prior \in 0 .. m.questions[q].seq + 1 :
      /\ CanReplaceCandidate(m, q, text, origin, prior, t)
      /\ n = ReplaceCandidate(m, q, text, origin)

RephraseOutcome(m, n) ==
  \E t \in Times, q \in DOMAIN m.questions, text \in Texts :
    /\ CanRecordRephrase(m, q, m.questions[q].current.ver, t)
    /\ n = RecordRephrase(m, q, text)

ReviewOutcome(m, n) ==
  \E t \in Times, q \in DOMAIN m.questions :
    /\ CanIssueReview(m, q, m.questions[q].current.ver, t)
    /\ n = IssueReview(m, q, t)

ConfirmOutcome(m, n) ==
  \E t \in Times, q \in DOMAIN m.questions :
    \E tok \in DOMAIN m.questions[q].tokens :
      /\ CanConfirmCandidate(m, q, tok, m.questions[q].current.ver, m.version, t)
      /\ n = ConfirmCandidate(m, q, tok)

ReviseOutcome(m, n) ==
  \E t \in Times, q \in DOMAIN m.questions :
    CanBeginRevision(m, q, t) /\ n = BeginRevision(m, q)

Outcome(m, n) ==
  \/ SetupOutcome(m, n) \/ CandidateOutcome(m, n) \/ RephraseOutcome(m, n)
  \/ ReviewOutcome(m, n) \/ ConfirmOutcome(m, n) \/ ReviseOutcome(m, n)

(***************************************************************************)
(* The instance Atomic restates every operator of AnswerWorkflow: they are *)
(* the same operators, and these lemmas say so, helper by helper.          *)
(***************************************************************************)

\* The helpers that build a manifest.
LEMMA SameHelpers ==
  /\ Atomic!NewManifest = NewManifest
  /\ Atomic!NoRevision = NoRevision /\ Atomic!NoCandidate = NoCandidate
  /\ \A m : Atomic!Bump(m) = Bump(m)
  /\ \A m, q, s : Atomic!ReplaceQuestion(m, q, s) = ReplaceQuestion(m, q, s)
  /\ \A m, v, Q : Atomic!WithQuestions(m, v, Q) = WithQuestions(m, v, Q)
  /\ \A S : Atomic!Fresh(S) = Fresh(S)
  /\ \A tokens, tok : Atomic!ConsumeReview(tokens, tok) = ConsumeReview(tokens, tok)
  /\ \A tokens : Atomic!InvalidateReviews(tokens) = InvalidateReviews(tokens)
  /\ \A m, q, tok : Atomic!ReceiptsOf(m, q, tok) = ReceiptsOf(m, q, tok)
<1>1. Atomic!NoRevision = NoRevision /\ Atomic!NoCandidate = NoCandidate
  BY Zenon DEF NoRevision, Atomic!NoRevision, NoCandidate,
      Atomic!NoCandidate
<1>2. Atomic!NewQuestion = NewQuestion
  BY <1>1, Zenon DEF NewQuestion, Atomic!NewQuestion, NoAnswer,
      Atomic!NoAnswer
<1>3. ASSUME NEW S PROVE Atomic!Fresh(S) = Fresh(S)
  BY <1>2, Zenon DEF Fresh, Atomic!Fresh
<1>4. Atomic!NewManifest = NewManifest
  BY <1>3, Zenon DEF NewManifest, Atomic!NewManifest
<1>5. ASSUME NEW m PROVE Atomic!Bump(m) = Bump(m)
  BY Zenon DEF Bump, Atomic!Bump
<1>6. ASSUME NEW m, NEW q, NEW s
      PROVE  Atomic!ReplaceQuestion(m, q, s) = ReplaceQuestion(m, q, s)
  BY Zenon DEF ReplaceQuestion, Atomic!ReplaceQuestion
<1>7. ASSUME NEW m, NEW v, NEW Q
      PROVE  Atomic!WithQuestions(m, v, Q) = WithQuestions(m, v, Q)
  BY Zenon DEF WithQuestions, Atomic!WithQuestions
<1>8. ASSUME NEW tokens, NEW tok
      PROVE  /\ Atomic!ConsumeReview(tokens, tok) = ConsumeReview(tokens, tok)
             /\ Atomic!InvalidateReviews(tokens) = InvalidateReviews(tokens)
  BY Zenon DEF ConsumeReview, Atomic!ConsumeReview, InvalidateReviews,
      Atomic!InvalidateReviews
<1>9. ASSUME NEW m, NEW q, NEW tok
      PROVE  Atomic!ReceiptsOf(m, q, tok) = ReceiptsOf(m, q, tok)
  BY DEF ReceiptsOf, Atomic!ReceiptsOf
<1> QED BY <1>1, <1>3, <1>4, <1>5, <1>6, <1>7, <1>8, <1>9

\* The effects.
LEMMA SameEffects ==
  ASSUME NEW m, NEW q, NEW S, NEW t, NEW text, NEW origin, NEW tok
  PROVE  /\ Atomic!FinishAnalysis(m) = FinishAnalysis(m)
         /\ Atomic!FailAnalysis(m) = FailAnalysis(m)
         /\ Atomic!AcceptQuestionSetup(m) = AcceptQuestionSetup(m)
         /\ Atomic!ReplaceQuestionSetup(m, S) = ReplaceQuestionSetup(m, S)
         /\ Atomic!ResetQuestionSetup(m) = ResetQuestionSetup(m)
         /\ Atomic!ReplaceCandidate(m, q, text, origin) = ReplaceCandidate(m, q, text, origin)
         /\ Atomic!RecordRephrase(m, q, text) = RecordRephrase(m, q, text)
         /\ Atomic!IssueReview(m, q, t) = IssueReview(m, q, t)
         /\ Atomic!ConfirmCandidate(m, q, tok) = ConfirmCandidate(m, q, tok)
         /\ Atomic!BeginRevision(m, q) = BeginRevision(m, q)
<1>1. /\ Atomic!FinishAnalysis(m) = FinishAnalysis(m)
      /\ Atomic!FailAnalysis(m) = FailAnalysis(m)
      /\ Atomic!AcceptQuestionSetup(m) = AcceptQuestionSetup(m)
      /\ Atomic!ResetQuestionSetup(m) = ResetQuestionSetup(m)
  BY SameHelpers, Zenon
  DEF FinishAnalysis, Atomic!FinishAnalysis, FailAnalysis,
      Atomic!FailAnalysis, AcceptQuestionSetup, Atomic!AcceptQuestionSetup,
      ResetQuestionSetup, Atomic!ResetQuestionSetup
<1>2. Atomic!ReplaceQuestionSetup(m, S) = ReplaceQuestionSetup(m, S)
  BY SameHelpers, Zenon DEF ReplaceQuestionSetup,
      Atomic!ReplaceQuestionSetup, HasQuestion, Atomic!HasQuestion,
      NewQuestion, Atomic!NewQuestion, NoAnswer, Atomic!NoAnswer, NoCandidate,
      Atomic!NoCandidate, NoRevision, Atomic!NoRevision
<1>3. Atomic!ReplaceCandidate(m, q, text, origin) = ReplaceCandidate(m, q, text, origin)
  BY SameHelpers, Zenon DEF ReplaceCandidate, Atomic!ReplaceCandidate
<1>4. Atomic!RecordRephrase(m, q, text) = RecordRephrase(m, q, text)
  BY SameHelpers, Zenon DEF RecordRephrase, Atomic!RecordRephrase
<1>5. Atomic!IssueReview(m, q, t) = IssueReview(m, q, t)
  BY SameHelpers, Zenon DEF IssueReview, Atomic!IssueReview
<1>6. Atomic!ConfirmCandidate(m, q, tok) = ConfirmCandidate(m, q, tok)
  BY SameHelpers, Zenon DEF ConfirmCandidate, Atomic!ConfirmCandidate
<1>7. Atomic!BeginRevision(m, q) = BeginRevision(m, q)
  BY SameHelpers, Zenon DEF BeginRevision, Atomic!BeginRevision
<1> QED BY <1>1, <1>2, <1>3, <1>4, <1>5, <1>6, <1>7

\* The guards.
LEMMA SameGuards ==
  ASSUME NEW m, NEW q, NEW S, NEW t, NEW text, NEW origin, NEW prior,
         NEW tok, NEW cand, NEW aver
  PROVE  /\ Atomic!CanAcceptQuestionSetup(m, t) <=> CanAcceptQuestionSetup(m, t)
         /\ Atomic!IsCorrection(m, S) <=> IsCorrection(m, S)
         /\ Atomic!CanReplaceQuestionSetup(m, S, t) <=> CanReplaceQuestionSetup(m, S, t)
         /\ Atomic!CanResetQuestionSetup(m, t) <=> CanResetQuestionSetup(m, t)
         /\ Atomic!CanReplaceCandidate(m, q, text, origin, prior, t)
              <=> CanReplaceCandidate(m, q, text, origin, prior, t)
         /\ Atomic!CanRecordRephrase(m, q, cand, t) <=> CanRecordRephrase(m, q, cand, t)
         /\ Atomic!CanIssueReview(m, q, cand, t) <=> CanIssueReview(m, q, cand, t)
         /\ Atomic!CanConfirmCandidate(m, q, tok, cand, aver, t)
              <=> CanConfirmCandidate(m, q, tok, cand, aver, t)
         /\ Atomic!CanBeginRevision(m, q, t) <=> CanBeginRevision(m, q, t)
<1> USE DEF RequireActive, Atomic!RequireActive, HasQuestion,
    Atomic!HasQuestion, HasCandidate, Atomic!HasCandidate, HasAnswer,
    Atomic!HasAnswer, RequireCandidate, Atomic!RequireCandidate
<1>1. Atomic!QuestionSetupIsLocked(m) <=> QuestionSetupIsLocked(m)
  BY SameHelpers, Zenon DEF QuestionSetupIsLocked,
      Atomic!QuestionSetupIsLocked, HasAnswerState, Atomic!HasAnswerState
<1>2. \A T : Atomic!CanReplaceQuestionSetup(m, T, t) <=> CanReplaceQuestionSetup(m, T, t)
  BY <1>1, Zenon DEF CanReplaceQuestionSetup,
      Atomic!CanReplaceQuestionSetup
<1>3. /\ Atomic!CanAcceptQuestionSetup(m, t) <=> CanAcceptQuestionSetup(m, t)
      /\ Atomic!CanResetQuestionSetup(m, t) <=> CanResetQuestionSetup(m, t)
  BY <1>1, <1>2, Zenon DEF CanAcceptQuestionSetup,
      Atomic!CanAcceptQuestionSetup, CanResetQuestionSetup,
      Atomic!CanResetQuestionSetup
<1>4. Atomic!CanReplaceCandidate(m, q, text, origin, prior, t)
        <=> CanReplaceCandidate(m, q, text, origin, prior, t)
  BY Zenon DEF CanReplaceCandidate, Atomic!CanReplaceCandidate,
      ReadyForAnswers, Atomic!ReadyForAnswers, ValidOrigin,
      Atomic!ValidOrigin, EditedVersion, Atomic!EditedVersion
<1>5. /\ Atomic!CanRecordRephrase(m, q, cand, t) <=> CanRecordRephrase(m, q, cand, t)
      /\ Atomic!CanIssueReview(m, q, cand, t) <=> CanIssueReview(m, q, cand, t)
      /\ Atomic!CanBeginRevision(m, q, t) <=> CanBeginRevision(m, q, t)
  BY Zenon DEF CanRecordRephrase, Atomic!CanRecordRephrase,
      ReadyForAnswers, Atomic!ReadyForAnswers, CanIssueReview,
      Atomic!CanIssueReview, CanBeginRevision, Atomic!CanBeginRevision
<1>6. Atomic!CanConfirmCandidate(m, q, tok, cand, aver, t)
        <=> CanConfirmCandidate(m, q, tok, cand, aver, t)
  BY SameHelpers, Zenon DEF CanConfirmCandidate,
      Atomic!CanConfirmCandidate, TokenUsable, Atomic!TokenUsable,
      RequireCurrentVersion, Atomic!RequireCurrentVersion
<1>7. Atomic!IsCorrection(m, S) <=> IsCorrection(m, S)
  BY Zenon DEF IsCorrection, Atomic!IsCorrection
<1> QED BY <1>1, <1>2, <1>3, <1>4, <1>5, <1>6, <1>7

\* An outcome of the stored manifest is a step of the atomic specification.
LEMMA OutcomeIsAtomicStep == Outcome(manifest, manifest') => Atomic!Next
<1> USE DEF Times, Atomic!Times, Origins, Atomic!Origins
<1>1. SetupOutcome(manifest, manifest') => Atomic!AcceptSetup \/ Atomic!ChangeSetup
  BY SameGuards, SameEffects, Zenon DEF SetupOutcome, Atomic!AcceptSetup, Atomic!ChangeSetup
<1>2. CandidateOutcome(manifest, manifest') => Atomic!CreateCandidate
  BY SameGuards, SameEffects, Zenon DEF CandidateOutcome, Atomic!CreateCandidate
<1>3. RephraseOutcome(manifest, manifest') => Atomic!RequestRephrase
  BY SameGuards, SameEffects, Zenon DEF RephraseOutcome, Atomic!RequestRephrase
<1>4. ReviewOutcome(manifest, manifest') => Atomic!CreateReview
  BY SameGuards, SameEffects, Zenon DEF ReviewOutcome, Atomic!CreateReview
<1>5. ConfirmOutcome(manifest, manifest') => Atomic!ConfirmAnswer
  BY SameGuards, SameEffects, Zenon DEF ConfirmOutcome, Atomic!ConfirmAnswer
<1>6. ReviseOutcome(manifest, manifest') => Atomic!ReviseAnswer
  BY SameGuards, SameEffects, Zenon DEF ReviseOutcome, Atomic!ReviseAnswer
<1> QED
  BY <1>1, <1>2, <1>3, <1>4, <1>5, <1>6 DEF Outcome, Atomic!Next

-----------------------------------------------------------------------------
(* What conditional writes maintain: a pending write whose generation is   *)
(* still current is an operation on the manifest that is stored now.       *)

FreshWrite(w) ==
  worker[w].phase = "saving" =>
    /\ worker[w].seen \in Nat
    /\ worker[w].seen <= generation
    /\ worker[w].seen = generation => Outcome(manifest, worker[w].upd)

SInv ==
  /\ generation \in Nat
  /\ worker = [w \in Workers |-> worker[w]]
  /\ \A w \in Workers : FreshWrite(w)

\* What a step that loads the manifest for worker w leaves behind.
LEMMA PendingKeeps ==
  ASSUME SInv, NEW w \in Workers, NEW op, NEW q, NEW tok, NEW cand, NEW aver, NEW upd,
         Pending(w, op, q, tok, cand, aver, upd), Outcome(manifest, upd)
  PROVE  SInv' /\ UNCHANGED manifest
<1>1. /\ worker'[w].phase = "saving" /\ worker'[w].seen = generation
      /\ worker'[w].upd = upd
  BY DEF SInv, Pending
<1>2. /\ UNCHANGED <<manifest, generation>>
      /\ \A v \in Workers \ {w} : worker'[v] = worker[v]
      /\ worker' = [v \in Workers |-> worker'[v]]
  BY DEF SInv, Pending
<1>3. FreshWrite(w)'
  BY <1>1, <1>2 DEF FreshWrite, SInv
<1>4. ASSUME NEW v \in Workers \ {w}
      PROVE  FreshWrite(v)'
  BY <1>2 DEF FreshWrite, SInv
<1> QED BY <1>2, <1>3, <1>4 DEF SInv

\* A worker that stops waiting for its write, the manifest not having moved.
LEMMA QuietKeeps ==
  ASSUME SInv, NEW w \in Workers, NEW x, x.phase # "saving",
         worker' = [worker EXCEPT ![w] = x], UNCHANGED <<manifest, generation>>
  PROVE  SInv'
<1>1. /\ worker'[w] = x
      /\ \A v \in Workers \ {w} : worker'[v] = worker[v]
      /\ worker' = [v \in Workers |-> worker'[v]]
  BY DEF SInv
<1>2. FreshWrite(w)'
  BY <1>1 DEF FreshWrite
<1>3. ASSUME NEW v \in Workers \ {w}
      PROVE  FreshWrite(v)'
  BY <1>1 DEF FreshWrite, SInv
<1> QED BY <1>1, <1>2, <1>3 DEF SInv

\* A landed write makes every other pending write stale.
LEMMA LandKeeps ==
  ASSUME SInv, NEW w \in Workers, NEW x, x.phase # "saving",
         worker' = [worker EXCEPT ![w] = x], Saving(w), Land(w)
  PROVE  SInv' /\ Outcome(manifest, manifest')
<1>1. /\ worker'[w] = x
      /\ \A v \in Workers \ {w} : worker'[v] = worker[v]
      /\ worker' = [v \in Workers |-> worker'[v]]
  BY DEF SInv
<1>2. generation' = generation + 1 /\ generation \in Nat
  BY DEF Land, SInv
<1>3. FreshWrite(w)'
  BY <1>1 DEF FreshWrite
<1>4. ASSUME NEW v \in Workers \ {w}
      PROVE  FreshWrite(v)'
  BY <1>1, <1>2 DEF FreshWrite, SInv
<1>5. Outcome(manifest, manifest')
  BY DEF Land, Saving, GenerationMatches, SInv, FreshWrite
<1> QED BY <1>1, <1>2, <1>3, <1>4, <1>5 DEF SInv

\* No write is pending at the start.
LEMMA InitSInv == Init => SInv
BY DEF Init, SInv, FreshWrite, Idle

\* The two ways a confirmation is answered.
ConfirmsNow(w, aver, t, q, tok, cand) ==
  /\ CanConfirmCandidate(manifest, q, tok, cand, aver, t)
  /\ Pending(w, "confirm", q, tok, cand, aver, ConfirmCandidate(manifest, q, tok))

ConfirmsAgain(w, aver, t, q, tok, cand) ==
  \E r \in ReplayReceipts(manifest, q, tok, cand, aver, t) :
    /\ Answered(w, [op |-> "confirm", q |-> q, tok |-> tok, cand |-> cand, aver |-> aver],
                [ok |-> TRUE, version |-> r.version, answer |-> r.answer])
    /\ UNCHANGED <<manifest, generation>>

\* A confirmation is a new one or an old one repeated.
LEMMA ConfirmCases ==
  ASSUME NEW w, ConfirmAnswer(w)
  PROVE  \E aver \in Versions, t \in Times, q \in DOMAIN manifest.questions :
           \E tok \in DOMAIN manifest.questions[q].tokens,
              cand \in 1 .. manifest.questions[q].seq :
             ConfirmsNow(w, aver, t, q, tok, cand) \/ ConfirmsAgain(w, aver, t, q, tok, cand)
BY DEF ConfirmAnswer, ConfirmsNow, ConfirmsAgain

\* Each step of the service keeps SInv and is a step of the atomic
\* specification or leaves the manifest alone.
LEMMA StepSInv == SInv /\ [Next]_vars => SInv' /\ [Atomic!Next]_manifest
<1> SUFFICES ASSUME SInv, [Next]_vars
             PROVE  SInv' /\ [Atomic!Next]_manifest
  OBVIOUS
<1>1. CASE EndAnalysis
  <2>1. Atomic!Next
    BY <1>1, SameEffects DEF EndAnalysis, Atomic!Next, Atomic!EndAnalysis
  <2>2. generation' = generation + 1 /\ generation \in Nat /\ UNCHANGED worker
    BY <1>1 DEF EndAnalysis, SInv
  <2>3. ASSUME NEW w \in Workers
        PROVE  FreshWrite(w)'
    BY <2>2 DEF FreshWrite, SInv
  <2> QED BY <2>1, <2>2, <2>3 DEF SInv
<1>2. ASSUME NEW w \in Workers, MutateQuestionSetup(w)
      PROVE  SInv' /\ UNCHANGED manifest
  <2> PICK aver \in Versions, t \in Times :
        /\ manifest.status = "READY"
        /\ \/ /\ CanAcceptQuestionSetup(manifest, t)
              /\ Pending(w, "setup", NoRequest.q, 0, 0, aver, AcceptQuestionSetup(manifest))
           \/ \E S \in SUBSET QuestionIds :
                /\ IsCorrection(manifest, S)
                /\ CanReplaceQuestionSetup(manifest, S, t)
                /\ Pending(w, "setup", NoRequest.q, 0, 0, aver, ReplaceQuestionSetup(manifest, S))
           \/ /\ CanResetQuestionSetup(manifest, t)
              /\ Pending(w, "setup", NoRequest.q, 0, 0, aver, ResetQuestionSetup(manifest))
    BY <1>2 DEF MutateQuestionSetup
  <2>1. PICK upd : /\ SetupOutcome(manifest, upd)
                   /\ Pending(w, "setup", NoRequest.q, 0, 0, aver, upd)
    BY DEF SetupOutcome
  <2> QED BY <2>1, PendingKeeps DEF Outcome
<1>3. ASSUME NEW w \in Workers, CreateCandidate(w)
      PROVE  SInv' /\ UNCHANGED manifest
  <2>1. PICK aver, q, upd : /\ CandidateOutcome(manifest, upd)
                            /\ Pending(w, "candidate", q, 0, 0, aver, upd)
    BY <1>3 DEF CreateCandidate, CandidateOutcome
  <2> QED BY <2>1, PendingKeeps DEF Outcome
<1>4. ASSUME NEW w \in Workers, RequestRephrase(w)
      PROVE  SInv' /\ UNCHANGED manifest
  <2>1. PICK aver, q, cand, upd : /\ RephraseOutcome(manifest, upd)
                                  /\ Pending(w, "rephrase", q, 0, cand, aver, upd)
    BY <1>4 DEF RequestRephrase, RephraseOutcome, CanRecordRephrase, RequireCandidate
  <2> QED BY <2>1, PendingKeeps DEF Outcome
<1>5. ASSUME NEW w \in Workers, CreateReview(w)
      PROVE  SInv' /\ UNCHANGED manifest
  <2>1. PICK aver, q, cand, upd : /\ ReviewOutcome(manifest, upd)
                                  /\ Pending(w, "review", q, 0, cand, aver, upd)
    BY <1>5 DEF CreateReview, ReviewOutcome, CanIssueReview, RequireCandidate
  <2> QED BY <2>1, PendingKeeps DEF Outcome
<1>6. ASSUME NEW w \in Workers, ConfirmAnswer(w)
      PROVE  SInv' /\ UNCHANGED manifest
  <2>1. CASE \E aver, q, tok, cand, upd :
               /\ ConfirmOutcome(manifest, upd)
               /\ Pending(w, "confirm", q, tok, cand, aver, upd)
    <3>1. PICK aver, q, tok, cand, upd :
            /\ ConfirmOutcome(manifest, upd)
            /\ Pending(w, "confirm", q, tok, cand, aver, upd)
      BY <2>1
    <3> QED BY <3>1, PendingKeeps DEF Outcome
  <2>2. CASE \E req, reply : Answered(w, req, reply) /\ UNCHANGED <<manifest, generation>>
    BY <2>2, QuietKeeps DEF Answered, Idle
  <2>3. \/ \E aver, q, tok, cand, upd :
             /\ ConfirmOutcome(manifest, upd)
             /\ Pending(w, "confirm", q, tok, cand, aver, upd)
        \/ \E req, reply : Answered(w, req, reply) /\ UNCHANGED <<manifest, generation>>
    <3> PICK aver \in Versions, t \in Times, q \in DOMAIN manifest.questions :
          \E tok \in DOMAIN manifest.questions[q].tokens,
             cand \in 1 .. manifest.questions[q].seq :
            ConfirmsNow(w, aver, t, q, tok, cand) \/ ConfirmsAgain(w, aver, t, q, tok, cand)
      BY <1>6, ConfirmCases, Zenon
    <3> PICK tok \in DOMAIN manifest.questions[q].tokens,
             cand \in 1 .. manifest.questions[q].seq :
          ConfirmsNow(w, aver, t, q, tok, cand) \/ ConfirmsAgain(w, aver, t, q, tok, cand)
      BY Zenon
    <3>1. CASE ConfirmsNow(w, aver, t, q, tok, cand)
      <4>1. CanConfirmCandidate(manifest, q, tok, manifest.questions[q].current.ver,
                                manifest.version, t)
        BY <3>1 DEF ConfirmsNow, CanConfirmCandidate, RequireCandidate, RequireCurrentVersion
      <4>2. ConfirmOutcome(manifest, ConfirmCandidate(manifest, q, tok))
        BY <4>1 DEF ConfirmOutcome
      <4> QED BY <3>1, <4>2 DEF ConfirmsNow
    <3>2. CASE ConfirmsAgain(w, aver, t, q, tok, cand)
      BY <3>2 DEF ConfirmsAgain
    <3> QED BY <3>1, <3>2
  <2> QED BY <2>1, <2>2, <2>3
<1>7. ASSUME NEW w \in Workers, ReviseAnswer(w)
      PROVE  SInv' /\ UNCHANGED manifest
  <2>1. PICK aver, q, upd : /\ ReviseOutcome(manifest, upd)
                            /\ Pending(w, "revise", q, 0, 0, aver, upd)
    BY <1>7 DEF ReviseAnswer, ReviseOutcome
  <2> QED BY <2>1, PendingKeeps DEF Outcome
<1>8. ASSUME NEW w \in Workers, SaveAcknowledged(w) \/ SaveLostAck(w)
      PROVE  SInv' /\ Outcome(manifest, manifest')
  <2>1. PICK x : /\ x.phase # "saving" /\ worker' = [worker EXCEPT ![w] = x]
                 /\ Saving(w) /\ Land(w)
    BY <1>8 DEF SaveAcknowledged, SaveLostAck, Answered, Idle, Conflict
  <2> QED BY <2>1, LandKeeps
<1>9. ASSUME NEW w \in Workers, SaveConflict(w) \/ ReapplyConfirm(w)
      PROVE  SInv' /\ UNCHANGED manifest
  <2>1. PICK x : /\ x.phase # "saving" /\ worker' = [worker EXCEPT ![w] = x]
                 /\ UNCHANGED <<manifest, generation>>
    BY <1>9 DEF SaveConflict, ReapplyConfirm, Answered, Idle, Conflict
  <2> QED BY <2>1, QuietKeeps
<1>10. ASSUME NEW w \in Workers, Fail(w)
       PROVE  SInv' /\ (UNCHANGED manifest \/ Outcome(manifest, manifest'))
  <2>1. PICK x : /\ x.phase # "saving" /\ worker' = [worker EXCEPT ![w] = x]
                 /\ \/ UNCHANGED <<manifest, generation>>
                    \/ Saving(w) /\ Land(w)
    BY <1>10 DEF Fail, Answered, Idle
  <2>2. CASE UNCHANGED <<manifest, generation>>
    BY <2>1, <2>2, QuietKeeps
  <2>3. CASE Saving(w) /\ Land(w)
    BY <2>1, <2>3, LandKeeps
  <2> QED BY <2>1, <2>2, <2>3
<1>11. CASE UNCHANGED vars
  BY <1>11 DEF vars, SInv, FreshWrite
<1> QED
  BY <1>1, <1>2, <1>3, <1>4, <1>5, <1>6, <1>7, <1>8, <1>9, <1>10, <1>11,
     OutcomeIsAtomicStep DEF Next

-----------------------------------------------------------------------------
(* The refinement and what follows from it.                                *)

\* Whatever the interleaving, the lost acknowledgements and the crashes, the
\* stored manifest has the history of atomic requests.
THEOREM ServiceImplementsAtomic == Spec => ImplementsAtomic
<1>1. Init => Atomic!Init
  BY SameHelpers DEF Init, Atomic!Init
<1>2. Init => SInv
  BY InitSInv
<1>3. SInv /\ [Next]_vars => SInv' /\ [Atomic!Next]_manifest
  BY StepSInv
<1> QED
  BY <1>1, <1>2, <1>3, PTL DEF Spec, ImplementsAtomic, Atomic!Spec

-----------------------------------------------------------------------------
(* What a request's computation does to the version and the receipts.      *)

\* The public version moves with every operation but a review.
Gain(op) == IF op = "review" THEN 0 ELSE 1

\* The receipt of a confirmation that was answered.
ReceiptOf(req, version, answer) ==
  [q |-> req.q, tok |-> req.tok, cand |-> req.cand, aver |-> req.aver,
   version |-> version, answer |-> answer]

\* n is what request req makes of m.
GoodUpdate(m, req, n) ==
  /\ req.aver = m.version
  /\ n.version = m.version + Gain(req.op)
  /\ n.receipts = m.receipts \cup
       (IF req.op = "confirm"
        THEN {ReceiptOf(req, n.version, n.questions[req.q].confirmed)} ELSE {})

\* A change of the set-up moves the version and files nothing.
LEMMA SetupEffect ==
  ASSUME NEW m, IsManifest(m), NEW n,
         \/ n = AcceptQuestionSetup(m)
         \/ \E S \in SUBSET QuestionIds : n = ReplaceQuestionSetup(m, S)
         \/ n = ResetQuestionSetup(m)
  PROVE  IsManifest(n) /\ n.version = m.version + 1 /\ n.receipts = m.receipts
<1>1. ASSUME NEW b \in BOOLEAN, NEW S \in SUBSET QuestionIds, NEW Q \in [S -> QuestionState],
             n = Bump(WithQuestions(m, b, Q))
      PROVE  IsManifest(n) /\ n.version = m.version + 1 /\ n.receipts = m.receipts
  <2> DEFINE k == WithQuestions(m, b, Q)
  <2>1. IsManifest(k) /\ k.version = m.version /\ k.receipts = m.receipts
    BY WithQuestionsFacts
  <2> HIDE DEF k
  <2> QED
    BY <1>1, <2>1, BumpFacts DEF k
<1>2. CASE n = AcceptQuestionSetup(m)
  <2>1. DOMAIN m.questions \in SUBSET QuestionIds
        /\ m.questions \in [DOMAIN m.questions -> QuestionState]
    BY DEF IsManifest
  <2> QED
    BY <1>1, <1>2, <2>1 DEF AcceptQuestionSetup
<1>3. CASE \E S \in SUBSET QuestionIds : n = ReplaceQuestionSetup(m, S)
  <2> PICK S \in SUBSET QuestionIds : n = ReplaceQuestionSetup(m, S)
    BY <1>3
  <2> DEFINE Q == [q \in S |-> IF HasQuestion(m, q) THEN m.questions[q] ELSE NewQuestion]
  <2>1. Q \in [S -> QuestionState]
    BY NewQuestionType DEF IsManifest, HasQuestion
  <2>2. n = Bump(WithQuestions(m, FALSE, Q))
    BY DEF ReplaceQuestionSetup
  <2> HIDE DEF Q
  <2> QED
    BY <1>1, <2>1, <2>2
<1>4. CASE n = ResetQuestionSetup(m)
  BY <1>1, <1>4, FreshType, ConstantsAssumption DEF ResetQuestionSetup
<1> QED
  BY <1>2, <1>3, <1>4

\* Nor do the ends of analysis, which leave the version as well.
LEMMA EndEffect ==
  ASSUME NEW m, IsManifest(m), NEW n, n \in {FinishAnalysis(m), FailAnalysis(m)}
  PROVE  IsManifest(n) /\ n.version = m.version /\ n.receipts = m.receipts
<1>1. ASSUME NEW S \in SUBSET QuestionIds, NEW b \in BOOLEAN, NEW status \in Status,
             n = [WithQuestions(m, b, Fresh(S)) EXCEPT !.status = status]
      PROVE  IsManifest(n) /\ n.version = m.version /\ n.receipts = m.receipts
  <2> DEFINE k == WithQuestions(m, b, Fresh(S))
  <2>1. IsManifest(k) /\ k.version = m.version /\ k.receipts = m.receipts
    BY FreshType, WithQuestionsFacts
  <2> HIDE DEF k
  <2> QED
    BY <1>1, <2>1, WithStatusFacts DEF k
<1>2. CASE n = FinishAnalysis(m)
  BY <1>1, <1>2, ConstantsAssumption DEF FinishAnalysis, Status
<1>3. CASE n = FailAnalysis(m)
  BY <1>1, <1>3 DEF FailAnalysis, Status, IsManifest
<1> QED
  BY <1>2, <1>3

-----------------------------------------------------------------------------
(* The invariant of the replies: every version a client was told is made,  *)
(* and was made by its request alone.                                      *)

\* Confirmations are numbered by the version they made.
GoodReceipts(m) ==
  \A r, s \in m.receipts :
    /\ r.version = r.aver + 1
    /\ r.version <= m.version
    /\ r.version = s.version => r = s

\* What a client was told is on record, or at least nothing else has its version.
GoodReply(m, x) ==
  x.reply.ok =>
    /\ x.reply.version = x.req.aver + Gain(x.req.op)
    /\ x.reply.version <= m.version
    /\ x.req.op = "confirm" => ReceiptOf(x.req, x.reply.version, x.reply.answer) \in m.receipts
    /\ x.req.op \notin {"confirm", "review"} => \A r \in m.receipts : r.version # x.reply.version

IsCall(x) ==
  /\ x = [phase |-> x.phase, req |-> x.req, seen |-> x.seen, upd |-> x.upd, reply |-> x.reply]
  /\ x.phase \in {"idle", "saving", "conflict"}
  /\ x.req \in Request
  /\ x.seen \in Nat
  /\ IsManifest(x.upd)
  /\ x.reply \in Reply

GoodCall(m, g, x) ==
  /\ IsCall(x)
  /\ x.phase = "saving" => x.seen <= g /\ (x.seen = g => GoodUpdate(m, x.req, x.upd))
  /\ GoodReply(m, x)

\* Two replies that name the same version are of the same confirmation.
Apart(x, y) ==
  x.reply.ok /\ y.reply.ok /\ "review" \notin {x.req.op, y.req.op}
    => x.reply.version # y.reply.version \/ (x.req = y.req /\ x.req.op = "confirm")

VInv ==
  /\ IsManifest(manifest)
  /\ generation \in Nat
  /\ worker = [w \in Workers |-> worker[w]]
  /\ GoodReceipts(manifest)
  /\ \A w \in Workers : GoodCall(manifest, generation, worker[w])
  /\ \A v, w \in Workers : v # w => Apart(worker[v], worker[w])

\* What a step owes: the invariant, and that nothing on record is lost.
Keeps ==
  /\ VInv'
  /\ manifest.receipts \subseteq manifest'.receipts
  /\ \A r \in manifest'.receipts \ manifest.receipts :
       r.version = manifest'.version /\ r.version > manifest.version

\* Requests and replies that say nothing yet.
LEMMA IdleFacts ==
  /\ NoRequest \in Request /\ NoReply \in Reply /\ ~NoReply.ok /\ NoAnswer \in Answer
  /\ IsManifest(NewManifest)
<1>1. NoAnswer \in Answer
  BY DEF NoAnswer, Answer, Origins
<1>2. NoRequest \in Request
  BY ServiceAssumption DEF NoRequest, Request, Ops
<1> QED
  BY <1>1, <1>2, NewManifestFacts DEF NoReply, Reply

\* Nobody has been told anything at the start.
LEMMA InitVInv == Init => VInv
<1> SUFFICES ASSUME Init PROVE VInv
  OBVIOUS
<1>1. \A w \in Workers : worker[w] = Idle(NoRequest, NoReply)
  BY DEF Init
<1> DEFINE x == Idle(NoRequest, NoReply)
<1>2. IsCall(x) /\ x.phase = "idle" /\ ~x.reply.ok
  BY IdleFacts DEF Idle, IsCall
<1> HIDE DEF x
<1>3. GoodCall(manifest, generation, x) /\ Apart(x, x)
  BY <1>2 DEF GoodCall, GoodReply, Apart
<1> QED
  BY <1>1, <1>3, NewManifestFacts DEF Init, VInv, GoodReceipts, x

\* One request's step, with the manifest as it was.
LEMMA CallKeeps ==
  ASSUME VInv, NEW w \in Workers, NEW x, worker' = [worker EXCEPT ![w] = x],
         UNCHANGED <<manifest, generation>>, GoodCall(manifest, generation, x),
         \A v \in Workers \ {w} : Apart(worker[v], x) /\ Apart(x, worker[v])
  PROVE  Keeps
<1>1. /\ worker'[w] = x
      /\ \A v \in Workers \ {w} : worker'[v] = worker[v]
      /\ worker' = [v \in Workers |-> worker'[v]]
  BY DEF VInv
<1> QED
  BY <1>1 DEF VInv, Keeps

\* A request that says nothing yet cannot contradict another one.
LEMMA SilentKeeps ==
  ASSUME VInv, NEW w \in Workers, NEW x, worker' = [worker EXCEPT ![w] = x],
         UNCHANGED <<manifest, generation>>, IsCall(x), ~x.reply.ok,
         x.phase = "saving" => x.seen = generation /\ GoodUpdate(manifest, x.req, x.upd)
  PROVE  Keeps
<1>1. GoodCall(manifest, generation, x)
  BY DEF GoodCall, GoodReply, VInv
<1>2. \A v \in Workers \ {w} : Apart(worker[v], x) /\ Apart(x, worker[v])
  BY DEF Apart
<1> QED
  BY <1>1, <1>2, CallKeeps

\* A request has loaded the manifest and computed its update.
LEMMA LoadKeeps ==
  ASSUME VInv, NEW w \in Workers, NEW op \in Ops, NEW q \in QuestionIds, NEW tok \in Nat,
         NEW cand \in Nat, NEW aver, NEW upd, Pending(w, op, q, tok, cand, aver, upd),
         IsManifest(upd),
         GoodUpdate(manifest, [op |-> op, q |-> q, tok |-> tok, cand |-> cand, aver |-> aver], upd)
  PROVE  Keeps
<1> DEFINE req == [op |-> op, q |-> q, tok |-> tok, cand |-> cand, aver |-> aver]
           x == [phase |-> "saving", seen |-> generation, upd |-> upd, reply |-> NoReply,
                 req |-> req]
<1>1. worker' = [worker EXCEPT ![w] = x] /\ UNCHANGED <<manifest, generation>>
  BY DEF Pending
<1>2. aver \in Nat
  BY DEF GoodUpdate, VInv, IsManifest
<1>3. req \in Request
  BY <1>2 DEF Request
<1> HIDE DEF req
<1>4. IsCall(x) /\ ~x.reply.ok /\ x.phase = "saving" /\ x.seen = generation
      /\ GoodUpdate(manifest, x.req, x.upd)
  BY <1>3, IdleFacts DEF VInv, IsCall, req
<1> HIDE DEF x
<1> QED
  BY <1>1, <1>4, SilentKeeps

\* The write of a request lands: it made the version after the stored one, and whoever
\* was told of a version was told of an earlier one.
LEMMA LandFacts ==
  ASSUME VInv, NEW w \in Workers, NEW x, worker' = [worker EXCEPT ![w] = x],
         Saving(w), Land(w), IsCall(x), x.phase # "saving", x.req = worker[w].req,
         ~x.reply.ok \/ x.reply = Result(w)
  PROVE  Keeps
<1> DEFINE y == worker[w]
           n == y.upd
<1>1. /\ worker'[w] = x
      /\ \A v \in Workers \ {w} : worker'[v] = worker[v]
      /\ worker' = [v \in Workers |-> worker'[v]]
  BY DEF VInv
<1>2. /\ manifest' = n /\ generation' = generation + 1 /\ generation \in Nat
      /\ IsManifest(n) /\ GoodUpdate(manifest, y.req, n) /\ y.req \in Request
  BY DEF Land, Saving, GenerationMatches, VInv, GoodCall, IsCall
<1>3. manifest.version \in Nat /\ n.version \in Nat /\ manifest.receipts \subseteq Receipt
  BY <1>2 DEF VInv, IsManifest
<1>4. /\ n.version = manifest.version + Gain(y.req.op)
      /\ manifest.version <= n.version
      /\ manifest.receipts \subseteq n.receipts
      /\ \A r \in n.receipts \ manifest.receipts :
           /\ y.req.op = "confirm"
           /\ r = ReceiptOf(y.req, n.version, n.questions[y.req.q].confirmed)
           /\ r.version = n.version /\ r.aver = manifest.version
           /\ n.version = manifest.version + 1
  <2>1. /\ y.req.aver = manifest.version
        /\ n.version = manifest.version + Gain(y.req.op)
        /\ Gain(y.req.op) \in {0, 1} /\ (y.req.op = "confirm" => Gain(y.req.op) = 1)
    BY <1>2 DEF GoodUpdate, Gain
  <2>2. CASE y.req.op = "confirm"
    <3> DEFINE r0 == ReceiptOf(y.req, n.version, n.questions[y.req.q].confirmed)
    <3>1. n.receipts = manifest.receipts \cup {r0}
      BY <1>2, <2>2 DEF GoodUpdate
    <3>2. r0.version = n.version /\ r0.aver = manifest.version
      BY <2>1 DEF ReceiptOf
    <3>3. n.version = manifest.version + 1 /\ manifest.version <= n.version
      BY <1>3, <2>1, <2>2
    <3> HIDE DEF r0
    <3>4. /\ manifest.receipts \subseteq n.receipts
          /\ \A r \in n.receipts \ manifest.receipts :
               r = r0 /\ r.version = n.version /\ r.aver = manifest.version
      BY <3>1, <3>2
    <3> QED
      BY <2>1, <2>2, <3>3, <3>4 DEF r0
  <2>3. CASE y.req.op # "confirm"
    BY <1>2, <1>3, <2>1, <2>3 DEF GoodUpdate
  <2> QED
    BY <2>2, <2>3
<1>5. GoodReceipts(n)
  <2>1. \A r \in manifest.receipts : r.version \in Nat /\ r.version <= manifest.version
    BY <1>3 DEF VInv, GoodReceipts, Receipt
  <2> QED
    BY <1>3, <1>4, <2>1 DEF VInv, GoodReceipts
<1>6. ASSUME NEW v \in Workers \ {w}
      PROVE  GoodCall(n, generation + 1, worker[v])
  <2>1. GoodCall(manifest, generation, worker[v])
    BY DEF VInv
  <2>2. worker[v].phase = "saving" => worker[v].seen < generation + 1
    BY <1>2, <2>1 DEF GoodCall, IsCall
  <2>3. worker[v].reply.version \in Nat
    BY <2>1 DEF GoodCall, IsCall, Reply
  <2>4. GoodReply(n, worker[v])
    BY <1>3, <1>4, <2>1, <2>3 DEF GoodCall, GoodReply
  <2> QED
    BY <1>2, <2>1, <2>2, <2>4 DEF GoodCall, IsCall
<1>7. x.reply.ok => /\ x.reply.version = n.version
                    /\ x.req.op = "confirm" => x.reply.answer = n.questions[x.req.q].confirmed
  BY DEF Result
<1>8. GoodReply(n, x)
  <2>1. \A r \in manifest.receipts : r.version \in Nat /\ r.version <= manifest.version
    BY <1>3 DEF VInv, GoodReceipts, Receipt
  <2>2. x.req.op = "confirm" =>
          ReceiptOf(x.req, n.version, n.questions[x.req.q].confirmed) \in n.receipts
    BY <1>2 DEF GoodUpdate
  <2>3. x.req.op \notin {"confirm", "review"} =>
          \A r \in n.receipts : r.version # n.version
    BY <1>3, <1>4, <2>1 DEF Gain
  <2>4. n.version = x.req.aver + Gain(x.req.op)
    BY <1>2 DEF GoodUpdate
  <2> QED
    BY <1>3, <1>7, <2>2, <2>3, <2>4 DEF GoodReply
<1>9. \A v \in Workers \ {w} : Apart(worker[v], x) /\ Apart(x, worker[v])
  <2>1. \A v \in Workers \ {w} :
          worker[v].reply.ok => worker[v].reply.version \in Nat
                                /\ worker[v].reply.version <= manifest.version
    BY DEF VInv, GoodCall, GoodReply, IsCall, Reply
  <2>2. x.reply.ok /\ x.req.op # "review" => x.reply.version = manifest.version + 1
    BY <1>4, <1>7 DEF Gain
  <2> QED
    BY <1>3, <2>1, <2>2 DEF Apart
<1>10. GoodCall(n, generation + 1, x)
  BY <1>8 DEF GoodCall
<1>11. VInv'
  BY <1>1, <1>2, <1>5, <1>6, <1>9, <1>10 DEF VInv
<1> QED
  BY <1>2, <1>3, <1>4, <1>11 DEF Keeps

-----------------------------------------------------------------------------
(* The actions.                                                            *)

\* Set-up requests.
LEMMA MutateQuestionSetupStep == \A w \in Workers : VInv /\ MutateQuestionSetup(w) => Keeps
<1> SUFFICES ASSUME VInv, NEW w \in Workers, MutateQuestionSetup(w) PROVE Keeps
  OBVIOUS
<1>1. IsManifest(manifest)
  BY DEF VInv
<1>2. PICK aver, upd :
        /\ RequireCurrentVersion(manifest, aver)
        /\ Pending(w, "setup", NoRequest.q, 0, 0, aver, upd)
        /\ \/ upd = AcceptQuestionSetup(manifest)
           \/ \E S \in SUBSET QuestionIds : upd = ReplaceQuestionSetup(manifest, S)
           \/ upd = ResetQuestionSetup(manifest)
  BY DEF MutateQuestionSetup
<1>3. IsManifest(upd) /\ upd.version = manifest.version + 1 /\ upd.receipts = manifest.receipts
  BY <1>1, <1>2, SetupEffect
<1>4. GoodUpdate(manifest, [op |-> "setup", q |-> NoRequest.q, tok |-> 0, cand |-> 0,
                            aver |-> aver], upd)
  BY <1>2, <1>3 DEF GoodUpdate, Gain, RequireCurrentVersion
<1>5. "setup" \in Ops /\ NoRequest.q \in QuestionIds
  BY IdleFacts DEF Ops, Request
<1> QED
  BY <1>2, <1>3, <1>4, <1>5, LoadKeeps

\* What a question of the manifest is.
LEMMA QuestionFacts ==
  ASSUME VInv, NEW q \in DOMAIN manifest.questions
  PROVE  /\ IsManifest(manifest) /\ q \in QuestionIds
         /\ manifest.questions[q].seq \in Nat
         /\ DOMAIN manifest.questions[q].tokens \subseteq Nat
<1>1. manifest.questions[q] \in QuestionState /\ q \in QuestionIds /\ IsManifest(manifest)
  BY DEF VInv, IsManifest
<1> QED
  BY <1>1 DEF QuestionState

\* Requests for a new candidate, typed, spoken or chosen.
LEMMA CreateCandidateStep == \A w \in Workers : VInv /\ CreateCandidate(w) => Keeps
<1> SUFFICES ASSUME VInv, NEW w \in Workers, CreateCandidate(w) PROVE Keeps
  OBVIOUS
<1>1. PICK aver \in Versions, q \in DOMAIN manifest.questions, text \in Texts, origin \in Origins :
        /\ RequireCurrentVersion(manifest, aver)
        /\ Pending(w, "candidate", q, 0, 0, aver, ReplaceCandidate(manifest, q, text, origin))
  BY DEF CreateCandidate
<1> DEFINE upd == ReplaceCandidate(manifest, q, text, origin)
<1>2. IsManifest(manifest) /\ q \in QuestionIds /\ "candidate" \in Ops
  BY QuestionFacts DEF Ops
<1>3. IsManifest(upd) /\ upd.version = manifest.version + 1 /\ upd.receipts = manifest.receipts
  BY <1>2, ReplaceCandidateFacts DEF OnlyQuestion
<1> HIDE DEF upd
<1>4. GoodUpdate(manifest, [op |-> "candidate", q |-> q, tok |-> 0, cand |-> 0,
                            aver |-> aver], upd)
  BY <1>1, <1>3 DEF GoodUpdate, Gain, RequireCurrentVersion
<1> QED
  BY <1>1, <1>2, <1>3, <1>4, LoadKeeps DEF upd

\* Requests for a suggestion.
LEMMA RequestRephraseStep == \A w \in Workers : VInv /\ RequestRephrase(w) => Keeps
<1> SUFFICES ASSUME VInv, NEW w \in Workers, RequestRephrase(w) PROVE Keeps
  OBVIOUS
<1>1. PICK aver \in Versions, q \in DOMAIN manifest.questions, text \in Texts :
        \E cand \in 1 .. manifest.questions[q].seq :
          /\ RequireCurrentVersion(manifest, aver)
          /\ Pending(w, "rephrase", q, 0, cand, aver, RecordRephrase(manifest, q, text))
  BY Zenon DEF RequestRephrase
<1> PICK cand \in 1 .. manifest.questions[q].seq :
        /\ RequireCurrentVersion(manifest, aver)
        /\ Pending(w, "rephrase", q, 0, cand, aver, RecordRephrase(manifest, q, text))
  BY <1>1, Zenon
<1> DEFINE upd == RecordRephrase(manifest, q, text)
<1>2. IsManifest(manifest) /\ q \in QuestionIds /\ cand \in Nat /\ "rephrase" \in Ops
  BY QuestionFacts DEF Ops
<1>3. IsManifest(upd) /\ upd.version = manifest.version + 1 /\ upd.receipts = manifest.receipts
  BY <1>2, RecordRephraseFacts DEF OnlyQuestion
<1> HIDE DEF upd
<1>4. GoodUpdate(manifest, [op |-> "rephrase", q |-> q, tok |-> 0, cand |-> cand,
                            aver |-> aver], upd)
  BY <1>3 DEF GoodUpdate, Gain, RequireCurrentVersion
<1>5. Pending(w, "rephrase", q, 0, cand, aver, upd)
  BY DEF upd
<1> QED
  BY <1>2, <1>3, <1>4, <1>5, LoadKeeps

\* Requests for a review: the version stays.
LEMMA CreateReviewStep == \A w \in Workers : VInv /\ CreateReview(w) => Keeps
<1> SUFFICES ASSUME VInv, NEW w \in Workers, CreateReview(w) PROVE Keeps
  OBVIOUS
<1>1. PICK aver \in Versions, t \in Times, q \in DOMAIN manifest.questions :
        \E cand \in 1 .. manifest.questions[q].seq :
          /\ RequireCurrentVersion(manifest, aver)
          /\ Pending(w, "review", q, 0, cand, aver, IssueReview(manifest, q, t))
  BY Zenon DEF CreateReview
<1> PICK cand \in 1 .. manifest.questions[q].seq :
        /\ RequireCurrentVersion(manifest, aver)
        /\ Pending(w, "review", q, 0, cand, aver, IssueReview(manifest, q, t))
  BY <1>1, Zenon
<1> DEFINE upd == IssueReview(manifest, q, t)
<1>2. IsManifest(manifest) /\ q \in QuestionIds /\ cand \in Nat /\ "review" \in Ops
  BY QuestionFacts DEF Ops
<1>3. IsManifest(upd) /\ upd.version = manifest.version /\ upd.receipts = manifest.receipts
  BY <1>2, IssueReviewFacts, ZenonT(40) DEF OnlyQuestion
<1> HIDE DEF upd
<1>4. GoodUpdate(manifest, [op |-> "review", q |-> q, tok |-> 0, cand |-> cand,
                            aver |-> aver], upd)
  BY <1>2, <1>3 DEF GoodUpdate, Gain, RequireCurrentVersion, IsManifest
<1>5. Pending(w, "review", q, 0, cand, aver, upd)
  BY DEF upd
<1> QED
  BY <1>2, <1>3, <1>4, <1>5, LoadKeeps

\* Requests to open a revision.
LEMMA ReviseAnswerStep == \A w \in Workers : VInv /\ ReviseAnswer(w) => Keeps
<1> SUFFICES ASSUME VInv, NEW w \in Workers, ReviseAnswer(w) PROVE Keeps
  OBVIOUS
<1>1. PICK aver \in Versions, q \in DOMAIN manifest.questions :
        /\ RequireCurrentVersion(manifest, aver)
        /\ Pending(w, "revise", q, 0, 0, aver, BeginRevision(manifest, q))
  BY DEF ReviseAnswer
<1> DEFINE upd == BeginRevision(manifest, q)
<1>2. IsManifest(manifest) /\ q \in QuestionIds /\ "revise" \in Ops
  BY QuestionFacts DEF Ops
<1>3. IsManifest(upd) /\ upd.version = manifest.version + 1 /\ upd.receipts = manifest.receipts
  BY <1>2, BeginRevisionFacts DEF OnlyQuestion
<1> HIDE DEF upd
<1>4. GoodUpdate(manifest, [op |-> "revise", q |-> q, tok |-> 0, cand |-> 0,
                            aver |-> aver], upd)
  BY <1>1, <1>3 DEF GoodUpdate, Gain, RequireCurrentVersion
<1> QED
  BY <1>1, <1>2, <1>3, <1>4, LoadKeeps DEF upd

\* A receipt answers the request it was made for, and no other change has its version.
LEMMA ReplayKeeps ==
  ASSUME VInv, NEW w \in Workers, NEW q \in QuestionIds, NEW tok \in Nat, NEW cand \in Nat,
         NEW aver \in Nat, NEW t, NEW r \in ReplayReceipts(manifest, q, tok, cand, aver, t),
         Answered(w, [op |-> "confirm", q |-> q, tok |-> tok, cand |-> cand, aver |-> aver],
                  [ok |-> TRUE, version |-> r.version, answer |-> r.answer]),
         UNCHANGED <<manifest, generation>>
  PROVE  Keeps
<1> DEFINE req == [op |-> "confirm", q |-> q, tok |-> tok, cand |-> cand, aver |-> aver]
           reply == [ok |-> TRUE, version |-> r.version, answer |-> r.answer]
           x == Idle(req, reply)
<1>1. r \in manifest.receipts /\ r.q = q /\ r.tok = tok /\ r.cand = cand /\ r.aver = aver
  BY DEF ReplayReceipts, ReceiptsOf
<1>2. r \in Receipt
  BY <1>1 DEF VInv, IsManifest
<1>3. req \in Request /\ reply \in Reply
  BY <1>2 DEF Request, Ops, Reply, Receipt
<1>4. IsCall(x) /\ x.req = req /\ x.reply = reply /\ x.phase = "idle"
  BY <1>3, IdleFacts DEF Idle, IsCall
<1>5. ReceiptOf(req, r.version, r.answer) = r
  BY <1>1, <1>2 DEF ReceiptOf, Receipt
<1>6. req.op = "confirm" /\ req.aver = r.aver /\ reply.version = r.version
      /\ reply.answer = r.answer
  BY <1>1
<1>7. worker' = [worker EXCEPT ![w] = x]
  BY DEF Answered
<1> HIDE DEF req, reply, x
<1>8. GoodReply(manifest, x)
  BY <1>1, <1>4, <1>5, <1>6 DEF GoodReply, Gain, VInv, GoodReceipts
<1>9. ASSUME NEW v \in Workers \ {w}, worker[v].reply.ok, worker[v].req.op # "review",
             worker[v].reply.version = r.version
      PROVE  worker[v].req = req
  <2> DEFINE y == worker[v]
             s == ReceiptOf(y.req, y.reply.version, y.reply.answer)
  <2>1. GoodReply(manifest, y) /\ y.req \in Request
    BY DEF VInv, GoodCall, IsCall
  <2>2. y.req.op = "confirm" /\ s \in manifest.receipts
    BY <1>1, <1>9, <2>1 DEF GoodReply
  <2>3. s.version = r.version
    BY <1>9 DEF ReceiptOf
  <2>4. s = r
    BY <1>1, <2>2, <2>3 DEF VInv, GoodReceipts
  <2>5. y.req.q = q /\ y.req.tok = tok /\ y.req.cand = cand /\ y.req.aver = aver
    BY <1>1, <2>4 DEF ReceiptOf
  <2> QED
    BY <2>1, <2>2, <2>5 DEF Request, req
<1>10. \A v \in Workers \ {w} : Apart(worker[v], x) /\ Apart(x, worker[v])
  BY <1>4, <1>6, <1>9 DEF Apart
<1>11. GoodCall(manifest, generation, x)
  BY <1>4, <1>8 DEF GoodCall
<1> QED
  BY <1>7, <1>10, <1>11, CallKeeps

\* Confirmations, first or repeated.
LEMMA ConfirmAnswerStep == \A w \in Workers : VInv /\ ConfirmAnswer(w) => Keeps
<1> SUFFICES ASSUME VInv, NEW w \in Workers, ConfirmAnswer(w) PROVE Keeps
  OBVIOUS
<1>1. PICK aver \in Versions, t \in Times, q \in DOMAIN manifest.questions :
        \E tok \in DOMAIN manifest.questions[q].tokens, cand \in 1 .. manifest.questions[q].seq :
          ConfirmsNow(w, aver, t, q, tok, cand) \/ ConfirmsAgain(w, aver, t, q, tok, cand)
  BY ConfirmCases, Zenon
<1>2. PICK tok \in DOMAIN manifest.questions[q].tokens, cand \in 1 .. manifest.questions[q].seq :
        ConfirmsNow(w, aver, t, q, tok, cand) \/ ConfirmsAgain(w, aver, t, q, tok, cand)
  BY <1>1, Zenon
<1>3. /\ IsManifest(manifest) /\ q \in QuestionIds /\ tok \in Nat /\ cand \in Nat /\ aver \in Nat
      /\ "confirm" \in Ops
  <2>1. manifest.version \in Nat
    BY DEF VInv, IsManifest
  <2> QED
    BY <2>1, QuestionFacts DEF Versions, Ops
<1>4. CASE /\ CanConfirmCandidate(manifest, q, tok, cand, aver, t)
           /\ Pending(w, "confirm", q, tok, cand, aver, ConfirmCandidate(manifest, q, tok))
  <2> DEFINE upd == ConfirmCandidate(manifest, q, tok)
             s == manifest.questions[q]
             a == [rev |-> s.confirmed.rev + 1, cand |-> s.current.ver,
                   text |-> s.current.text, origin |-> s.current.origin]
             r == [q |-> q, tok |-> tok, cand |-> s.current.ver, aver |-> manifest.version,
                   version |-> manifest.version + 1, answer |-> a]
             req == [op |-> "confirm", q |-> q, tok |-> tok, cand |-> cand, aver |-> aver]
  <2>1. aver = manifest.version /\ cand = s.current.ver
    BY <1>4 DEF CanConfirmCandidate, RequireCurrentVersion, RequireCandidate
  <2>2. /\ IsManifest(upd) /\ upd.version = manifest.version + 1
        /\ upd.receipts = manifest.receipts \cup {r}
        /\ upd.questions[q].confirmed = a
    <3>1. /\ OnlyQuestion(manifest, upd, q)
          /\ upd.version = manifest.version + 1 /\ upd.receipts = manifest.receipts \cup {r}
          /\ upd.questions[q] =
               [seq |-> s.seq, current |-> s.current, confirmed |-> a,
                revision |-> NoRevision, rephrases |-> s.rephrases,
                tokens |-> ConsumeReview(s.tokens, tok)]
      BY <1>3, ConfirmCandidateFacts, Zenon
    <3> HIDE DEF upd, a, r
    <3> QED
      BY <3>1 DEF OnlyQuestion
  <2> HIDE DEF upd, a
  <2>3. r = ReceiptOf(req, upd.version, upd.questions[req.q].confirmed)
    BY <2>1, <2>2 DEF ReceiptOf
  <2>4. req.op = "confirm" /\ req.aver = manifest.version
    BY <2>1
  <2> HIDE DEF req, r
  <2>5. GoodUpdate(manifest, req, upd)
    BY <2>2, <2>3, <2>4 DEF GoodUpdate, Gain
  <2> QED
    BY <1>3, <1>4, <2>2, <2>5, LoadKeeps DEF upd, req
<1>5. CASE \E r \in ReplayReceipts(manifest, q, tok, cand, aver, t) :
             /\ Answered(w, [op |-> "confirm", q |-> q, tok |-> tok, cand |-> cand, aver |-> aver],
                         [ok |-> TRUE, version |-> r.version, answer |-> r.answer])
             /\ UNCHANGED <<manifest, generation>>
  BY <1>3, <1>5, ReplayKeeps
<1> QED
  BY <1>2, <1>4, <1>5 DEF ConfirmsNow, ConfirmsAgain

\* Acknowledged writes, and those whose acknowledgement was lost.
LEMMA SaveStep == \A w \in Workers : VInv /\ (SaveAcknowledged(w) \/ SaveLostAck(w)) => Keeps
<1> SUFFICES ASSUME VInv, NEW w \in Workers, SaveAcknowledged(w) \/ SaveLostAck(w) PROVE Keeps
  OBVIOUS
<1> DEFINE y == worker[w]
<1>1. /\ Saving(w) /\ Land(w) /\ IsCall(y) /\ IsManifest(y.upd) /\ y.req \in Request
      /\ GoodUpdate(manifest, y.req, y.upd)
  BY DEF SaveAcknowledged, SaveLostAck, VInv, GoodCall, IsCall, Saving, Land, GenerationMatches
<1>2. CASE SaveAcknowledged(w)
  <2> DEFINE x == Idle(y.req, Result(w))
  <2>1. Result(w) \in Reply
    <3>1. y.upd.version \in Nat /\ y.upd.receipts \subseteq Receipt
      BY <1>1 DEF IsManifest
    <3>2. y.req.op = "confirm" => y.upd.questions[y.req.q].confirmed \in Answer
      <4> SUFFICES ASSUME y.req.op = "confirm" PROVE y.upd.questions[y.req.q].confirmed \in Answer
        OBVIOUS
      <4>1. ReceiptOf(y.req, y.upd.version, y.upd.questions[y.req.q].confirmed) \in Receipt
        BY <1>1, <3>1 DEF GoodUpdate
      <4> QED
        BY <4>1 DEF ReceiptOf, Receipt
    <3> QED
      BY <3>1, <3>2, IdleFacts DEF Result, Reply
  <2>2. IsCall(x) /\ x.phase # "saving" /\ x.req = y.req /\ x.reply = Result(w)
    BY <1>1, <2>1, IdleFacts DEF Idle, IsCall
  <2>3. worker' = [worker EXCEPT ![w] = x]
    BY <1>2 DEF SaveAcknowledged, Answered
  <2> HIDE DEF x
  <2> QED
    BY <1>1, <2>2, <2>3, LandFacts
<1>3. CASE SaveLostAck(w)
  <2> DEFINE x == [phase |-> "conflict", req |-> y.req, seen |-> 0, upd |-> NewManifest,
                   reply |-> NoReply]
  <2>1. IsCall(x) /\ x.phase # "saving" /\ x.req = y.req /\ ~x.reply.ok
    BY <1>1, IdleFacts DEF IsCall
  <2>2. worker' = [worker EXCEPT ![w] = x]
    BY <1>3 DEF SaveLostAck, Conflict
  <2> HIDE DEF x
  <2> QED
    BY <1>1, <2>1, <2>2, LandFacts
<1> QED
  BY <1>2, <1>3

\* A write that came too late changes nothing.
LEMMA SaveConflictStep == \A w \in Workers : VInv /\ SaveConflict(w) => Keeps
<1> SUFFICES ASSUME VInv, NEW w \in Workers, SaveConflict(w) PROVE Keeps
  OBVIOUS
<1> DEFINE x == [phase |-> "conflict", req |-> worker[w].req, seen |-> 0, upd |-> NewManifest,
                 reply |-> NoReply]
<1>1. IsCall(x) /\ x.phase # "saving" /\ ~x.reply.ok
  BY IdleFacts DEF VInv, GoodCall, IsCall
<1>2. worker' = [worker EXCEPT ![w] = x] /\ UNCHANGED <<manifest, generation>>
  BY DEF SaveConflict, Conflict
<1> HIDE DEF x
<1> QED
  BY <1>1, <1>2, SilentKeeps

\* A request that ends without a result may have written.
LEMMA FailStep == \A w \in Workers : VInv /\ Fail(w) => Keeps
<1> SUFFICES ASSUME VInv, NEW w \in Workers, Fail(w) PROVE Keeps
  OBVIOUS
<1> DEFINE x == Idle(worker[w].req, NoReply)
<1>1. IsCall(x) /\ x.phase # "saving" /\ ~x.reply.ok /\ x.req = worker[w].req
  BY IdleFacts DEF VInv, GoodCall, IsCall, Idle
<1>2. /\ worker' = [worker EXCEPT ![w] = x]
      /\ UNCHANGED <<manifest, generation>> \/ (Saving(w) /\ Land(w))
  BY DEF Fail, Answered
<1> HIDE DEF x
<1> QED
  BY <1>1, <1>2, SilentKeeps, LandFacts

\* After a conflict a confirmation may find its own receipt.
LEMMA ReapplyConfirmStep == \A w \in Workers : VInv /\ ReapplyConfirm(w) => Keeps
<1> SUFFICES ASSUME VInv, NEW w \in Workers, ReapplyConfirm(w) PROVE Keeps
  OBVIOUS
<1> DEFINE req == worker[w].req
<1>1. req \in Request /\ req.op = "confirm"
  BY DEF ReapplyConfirm, VInv, GoodCall, IsCall
<1>2. /\ req.q \in QuestionIds /\ req.tok \in Nat /\ req.cand \in Nat /\ req.aver \in Nat
      /\ req = [op |-> "confirm", q |-> req.q, tok |-> req.tok, cand |-> req.cand,
                aver |-> req.aver]
  BY <1>1 DEF Request
<1>3. PICK t \in Times :
        \E r \in ReplayReceipts(manifest, req.q, req.tok, req.cand, req.aver, t) :
          Answered(w, req, [ok |-> TRUE, version |-> r.version, answer |-> r.answer])
  BY DEF ReapplyConfirm
<1>4. UNCHANGED <<manifest, generation>>
  BY DEF ReapplyConfirm
<1> HIDE DEF req
<1> QED
  BY <1>2, <1>3, <1>4, ReplayKeeps

\* The end of analysis leaves every reply as true as it was.
LEMMA EndAnalysisStep == VInv /\ EndAnalysis => Keeps
<1> SUFFICES ASSUME VInv, EndAnalysis PROVE Keeps
  OBVIOUS
<1>1. /\ IsManifest(manifest') /\ manifest'.version = manifest.version
      /\ manifest'.receipts = manifest.receipts
  BY EndEffect DEF EndAnalysis, VInv
<1>2. generation' = generation + 1 /\ generation \in Nat /\ UNCHANGED worker
  BY DEF EndAnalysis, VInv
<1>3. GoodReceipts(manifest')
  BY <1>1 DEF VInv, GoodReceipts
<1>4. ASSUME NEW w \in Workers PROVE GoodCall(manifest', generation', worker[w])
  <2>1. GoodCall(manifest, generation, worker[w])
    BY DEF VInv
  <2>2. worker[w].phase = "saving" => worker[w].seen < generation'
    BY <1>2, <2>1 DEF GoodCall, IsCall
  <2>3. GoodReply(manifest', worker[w])
    BY <1>1, <2>1 DEF GoodCall, GoodReply
  <2> QED
    BY <1>2, <2>1, <2>2, <2>3 DEF GoodCall, IsCall
<1> QED
  BY <1>1, <1>2, <1>3, <1>4 DEF VInv, Keeps

\* Every step keeps the invariant, and what is on record.
LEMMA StepKeeps == VInv /\ [Next]_vars => Keeps
<1>1. VInv /\ UNCHANGED vars => Keeps
  BY DEF vars, VInv, Keeps
<1> QED
  BY <1>1, EndAnalysisStep, MutateQuestionSetupStep, CreateCandidateStep, RequestRephraseStep,
     CreateReviewStep, ConfirmAnswerStep, ReviseAnswerStep, SaveStep, SaveConflictStep, FailStep,
     ReapplyConfirmStep DEF Next

-----------------------------------------------------------------------------
(* What the clients can rely on.                                           *)

\* The invariant of the replies holds in every state.
THEOREM RepliesAreGood == Spec => []VInv
<1>1. VInv /\ [Next]_vars => VInv'
  BY StepKeeps DEF Keeps
<1> QED
  BY InitVInv, <1>1, PTL DEF Spec

\* The manifest and the requests are well formed.
THEOREM ServiceTypes == Spec => []TypeOK
<1>1. VInv => TypeOK
  <2>1. VInv => DOMAIN worker = Workers
    BY DEF VInv
  <2> QED
    BY <2>1 DEF VInv, TypeOK, GoodCall, IsCall
<1> QED
  BY <1>1, RepliesAreGood, PTL

\* A confirmation a client was told about is on record for good.
THEOREM ToldConfirmationsAreKept == Spec => []ConfirmationsDurable
<1>1. VInv => ConfirmationsDurable
  BY DEF VInv, GoodCall, GoodReply, ReceiptOf, ConfirmationsDurable
<1> QED
  BY <1>1, RepliesAreGood, PTL

\* No two accepted changes made the same version: the conditional write lets one of
\* two requests with the same snapshot land, and the version moves when it does.
THEOREM NoUpdateIsLost == Spec => []NoLostUpdate
<1>1. VInv => NoLostUpdate
  BY DEF VInv, Apart, NoLostUpdate
<1> QED
  BY <1>1, RepliesAreGood, PTL

\* An accepted change was computed from the version its client had seen.
THEOREM AcceptedAsSeen == Spec => []AcceptedAgainstSeenVersion
<1>1. VInv => AcceptedAgainstSeenVersion
  BY DEF VInv, GoodCall, GoodReply, Gain, AcceptedAgainstSeenVersion
<1> QED
  BY <1>1, RepliesAreGood, PTL

\* The record of confirmations only grows in the store too, and with it the version.
THEOREM StoredReceiptsArePermanent == Spec => Atomic!ReceiptsPermanent
<1>1. VInv /\ [Next]_vars =>
        [/\ manifest.receipts \subseteq manifest'.receipts
         /\ \A r \in manifest'.receipts \ manifest.receipts :
              r.version = manifest'.version /\ r.version > manifest.version]_manifest
  BY StepKeeps DEF Keeps
<1> QED
  BY <1>1, RepliesAreGood, PTL DEF Spec, Atomic!ReceiptsPermanent
=============================================================================
