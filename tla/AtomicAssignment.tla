-------------------------- MODULE AtomicAssignment --------------------------
(***************************************************************************)
(* What the assignment service promises: one manifest, and every request   *)
(* an operation of AnswerWorkflow applied to it in one step, at some time  *)
(* t of the service's clock.  AssignmentService, where requests interleave *)
(* over a conditional-write store, is shown to implement this.             *)
(***************************************************************************)
EXTENDS AnswerWorkflow, FiniteSets

VARIABLE manifest

Init == manifest = NewManifest

-----------------------------------------------------------------------------
(* One action per request.                                                 *)

EndAnalysis ==
  /\ manifest.status = "ANALYZING"
  /\ \/ manifest' = FinishAnalysis(manifest)
     \/ manifest' = FailAnalysis(manifest)

AcceptSetup ==
  \E t \in Times : /\ CanAcceptQuestionSetup(manifest, t)
                   /\ manifest' = AcceptQuestionSetup(manifest)

\* _load_ir fails before analysis has finished, so set-up changes need READY.
ChangeSetup ==
  \E t \in Times :
    /\ manifest.status = "READY"
    /\ \/ \E S \in SUBSET QuestionIds :
            /\ IsCorrection(manifest, S)
            /\ CanReplaceQuestionSetup(manifest, S, t)
            /\ manifest' = ReplaceQuestionSetup(manifest, S)
       \/ /\ CanResetQuestionSetup(manifest, t)
          /\ manifest' = ResetQuestionSetup(manifest)

CreateCandidate ==
  \E t \in Times, q \in DOMAIN manifest.questions, text \in Texts, origin \in Origins :
    \E prior \in 0 .. manifest.questions[q].seq + 1 :
      /\ CanReplaceCandidate(manifest, q, text, origin, prior, t)
      /\ manifest' = ReplaceCandidate(manifest, q, text, origin)

RequestRephrase ==
  \E t \in Times, q \in DOMAIN manifest.questions, text \in Texts :
    /\ CanRecordRephrase(manifest, q, manifest.questions[q].current.ver, t)
    /\ manifest' = RecordRephrase(manifest, q, text)

CreateReview ==
  \E t \in Times, q \in DOMAIN manifest.questions :
    /\ CanIssueReview(manifest, q, manifest.questions[q].current.ver, t)
    /\ manifest' = IssueReview(manifest, q, t)

ConfirmAnswer ==
  \E t \in Times, q \in DOMAIN manifest.questions :
    \E tok \in DOMAIN manifest.questions[q].tokens :
      /\ CanConfirmCandidate(manifest, q, tok, manifest.questions[q].current.ver,
                             manifest.version, t)
      /\ manifest' = ConfirmCandidate(manifest, q, tok)

ReviseAnswer ==
  \E t \in Times, q \in DOMAIN manifest.questions :
    /\ CanBeginRevision(manifest, q, t)
    /\ manifest' = BeginRevision(manifest, q)

Next ==
  \/ EndAnalysis \/ AcceptSetup \/ ChangeSetup \/ CreateCandidate
  \/ RequestRephrase \/ CreateReview \/ ConfirmAnswer \/ ReviseAnswer

Spec == Init /\ [][Next]_manifest

-----------------------------------------------------------------------------
TypeOK == IsManifest(manifest)

\* The conditions every load re-validates (AssignmentManifest.validate_manifest
\* and QuestionState.validate_question): a stored manifest that broke one of
\* them could never be read again, and every later request would answer 404.
Loadable ==
  /\ QuestionSetupIsLocked(manifest) => manifest.verified
  /\ \A q \in DOMAIN manifest.questions :
       manifest.questions[q].current.ver <= manifest.questions[q].seq
  /\ \A r, s \in manifest.receipts : (r.q = s.q /\ r.tok = s.tok) => r = s

\* A review token that was not invalidated speaks of the wording that is on the
\* page now: replacing or clearing a candidate leaves no live token behind.
LiveTokenIsCurrent ==
  \A q \in DOMAIN manifest.questions :
    LET s == manifest.questions[q] IN
      \A i \in DOMAIN s.tokens : ~s.tokens[i].invalidated =>
        s.tokens[i].cand = s.current.ver /\ s.tokens[i].text = s.current.text

\* A review authorises one confirmation: a token is consumed exactly when a
\* receipt can answer its replay, so "already used" is never the reply to a
\* student who only repeats a confirmation.
ConsumedOnce ==
  \A q \in DOMAIN manifest.questions :
    \A i \in DOMAIN manifest.questions[q].tokens :
      manifest.questions[q].tokens[i].consumed <=> ReceiptsOf(manifest, q, i) # {}

\* Every confirmation on record is of the exact wording its review showed, for
\* a question that still exists, at the version that review was issued for.
ConfirmedAsReviewed ==
  \A r \in manifest.receipts :
    /\ r.q \in DOMAIN manifest.questions
    /\ r.tok \in DOMAIN manifest.questions[r.q].tokens
    /\ LET k == manifest.questions[r.q].tokens[r.tok]
       IN  r.answer.text = k.text /\ r.answer.cand = k.cand /\ r.aver = k.aver

\* The answer an export would print is the last confirmation on record, and
\* the revisions of a question are 1, 2, ... with no gap and no repetition.
RevisionsComplete ==
  \A q \in QuestionIds :
    LET mine == {r \in manifest.receipts : r.q = q}
        last == IF q \in DOMAIN manifest.questions
                THEN manifest.questions[q].confirmed ELSE NoAnswer
    IN  /\ {r.answer.rev : r \in mine} = 1..last.rev
        /\ \A r, s \in mine : r.answer.rev = s.answer.rev => r = s
        /\ \A r \in mine : r.answer.rev = last.rev => r.answer = last

\* Wording attributed to Claros is wording the server itself suggested and
\* checked, for the candidate it replaced (record_rephrase, _validate_origin).
SuggestedWordingIsRecorded ==
  \A q \in DOMAIN manifest.questions :
    LET s == manifest.questions[q]
        Suggested(v, x) == \E r \in s.rephrases : /\ r.suggestion = v
                                                  /\ r.text = x
                                                  /\ r.original < v
    IN  /\ s.current.origin = "claros_rephrase" => Suggested(s.current.ver, s.current.text)
        /\ s.confirmed.origin = "claros_rephrase" => Suggested(s.confirmed.cand, s.confirmed.text)

\* An open revision was started from the answer that is still the confirmed
\* one: what the student edits is what an export would print meanwhile.
RevisionOfLatest ==
  \A q \in DOMAIN manifest.questions :
    LET s == manifest.questions[q] IN
      s.revision # NoRevision =>
        /\ HasAnswer(s)
        /\ s.revision = [prior |-> s.confirmed.rev, seed |-> s.confirmed.text]

\* What the public version stands for.
PublicState(m) ==
  [verified |-> m.verified,
   answers |-> [q \in DOMAIN m.questions |->
                  [m.questions[q] EXCEPT !.tokens = <<>>]]]

\* The version a client holds names the answer state it saw: nothing of it
\* changes under an unchanged version, once analysis has ended.
VersionNamesAnswers ==
  [][manifest.status # "ANALYZING" /\ manifest'.version = manifest.version
       => PublicState(manifest') = PublicState(manifest)]_manifest

\* Confirmed work is never lost: a confirmed answer stays until a later
\* revision of the same question is confirmed in its place.
ConfirmedNeverLost ==
  [][\A q \in ConfirmedQuestions(manifest) :
       /\ q \in ConfirmedQuestions(manifest')
       /\ LET old == manifest.questions[q].confirmed
              new == manifest'.questions[q].confirmed
          IN  new = old \/ new.rev = old.rev + 1]_manifest

\* The record of confirmations only grows, and with it the version.
ReceiptsPermanent ==
  [][/\ manifest.receipts \subseteq manifest'.receipts
     /\ \A r \in manifest'.receipts \ manifest.receipts :
          r.version = manifest'.version /\ r.version > manifest.version]_manifest
=============================================================================
