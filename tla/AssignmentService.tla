------------------------- MODULE AssignmentService --------------------------
(***************************************************************************)
(* The answer requests of backend/service.py over the manifest object of   *)
(* one assignment.  A request loads the manifest and its generation,       *)
(* computes an operation of AnswerWorkflow on that snapshot and writes the *)
(* result back on condition that the generation did not move.  Requests of *)
(* several tabs and server instances interleave; a write can land and its  *)
(* acknowledgement be lost (the storage client then retries it, meets its  *)
(* own new generation and reports a conflict) and a request can die at any *)
(* point.  The public version travels in the request (`aver`): it is what  *)
(* the client last saw.                                                    *)
(*                                                                         *)
(* A snapshot never changes while a request holds it, so loading it and    *)
(* computing on it are one step.  Clocks of server instances are not       *)
(* assumed to agree: every computation reads some time.                    *)
(***************************************************************************)
EXTENDS AnswerWorkflow, FiniteSets

CONSTANT Workers      \* requests in progress at once

\* There is a question a request could be about.
ASSUME ServiceAssumption == QuestionIds # {}

VARIABLES
  manifest,    \* the stored manifest
  generation,  \* the generation of the stored object
  worker       \* the request each worker is on, or the last one it answered

vars == <<manifest, generation, worker>>

Ops == {"none", "setup", "candidate", "rephrase", "review", "confirm", "revise"}

\* `version` and `answer` are what the response tells the client.
Reply   == [ok : BOOLEAN, version : Nat, answer : Answer]
NoReply == [ok |-> FALSE, version |-> 0, answer |-> NoAnswer]

NoRequest == [op |-> "none", q |-> CHOOSE q \in QuestionIds : TRUE,
              tok |-> 0, cand |-> 0, aver |-> 0]

Idle(req, reply) == [phase |-> "idle", req |-> req, seen |-> 0,
                     upd |-> NewManifest, reply |-> reply]

Init ==
  /\ manifest = NewManifest
  /\ generation = 1
  /\ worker = [w \in Workers |-> Idle(NoRequest, NoReply)]

-----------------------------------------------------------------------------
(* Loading the manifest and computing the operation.                       *)

Free(w) == worker[w].phase = "idle"

\* The version a client names: one it can have been told.
Versions == 1 .. manifest.version

Pending(w, op, q, tok, cand, aver, upd) ==
  /\ worker' = [worker EXCEPT ![w] =
       [phase |-> "saving", seen |-> generation, upd |-> upd, reply |-> NoReply,
        req |-> [op |-> op, q |-> q, tok |-> tok, cand |-> cand, aver |-> aver]]]
  /\ UNCHANGED <<manifest, generation>>

Answered(w, req, reply) == worker' = [worker EXCEPT ![w] = Idle(req, reply)]

MutateQuestionSetup(w) ==
  \E aver \in Versions, t \in Times :
    /\ Free(w)
    /\ manifest.status = "READY"
    /\ RequireCurrentVersion(manifest, aver)
    /\ \/ /\ CanAcceptQuestionSetup(manifest, t)
          /\ Pending(w, "setup", NoRequest.q, 0, 0, aver, AcceptQuestionSetup(manifest))
       \/ \E S \in SUBSET QuestionIds :
            /\ IsCorrection(manifest, S)
            /\ CanReplaceQuestionSetup(manifest, S, t)
            /\ Pending(w, "setup", NoRequest.q, 0, 0, aver, ReplaceQuestionSetup(manifest, S))
       \/ /\ CanResetQuestionSetup(manifest, t)
          /\ Pending(w, "setup", NoRequest.q, 0, 0, aver, ResetQuestionSetup(manifest))

CreateCandidate(w) ==
  \E aver \in Versions, t \in Times, q \in DOMAIN manifest.questions,
     text \in Texts, origin \in Origins :
    \E prior \in 0 .. manifest.questions[q].seq + 1 :
      /\ Free(w)
      /\ RequireCurrentVersion(manifest, aver)
      /\ CanReplaceCandidate(manifest, q, text, origin, prior, t)
      /\ Pending(w, "candidate", q, 0, 0, aver, ReplaceCandidate(manifest, q, text, origin))

\* The suggestion comes from the language model, between load and save.
RequestRephrase(w) ==
  \E aver \in Versions, t \in Times, q \in DOMAIN manifest.questions, text \in Texts :
    \E cand \in 1 .. manifest.questions[q].seq :
      /\ Free(w)
      /\ RequireCurrentVersion(manifest, aver)
      /\ CanRecordRephrase(manifest, q, cand, t)
      /\ Pending(w, "rephrase", q, 0, cand, aver, RecordRephrase(manifest, q, text))

CreateReview(w) ==
  \E aver \in Versions, t \in Times, q \in DOMAIN manifest.questions :
    \E cand \in 1 .. manifest.questions[q].seq :
      /\ Free(w)
      /\ RequireCurrentVersion(manifest, aver)
      /\ CanIssueReview(manifest, q, cand, t)
      /\ Pending(w, "review", q, 0, cand, aver, IssueReview(manifest, q, t))

\* A confirmation, of a token some review was issued with.  The same request
\* may come again, from a client that did not see its first answer.
ConfirmAnswer(w) ==
  \E aver \in Versions, t \in Times, q \in DOMAIN manifest.questions :
    \E tok \in DOMAIN manifest.questions[q].tokens, cand \in 1 .. manifest.questions[q].seq :
      /\ Free(w)
      /\ \/ /\ CanConfirmCandidate(manifest, q, tok, cand, aver, t)
            /\ Pending(w, "confirm", q, tok, cand, aver, ConfirmCandidate(manifest, q, tok))
         \/ \E r \in ReplayReceipts(manifest, q, tok, cand, aver, t) :
              /\ Answered(w, [op |-> "confirm", q |-> q, tok |-> tok, cand |-> cand, aver |-> aver],
                          [ok |-> TRUE, version |-> r.version, answer |-> r.answer])
              /\ UNCHANGED <<manifest, generation>>

ReviseAnswer(w) ==
  \E aver \in Versions, t \in Times, q \in DOMAIN manifest.questions :
    /\ Free(w)
    /\ RequireCurrentVersion(manifest, aver)
    /\ CanBeginRevision(manifest, q, t)
    /\ Pending(w, "revise", q, 0, 0, aver, BeginRevision(manifest, q))

-----------------------------------------------------------------------------
(* The conditional write and what the request makes of its outcome.        *)

\* Mutant of GenerationMatches: the write goes over a newer manifest.
GenerationNotNewer(w) == worker[w].seen <= generation

GenerationMatches(w) == worker[w].seen = generation

Land(w) ==
  /\ GenerationMatches(w)
  /\ manifest' = worker[w].upd
  /\ generation' = generation + 1

\* The response of a saved operation.
Result(w) ==
  LET x == worker[w] IN
    [ok |-> TRUE, version |-> x.upd.version,
     answer |-> IF x.req.op = "confirm" THEN x.upd.questions[x.req.q].confirmed
                                        ELSE NoAnswer]

Saving(w) == worker[w].phase = "saving"

SaveAcknowledged(w) ==
  /\ Saving(w)
  /\ Land(w)
  /\ Answered(w, worker[w].req, Result(w))

Conflict(w) ==
  worker' = [worker EXCEPT ![w] = [phase |-> "conflict", req |-> worker[w].req, seen |-> 0,
                                   upd |-> NewManifest, reply |-> NoReply]]

\* The write landed, its acknowledgement was lost, and the retry of the
\* storage client found the generation it had itself made.
SaveLostAck(w) == Saving(w) /\ Land(w) /\ Conflict(w)

SaveConflict(w) ==
  /\ Saving(w)
  /\ ~GenerationMatches(w)
  /\ Conflict(w)
  /\ UNCHANGED <<manifest, generation>>

\* The request ends without a result: refused by a check, failed by storage or
\* the model provider, cut off by a crash; its write may have landed.
Fail(w) ==
  /\ worker[w].phase # "idle"
  /\ Answered(w, worker[w].req, NoReply)
  /\ \/ UNCHANGED <<manifest, generation>>
     \/ Saving(w) /\ Land(w)

\* confirm_answer alone looks again after a conflict: it may have been its own
\* write, or another tab's with the same request.
ReapplyConfirm(w) ==
  LET req == worker[w].req IN
    /\ worker[w].phase = "conflict"
    /\ req.op = "confirm"
    /\ \E t \in Times :
         \E r \in ReplayReceipts(manifest, req.q, req.tok, req.cand, req.aver, t) :
           Answered(w, req, [ok |-> TRUE, version |-> r.version, answer |-> r.answer])
    /\ UNCHANGED <<manifest, generation>>

-----------------------------------------------------------------------------
\* The end of the creating request's analysis (see AnalysisLifecycle).
EndAnalysis ==
  /\ manifest.status = "ANALYZING"
  /\ manifest' \in {FinishAnalysis(manifest), FailAnalysis(manifest)}
  /\ generation' = generation + 1
  /\ UNCHANGED worker

Next ==
  \/ EndAnalysis
  \/ \E w \in Workers :
       \/ MutateQuestionSetup(w) \/ CreateCandidate(w) \/ RequestRephrase(w)
       \/ CreateReview(w) \/ ConfirmAnswer(w) \/ ReviseAnswer(w)
       \/ SaveAcknowledged(w) \/ SaveLostAck(w) \/ SaveConflict(w)
       \/ Fail(w) \/ ReapplyConfirm(w)

Spec == Init /\ [][Next]_vars

-----------------------------------------------------------------------------
Request == [op : Ops, q : QuestionIds, tok : Nat, cand : Nat, aver : Nat]

TypeOK ==
  /\ IsManifest(manifest)
  /\ generation \in Nat
  /\ DOMAIN worker = Workers
  /\ \A w \in Workers :
       /\ worker[w] = [phase |-> worker[w].phase, req |-> worker[w].req,
                       seen |-> worker[w].seen, upd |-> worker[w].upd,
                       reply |-> worker[w].reply]
       /\ worker[w].phase \in {"idle", "saving", "conflict"}
       /\ worker[w].req \in Request
       /\ worker[w].seen \in Nat
       /\ IsManifest(worker[w].upd)
       /\ worker[w].reply \in Reply

\* A confirmation a client was told about is on record, whatever happened to
\* the first attempt: original and replayed answers, and those given after a
\* conflict, all report the one receipt of that request.
ConfirmationsDurable ==
  \A w \in Workers :
    worker[w].reply.ok /\ worker[w].req.op = "confirm" =>
      LET req == worker[w].req IN
        [q |-> req.q, tok |-> req.tok, cand |-> req.cand, aver |-> req.aver,
         version |-> worker[w].reply.version, answer |-> worker[w].reply.answer]
           \in manifest.receipts

\* No lost update: two requests that were both told they changed the
\* assignment never made the same version, unless they were the same
\* confirmation answered twice.
NoLostUpdate ==
  \A v, w \in Workers :
    LET x == worker[v]
        y == worker[w]
    IN  v # w /\ x.reply.ok /\ y.reply.ok /\ "review" \notin {x.req.op, y.req.op}
          => x.reply.version # y.reply.version \/ (x.req = y.req /\ x.req.op = "confirm")

\* An accepted change follows directly on the version its client had seen, so
\* no client changes answers it was never shown.
AcceptedAgainstSeenVersion ==
  \A w \in Workers :
    worker[w].reply.ok =>
      worker[w].reply.version =
        worker[w].req.aver + (IF worker[w].req.op = "review" THEN 0 ELSE 1)

\* Interleaved requests with lost acknowledgements and crashes do to the
\* stored manifest exactly what atomic operations, one after the other, do.
Atomic == INSTANCE AtomicAssignment
ImplementsAtomic == Atomic!Spec
=============================================================================
