# A TLA+ model of Claros

Claros takes a student's PDF worksheet, finds its questions, helps the student
to answer them by typing or by voice, and produces a PDF with the answers. Its
promise is about authorship: every answer that leaves the system is wording the
student reviewed and confirmed, exactly as reviewed. Its service keeps no
database. All durable state of an assignment is one JSON *manifest* and a few
immutable objects in a bucket, and requests of any number of tabs and server
instances change the manifest with conditional writes. The student works
in a page that sends these requests one at a time while typing, speech, the
browser's history and polls go on. This directory models the service and the
page, checks them with TLC and proves the central results with TLAPS.

Contents: [1 Inventory](#1-inventory) · [2 Plan](#2-plan) ·
[3 Modules](#3-modules-and-the-code) · [4 Runs](#4-runs) ·
[5 Fairness](#5-fairness) · [6 Proofs](#6-proofs) ·
[7 Findings](#7-findings) · [8 Abstractions and what is left out](#8-abstractions-and-what-is-left-out)

All paths are relative to the repository (`backend/...`, `src/v2/...`).

## 1 Inventory

### Components of the service (Python, `backend/`)

| component | state it keeps | operations | must be true of it |
|---|---|---|---|
| Answer workflow: `domain/workflow.py`, `domain/models.py` | none of its own; pure functions on an immutable `AssignmentManifest`: version, status, questions (candidate, rephrases, review tokens, confirmed answer, open revision), confirmation receipts, export records | accept / replace / reset question set-up, replace candidate, record rephrase, issue review, confirm, begin revision, start / complete / fail export | a confirmation is of the wording its review showed; a review authorises one confirmation; confirmed work is never lost; the manifest always passes its own validation |
| Assignment service: `service.py` | nothing between requests | one coroutine per request: load, compute, conditional write; recovery after conflicts | requests have the effect of atomic operations; what a client was told is on record |
| Analysis: `service.py` `create_assignment`, `get_assignment` | the manifest's status, source and physical-IR objects | store, analyse, attach, fail; recover a stale analysis from a status request | analysis ends once, ends at last, and a READY worksheet can be opened |
| Export: `service.py` `create_export` | export records (the CREATING lease), pdf and export manifest | lease, publish, complete, record failure, clean up | one export per version; COMPLETE means stored, and is final |
| Durable storage: `storage/manifests.py`, `storage/gcs.py` | objects with generations | create-if-absent, compare-and-swap, conditional delete | a write lands on the generation it was computed from, or not at all |
| Local storage, ranges, retention: `storage/local.py`, `ranges.py`, `cleanup.py` | files; nothing | same interface; range requests; removal of expired assignments | removes only what has expired |
| Placement and rendering: `document/geometry.py`, `renderer.py`, `exporter.py` | none | place each answer in its region or in the appendix; render; verify hashes | the placement reviewed is the placement exported, or a forced appendix |
| Document understanding: `document/physical_ir.py`, `preflight.py` | none | PDF to blocks and candidate questions | pure |
| Document workers: `document_execution.py`, `openpdf/` | a subprocess and a directory per job | start, wait, kill, reap, remove | no orphan, one result per job |
| Semantic mapping: `semantic/` | none | provider calls and validation of their answers | stateless |
| Voice projection: `realtime/lifecycle.py` | captions, drafts, candidates, reconnects of a voice session | one pure function per event | captions bounded, stale candidates not revived |
| Realtime credentials: `realtime/credentials.py` | none | issue a short-lived credential | stateless |
| Rate limiter: `rate_limit.py` | event times per key | check | a limit is a limit, also when keys are evicted |
| Guards and HTTP: `security.py`, `web.py`, `api/` | none | cookies, headers, error mapping | stateless |

### Components of the page (TypeScript, `src/v2/`)

| component | state it keeps | operations | must be true of it |
|---|---|---|---|
| Workspace: `domain/workspaceMachine.ts`, `WorkspaceShell.tsx` | the statechart: question, candidate, review, version, context epoch, drafts; refs for the mutation in flight, the persisted candidate and the export's idempotency key; the route and its poll | student actions, and answers of the service that arrive later | a late answer never overwrites a newer state; what is confirmed is what is on screen |
| Intake and set-up: `features/intake`, `features/question-setup`, `components/AssignmentUploadPanel.tsx` | upload and analysis under way; the panel's selection, preview, page and one `pending` flag | upload, follow, preview, add / replace / remove / reorder / reset, accept | what is accepted is what was shown; no wording is saved unseen |
| Voice adapter: `realtime/openai-realtime-adapter.ts` | connection, pending tool calls, reconnect; the student's finished turns | connect, tool call, resolve, time out, supersede, reconnect; find a proposed wording among the turns | one answer per tool call; no live microphone behind a paused indicator; wording passed off as spoken was spoken |
| Worksheet preview: `document/DocumentCrop.tsx` and the source pane | the picture fetched and its caption | fetch, render, retry | a completed copy has the answers the page shows |
| Panels: `features/answer-paths`, `features/completion`, `document/WorksheetDialog.tsx` | none; zoom and paging | rendering | -- |

### The first version (`server/index.mjs`, `src/domain`, `src/ui`)

Still served under `/legacy`: a server with assignments and placement plans in
memory, a statechart, and a page with an independent flag for each kind of
request. It shares no code with version 2.

### How they interact

A student's action in the workspace becomes a request that names the public
version the page last saw. The service loads the manifest and its *generation*,
checks the version, applies one workflow operation and saves on condition that
the generation has not moved; a conflict is reported to the page, except for
confirmations, exports and recorded failures, which look again. The public
version moves with every change of the answers, the generation with every
write: issuing a review moves only the second. Analysis and export are long
requests with a time budget, of which a reserve is kept for recording a
failure; their record in the manifest is how other requests see them. The voice
session changes nothing durable by itself: its tool calls go through the page
and the same requests.

### What is hard

* Interleaving: any two requests between load and save, on any instances.
* Unreliable storage: the storage client retries a conditional write whose
  acknowledgement was lost, and meets the generation it has made itself.
* Partial failure and crashes between the several objects of an analysis or an
  export, and the clean-up of what a failed request had stored.
* Time: review tokens, assignments, leases and budgets expire; a lease is taken
  over while its holder may still be running.
* Long legal sequences: confirm, revise, rephrase, confirm again.
* Late answers in the page, and the voice session's time-outs.

`PROJECT.json` lists each hazard at its line, with the properties that cover it.

## 2 Plan

The order was by what the promise to the student depends on.

| module | models | state |
|---|---|---|
| `AnswerWorkflow`, `AtomicAssignment` | the workflow, and the service as atomic operations: the abstract specification | checked; invariants and action properties proved |
| `AssignmentService` | the same requests interleaved over the conditional-write store; refines `AtomicAssignment` | checked; the refinement and its safety proved |
| `ExportPipeline` | export requests: lease, publication, failure, clean-up | checked, its safety proved |
| `AnalysisState`, `AnalysisLifecycle` | an analysis and what is promised of it; its steps and its recovery | checked, its safety proved |
| `WorkspaceMachine`, `WorkspacePage` | the page's statechart as operators; the shell with one mutation in flight, routes, polls, reloads and lost replies, against the operations of `AnswerWorkflow` | checked, its safety proved |
| `QuestionSetupPage` | intake and question set-up, several calls of the panel under way | checked, its safety proved |
| `ToolCalls`, `VoiceSession` | what the voice model is promised; the adapter and the shell's binding of it, which implement it | checked, its safety proved |
| `CandidateEvidence` | what the page tells the server about how a wording came about: turns, proposals, the evidence kept | checked |
| `WorksheetPreview` | the source pane beside `WorkspacePage` | checked, proved |
| `PrototypeWorkspace` | the first version: server, statechart and page | checked, its safety proved |

Compositions: `AssignmentService` extends `AnswerWorkflow` and instantiates
`AtomicAssignment`, which it implements; `WorkspacePage` extends
`WorkspaceMachine` and instantiates `AnswerWorkflow` as its server;
`WorksheetPreview` extends `WorkspacePage` with the pane that reads it;
`VoiceSession` instantiates `ToolCalls` under a refinement mapping;
`ExportPipeline` and `AnalysisLifecycle` stand beside `AssignmentService` and
see it as "some request wrote the manifest". The page is not composed with the
interleaved service: `AssignmentService` is proved to behave as the atomic
operations the page's server is made of.

What an earlier plan named and is not modelled (rate limiter, document workers,
voice projection, placement) is in section 8 with the reasons.

Every safety property of a passing run has its theorem, except those of
`CandidateEvidence`; what only TLC checks is at the end of section 6. No module declares a RECURSIVE operator.

## 3 Modules and the code

`PROJECT.json` maps each definition to its lines. In outline:

**`AnswerWorkflow`** (`domain/workflow.py`, `domain/models.py`, and the ends of
analysis in `service.py`). One record for the manifest and one for each
question's state. A function `op(manifest, ...)` of the code becomes a guard
`CanOp(m, ..., t)`, which is the conjunction of the errors the function may
raise, and the manifest `Op(m, ...)` it returns. `ReplayReceipts` is the other
way out of `confirm_candidate`: the receipt that answers a repeated request. A
review token is found by its digest; here by its position in the question's
append-only sequence.

**`AtomicAssignment`** is the abstract specification: one variable, one action
per request, each applying an operation of `AnswerWorkflow` in one step. The
page's version always being current here, `assignment_version` plays no role.

**`AssignmentService`** is the detailed one. A worker is a request in progress:
idle, *saving* an updated snapshot whose generation it has seen, or in
*conflict*. `Land` is the conditional write of `ManifestRepository.save` over
`gcs.compare_and_swap`. `SaveAcknowledged`, `SaveLostAck`, `SaveConflict` and
`Fail` are its outcomes, crashes included. `ReapplyConfirm` is the second try
of `confirm_answer`, which looks for a receipt after a conflict. Loading and
computing are one step, since nothing the request reads afterwards can change
its snapshot. For a rephrase the language model answers between the two, which
delays the save and nothing else.

**`ExportPipeline`** follows one request through `start` (compute the lease and
write it), `pdf` and `manifest` (`_create_or_verify`), `complete`
(`_complete_published_export`), `fail` (`_record_export_failure`) and `cleanup`.
`fresh` replaces the generation of its snapshot; `elapsed` is the time used of
the request's budget, and `age` that of a lease. `Proceed` is the check of the
working budget before each step, `Failing` the entry into the recovery reserve.

**`AnalysisLifecycle`**, on the state and towards the promises of
`AnalysisState`, follows the creating request through `source`,
`manifest`, `analyze`, `ir`, `attach`, with the deletions `unsource` and
`unattach` on failure, and `mark`, the recording of a failure, which status
requests enter too when they find a stale analysis.

**`WorkspaceMachine`** (`domain/workspaceMachine.ts`). One record for the
statechart's context, with the active state in `at`, and one operator for each
event: an event the state has no transition for leaves the record as it is. The
fixtures' states are left out.

**`WorkspacePage`** (`WorkspaceShell.tsx`, `api/client.ts`, and what the panels
offer). An operation of the shell is three actions: the student's (`AskReview`),
which reads the page and sets `op`, the request and what the code captured
before its first `await`; the server's (`Serve`), which applies an operation of
`AnswerWorkflow` and sends the reply or loses it; and the page's (`TakeReview`),
which does what follows the `await`, with the captured values where the code
uses them and the present ones where it reads again. Chains such as persisting
a candidate and then asking for its review are one `op` with several requests.
Between these, anything may happen that the panels, the voice agent or the
browser's history allow. `RunEffects` and `EnterRoute` are the effects, `poll`
what the route effect awaits. `Reload` makes a new page and may leave a
request behind (`ServeOrphan`).

**`QuestionSetupPage`** (`QuestionSetupWorkspace.tsx`, `startAnalysis`, and the
set-up operations of the service). `calls` are the panel's calls under way,
each with what the student saw when it was made; a question is its id and its
set of blocks. `broken` is a panel that threw while rendering.

**`VoiceSession`** (`realtime/openai-realtime-adapter.ts`, and the shell's
`ensureRealtimeAdapter`, effects and tool handlers). Each run of `openSession`
is an entry of `opens`, since nothing keeps two runs from overlapping. `told`
is whether the adapter knows the page's present question, version and epoch.
**`ToolCalls`** is its abstract specification, with the mapping at the end of
`VoiceSession`.

**`CandidateEvidence`** (the candidate tool of `openai-realtime-adapter.ts`,
`realtimeCandidateEvidenceRef`, `candidateRequestForCurrentState` and
`persistCurrentCandidate`). `adapter.turns` are `trustedTurns`, `TrustedSource`
is `findTrustedSource` with the comparison that leaves punctuation out,
`evidence` what the page keeps of it, and `asking` the request. A text is a
sequence of words, in which `Stop` stands for punctuation and `Prefix` for "my
answer is", since a proposal is accepted if it differs from the turns in these
alone. `said` is history. How sessions overlap is in `VoiceSession`, so that
here there is one `openSession` at a time.

**`WorksheetPreview`** adds one variable, `crop`, to `WorkspacePage`: each step
of the page is joined with a render of the pane (`Render`), and the pane has
steps of its own. The server's answer to `get_page_context` is `GetPageContext`.

**`PrototypeWorkspace`** composes the server's handlers (`Serve...`), the
statechart's events (operators on `page`) and the page's handlers; `calls` has
one request of each kind, `loads` the uploads, which may overlap since only the
buttons of the upload are disabled meanwhile. `asked` and `approved` are
history: what Review was pressed on, and what the review panel showed, question
and wording, when Confirm was pressed.

**`MC*`** modules give the constants of TLC's instances and bound behaviours.
`*_proofs` modules hold the theorems. Definitions that a comment introduces as a
*mutant of* another are wrong on purpose: substituted for the right one, they
must make the property that `PROJECT.json` names fail, which shows that the
property can see that mistake. Nothing else uses them.

## 4 Runs

| run | module, configuration | question | result |
|---|---|---|---|
| `atomic_assignment` | `MCAtomicAssignment`, `MCAtomicAssignment.cfg` | Do reviews, confirmations and the version mean what they should after every order of operations on two questions, and through a long history of one? | holds |
| `assignment_service` | `MCAssignmentService` | Do two interleaved requests, with lost acknowledgements and crashes, behave as atomic ones, and keep what they told their clients? | holds |
| `export_two_requests` | `MCExportPipeline`, `MCExportPipeline.cfg` | Does the lease exclude, and is COMPLETE final, with two requests, take-overs and crashes? | holds |
| `export_alone` | `MCExportPipeline`, `MCExportAlone.cfg` | With one request at a time, is a complete export stored, and can every version be exported at last? | holds |
| `export_race` | `MCExportPipeline`, `MCExportRace.cfg` | Is a complete export stored when two requests overlap? | violated, see 7 |
| `analysis` | `MCAnalysisLifecycle`, `MCAnalysisLifecycle.cfg` | Does analysis end, once, with the answer every reload finds? | holds |
| `workspace_page` | `MCWorkspacePage` | Whatever is typed, spoken, left, reloaded or lost while a request is under way: is only approved wording confirmed, does the page claim nothing the server lacks, and does it keep the student's words? | holds |
| `question_setup` | `MCQuestionSetupPage` | With several calls of the panel under way: is the list accepted the list shown, was every saved wording seen, and does the worksheet check end? | holds |
| `voice_session` | `MCVoiceSession` | With overlapping sessions, reconnects and a page that moves on: does a paused indicator mean a muted session, and does each tool call get its one truthful answer? | holds |
| `worksheet_preview` | `MCWorksheetPreview` | Does a completed copy beside the page hold the answers the page shows, although its address names neither version nor export? | holds |
| `prototype` | `MCPrototypeWorkspace`, `MCPrototypeWorkspace.cfg` | Is every answer the first version stores, shows and exports wording that was sent to review from its question and confirmed when shown, with uploads that overlap, plans, commits and exports under way together and a server that may forget? | holds |
| `candidate_evidence` | `MCCandidateEvidence`, `MCCandidateEvidence.cfg` | Is wording that is sent as spoken the wording of the spoken turns that go with it, through edits, moves, reconnects and revisions? | holds |

Seven more configurations are kept beside the runs. TLC finds each of them
violated, and the counterexample is a behaviour that section 7 describes:

| configuration | module | property it refutes |
|---|---|---|
| `MCAnalysisLossy.cfg` | `MCAnalysisLifecycle` | `ReadyIsUsable`: a READY worksheet can be opened, also when storage loses acknowledgements |
| `MCPrototypeApproval.cfg` | `MCPrototypeWorkspace` | `CompleteAsApproved`: "Every answer was explicitly approved", as the answer to its question |
| `MCWorkspaceHeading.cfg` | `MCWorkspacePage` | `ReviewUnderItsQuestion`: an exact review stands under the question it is of |
| `MCWorkspaceRestore.cfg` | `MCWorkspacePage` | `ReloadRestoresQuestion`: a reload comes back to the active or the next incomplete question |
| `MCVoiceFailure.cfg` | `MCVoiceSession` | `SilentWhenFailed`: nothing is heard when the page says that voice is disconnected |
| `MCEvidenceSession.cfg` | `MCCandidateEvidence` | `TurnsOfNamedSession`: the session named with spoken wording is that of its turns |
| `MCEvidenceVerbatim.cfg` | `MCCandidateEvidence` | `VerbatimIsVerbatim`: wording known to differ in punctuation is not sent as the very words |

What the properties say is written above each of them in its module. In short:

* `Loadable`: no sequence of requests produces a manifest that its own
  validation refuses on the next load, which would lose the assignment.
* `LiveTokenIsCurrent`, `ConfirmedAsReviewed`, `ConsumedOnce`: a review token
  that still lives is about the wording on the page; every receipt has the
  wording, candidate and version of its review; a token is consumed exactly
  when a receipt answers its repetition.
* `ConfirmedNeverLost`, `VersionNamesAnswers`, `RevisionsComplete`,
  `RevisionOfLatest`, `SuggestedWordingIsRecorded`: what one step may never do
  to confirmed work, and how its parts agree. (`ReceiptsPermanent`, that receipts
  are only added to, is proved and is part of `ImplementsAtomic`'s specification;
  it has no run of its own.)
* `ImplementsAtomic`, `NoLostUpdate`, `AcceptedAgainstSeenVersion`,
  `ConfirmationsDurable`: the service is linearizable with respect to
  `AtomicAssignment`, and its answers are truthful.
* `LeaseIsExclusive`, `CompleteIsFinal`, `CompleteIsStored`, `ExportCompletes`.
* `EndIsFinal`, `AnswerIsTruthful`, `ConflictMeansEnd`,
  `ReadyIsUsableIfAcknowledged`, `AnalysisEnds`.
* `ExactTextConfirmed`, `PageNeverAhead`: what the server holds was approved in
  exact review with a token of that question, whatever question heads the review
  on the screen; what the page claims the server holds.
  `ReviewShowsLatestWording`, `TypedWordsKept`: answers that come back late.
* `AcceptedIsShown`, `SavedWasSeen`, `CheckingEnds`: the set-up panel.
* `SilentWhenPaused`, `AnswersTools` (a refinement): voice. The first is about the
  adapter's own session, with two exceptions that its definition names: a session
  that a later opening left behind unclosed, and an adapter whose update of the
  instructions failed unnoticed (`deaf`). Both are in section 7.
* `SpokenIsAttested`: what is sent as spoken was said, at that question.
* `CopyHoldsAddedAnswers`: the completed preview.
* `StoredAsReviewed`: what the first version stores, lays over the worksheet and
  exports was sent to review from its own question and confirmed when the panel
  showed it. That the panel showed it as the answer to that question is more, and
  false (`CompleteAsApproved`).

### Bounds, and why they are enough

* `atomic_assignment`: two questions (operations on one question must not touch
  the other), two texts (a review of one wording, a confirmation of another), a
  public version up to 5: accept, write, confirm, revise or rewrite once more.
  Two tokens per question: one to withdraw and one to keep.
  While only the first question is worked on, the version goes up to 7, which
  reaches accept, write, confirm, revise, write, confirm and one more: a second
  revision and beyond.
* Times are `0 .. ExpiresAt` with `ReviewTTL = 1`, `ExpiresAt = 2`: a request
  before, at and after the expiry of a token, and of the assignment. Each
  request reads any time, so clocks need not agree or advance.
* `assignment_service`: two workers, since the conflict of a request is with one
  other write; one question, one text, a version up to 4, one token and a
  generation up to 7: set-up, candidate, review, confirmation by two tabs, and
  the revision of the result, with reviews and lost acknowledgements between.
  The refinement proof covers any number of workers.
* Exports: two workers, one version, `WorkTimeout = 1`, `RequestTimeout = 2`: a
  request may be in its working time, in its reserve, or out of time. Two
  versions in `export_alone`, so that answers may move on under an export.
  `Attempts` is 3 (2 in `export_alone`) instead of 4: enough for a first try, a
  retry and giving up. Five generations of each object exceed what the object,
  the record and the requests can name at one time.
* Analysis: two status requests beside the creating one; nothing else is bounded.
* `workspace_page`: two questions and two texts (symmetric), so that an answer
  may arrive at another question or after other words; an assignment version up
  to 5, at which a new operation is no longer begun (one begun earlier may pass
  it); `MaxEdits = 2` revisions of each draft, one move to another question, one
  trip through the browser (back, forward or reload), one token for each
  question, one export. A reload leaves a confirmation behind, the only request
  whose effect the properties are about. The version and the moves are what
  bounds the histories: two moves or version 6 multiply the states by about ten
  without a new kind of step. Two tokens for each question (2.2 million states),
  and one question with three tokens and a version up to 6 (1.5 million), were
  checked once and hold too; no bound applies to what section 6 proves.
* `worksheet_preview`: one question and one text, since the pane tells versions
  apart and not wordings, but a version up to 6 and two tokens: confirmed,
  exported, revised and confirmed again while the copy is fetched.
* `question_setup`: three blocks on two pages, two detected questions, two calls
  of the panel in all: the hazards are between two calls. Three calls that
  overlap are covered by the proofs. One status request of the analysis that
  finds it unfinished.
* `voice_session`: three runs of `openSession` (one, its reconnect and a retry),
  two versions and two visits of questions (the adapter is bound to the present
  ones, or not), two tool calls (one supersedes the other). Where the third
  session is opened, at most one call has been made (`Bounded`).
* `prototype`: two questions, two texts of which one cannot be printed, two
  plans, one for each question or two for one, and two uploads, which may overlap.
  `MCPrototypeApproval.cfg` has a third plan and one upload.
* `candidate_evidence`: two questions (symmetric), two turns of the student, each of
  one word with a prefix or with punctuation, wordings of one word or of both, two
  sessions and a version up to 3: a proposal, its request and a revision. Two turns
  are enough to mix a spoken one with a typed one, and those of two questions or of
  two sessions.

Deadlock is not checked where behaviours really stop: an analysis may fail, an
assignment expires, the student may leave the page, and the bounds cut histories
off.
`SYMMETRY` is used for the workers of the two safety runs of the export, whose
formulas do not tell workers apart.

## 5 Fairness

Only `ExportCompletes`, `AnalysisEnds`, `CheckingEnds` and the last conjunct of
`AnswersTools` are about progress.

* The clock runs (`WF_vars(Tick)`).
* A request in progress does not stop without a reason (`WF_vars(Request(w))`):
  coroutines and threads of a living process are scheduled, and every storage
  call returns or times out. It may still crash, at any step.
* A student who keeps asking is not cut off for ever: a step that is possible
  again and again is taken at last (`SF` on the steps that advance an export,
  and on a status request's recording of a stale analysis). Weak fairness is not
  enough, because a crash or an error disables the step each time; the code
  retries within a request only four times, and the rest is the client's
  repetition. Nothing is assumed of the request that holds a lease: it may die,
  and the lease is then taken over when it is stale.

* On the page, what the code awaits settles and timers fire: `question_setup`
  assumes that the request which creates the assignment, the status requests
  of a page that polls and the load of the set-up return, with an error if with
  nothing else (`WF`); `voice_session` that the fifteen-second timer of a tool
  call fires and that the session's update of instructions ends. Neither
  assumes anything of the student or of the speech service.

`AnalysisEnds` assumes nothing of the creating request at all. `ExportCompletes`
is checked with one request at a time: that a version is never stuck does not
depend on a second one, and strong fairness over two workers' state graph takes
TLC beyond a reasonable time.

## 6 Proofs

TLC shows the properties on small instances. The following hold for every set of
questions, texts, versions and requests and for all lifetimes and time-outs,
under the assumptions that the modules declare and TLC evaluates in each run:

* `ConstantsAssumption` (`AnswerWorkflow`): detected questions are questions, the
  absent text is no text, a review lives at least one tick. `ServiceAssumption`
  adds that there is a question.
* `ExportAssumption`: versions and times are numbers, and a request's working
  time ends before its time-out, which leaves the recovery reserve.
  `GenerationsSuffice`: requests are finitely many, and there are more
  generations than the storage, the records and the requests can name at one
  time, as there always are in a bucket that never uses a number again.
* `AnalysisAssumption`: the creating request is none of the status requests, and
  again the reserve.
* `SetupAssumption` (`QuestionSetupPage`): the analysis finds questions with ids
  of their own and at least one block each, which is what the manifest's
  validation admits; every block is on a page, and there is at least one page.
* `IdAssumption` (`WorkspaceMachine`): question ids are positive numbers, 0 being
  "no question". `PageAssumption` (`WorkspacePage`): the request a reload leaves
  behind is one of the operations on an answer, a worksheet has finitely many
  questions, and the bound on versions is a number.
* `VoiceAssumption` (`VoiceSession`): tool calls are numbered, `NoCall` is none of
  them, and there is at least one version and one visit.
* `PrototypeAssumption` of the first version, in the same way.

| theorem | module | statement |
|---|---|---|
| `Invariance` | `AtomicAssignment_proofs` | `Spec => []IInv` |
| `TypeCorrect` | `AtomicAssignment_proofs` | `Spec => []TypeOK` |
| `AlwaysLoadable` | `AtomicAssignment_proofs` | `Spec => []Loadable` |
| `ReviewsAreHonoured` | `AtomicAssignment_proofs` | live tokens are current, consumed once, and confirmations are as reviewed, always |
| `HistoryIsGood` | `AtomicAssignment_proofs` | revisions are 1, 2, ... without a gap; wording attributed to Claros is a recorded suggestion; an open revision is of the latest answer |
| `NoReceiptLost` | `AtomicAssignment_proofs` | `Spec => ReceiptsPermanent` |
| `NoConfirmedAnswerLost` | `AtomicAssignment_proofs` | `Spec => ConfirmedNeverLost` |
| `VersionIsHonest` | `AtomicAssignment_proofs` | `Spec => VersionNamesAnswers` |
| `EveryAnswerReviewed` | `PrototypeWorkspace_proofs` | `Spec => []StoredAsReviewed` |
| `ServiceImplementsAtomic` | `AssignmentService_proofs` | `Spec => Atomic!Spec` |
| `Invariance`, `RepliesAreGood`, `LateAnswers` | the other `_proofs` modules | the inductive invariants described below |
| `ServiceTypes` | `AssignmentService_proofs` | `Spec => []TypeOK` |
| `ToldConfirmationsAreKept` | `AssignmentService_proofs` | `Spec => []ConfirmationsDurable`: a confirmation a client was told of is on record |
| `NoUpdateIsLost` | `AssignmentService_proofs` | `Spec => []NoLostUpdate`: two requests told of the same version are repetitions of one confirmation |
| `AcceptedAsSeen` | `AssignmentService_proofs` | `Spec => []AcceptedAgainstSeenVersion` |
| `StoredReceiptsArePermanent` | `AssignmentService_proofs` | `Spec => Atomic!ReceiptsPermanent`, on the stored manifest |
| `ExportTypes` | `ExportPipeline_proofs` | `Spec => []TypeOK` |
| `ExportsAreFinal` | `ExportPipeline_proofs` | `Spec => CompleteIsFinal` |
| `LeaseHolds` | `ExportPipeline_proofs` | `Spec => []LeaseIsExclusive`, for any number of requests |
| `PublishedIsStored` | `ExportPipeline_proofs` | `Alone => (Spec => []CompleteIsStored)`: where requests do not overlap, a complete export is in storage |
| `AnEndIsFinal` | `QuestionSetupPage_proofs` | `Analysis!Spec => EndIsFinal` |
| `AnswersAreTruthful` | `QuestionSetupPage_proofs` | `Analysis!Spec => []AnswerIsTruthful` |
| `NoSecondRound` | `QuestionSetupPage_proofs` | `Analysis!Spec => []ConflictMeansEnd` |
| `ReadyCanBeOpened` | `QuestionSetupPage_proofs` | `Analysis!Spec => []ReadyIsUsableIfAcknowledged` |
| `AnalysisAdvances` | `QuestionSetupPage_proofs` | the status of an analysis goes from NONE to ANALYZING and from there to an end |
| `SetupTypes` | `QuestionSetupPage_proofs` | `Spec => []TypeOK` |
| `NothingSavedUnseen` | `QuestionSetupPage_proofs` | `Spec => []SavedWasSeen` |
| `AcceptedAsShown` | `QuestionSetupPage_proofs` | `Spec => AcceptedIsShown` |
| `OnlyApprovedTextIsConfirmed` | `WorkspacePage_proofs` | `Spec => []ExactTextConfirmed` |
| `PageIsNeverAhead` | `WorkspacePage_proofs` | `Spec => []PageNeverAhead` |
| `WordsAreKept` | `WorkspacePage_proofs` | `Spec => TypedWordsKept` |
| `ReviewsAreTimely` | `WorkspacePage_proofs` | `Spec => ReviewShowsLatestWording` |
| `PageIsTyped` | `WorkspacePage_proofs` | `Spec => []TypeOK` |
| `CopiesHoldAddedAnswers` | `WorkspacePage_proofs` | `PreviewSpec => []CopyHoldsAddedAnswers` |
| `PausedIsSilent` | `VoiceSession_proofs` | `Spec => []SilentWhenPaused` |
| `VoiceTypes` | `VoiceSession_proofs` | `Spec => []TypeOK` |
| `ToolsAsPromised` | `VoiceSession_proofs` | every step is one of `ToolCalls` under the mapping, or leaves all calls as they are: the safety part of `AnswersTools` |

**The invariant.** `ConfirmedAsReviewed` is not inductive: a confirmation copies
the *candidate*, and only `LiveTokenIsCurrent` makes that the text of its
token. Whether a token has a receipt already, so that a second one would
contradict `Loadable`, needs `ConsumedOnce`; that a set-up change removes no
token or receipt needs that an unlocked set-up has none, which follows from
`QuestionSetupIsLocked` and `ConfirmedAsReviewed` together; and that answers
exist only after the set-up was accepted needs that a manifest has no questions
before its analysis is over (`EmptyUntilReady`). So
`IInv` is `TypeOK`, `EmptyUntilReady`, `Loadable`, `LiveTokenIsCurrent`,
`ConsumedOnce` and `ConfirmedAsReviewed`. The proof has one lemma for each
operation of `AnswerWorkflow` that writes a question, one step for each action,
and one for each conjunct the action can disturb. Typing of the operations is
in `AnswerWorkflow_proofs`, which the proof of the service shares.

**The history of answers.** `HInv` is `RevisionsComplete` together with one
predicate for each question, `GoodHistory`. It is inductive relative to `IInv`:
that the next revision number is free follows from the typing of questions and
the count in `RevisionsComplete`; that a confirmation of rephrased wording finds
its record follows from the candidate, which is the one the token was issued
for. `WritingFacts` and `ConfirmFacts` say once what the two kinds of request do
to a question; the history and the three action properties
(`NoAnswerLost` is the step they share) follow from these and never expand an
operation again.

**The first version.** `StoredAsReviewed` is about answers on the server, on the page
and in the file. The invariant says the same of answers wherever they are, in
replies under way too (`OnlyReviewed`). What Review was pressed on comes back in a
plan (`PlansWereAsked`), the panel shows that plan's wording, and a commit carries the
token of the plan on the page, which must stand for what the page shows
(`TokensAreTrue`). This holds while the server has the assignment, and `LoadedOnce`
says that a server that forgot it never gets it back, so that a token of before
the restart is refused. The question comes from the press of Review alone: nothing ties
it to the question that heads the panel when the plan is there, and no invariant
could, since `CompleteAsApproved` is false.

**The refinement.** The mapping is the identity on `manifest`. The stored
manifest changes only in `Land` and `EndAnalysis`. The invariant needed
(`SInv`) says what a request carries while it is saving: if the generation has
not moved since its snapshot, the manifest it is about to store is the *outcome*
of one atomic action on the manifest that is stored now. Generations only grow
and a worker has never seen one that does not exist yet, so that a moved
generation never comes back. Every other step stutters.

**What the service tells.** The refinement says what is stored; the invariant
`VInv` adds what the clients know. A request carries a *good update* while its
snapshot is current: the manifest it would store has all the receipts and the
next version, or the same one if it issues a review (`Gain`). A reply is good:
its version has been reached, a confirmation's receipt is stored, and no
receipt has the version of any other reply. Both survive the steps of others,
because receipts and versions only grow and receipts are numbered by their
versions (`GoodReceipts`). `NoLostUpdate` relates two requests (`Apart`). It is
preserved since a new reply names the version just made, which no earlier one
can name; the only request answered from the record is a repeated confirmation,
and its receipt determines the request.

**The export.** A record that is COMPLETE is left alone because a request holds a
current snapshot of a record only while it is open (`SnapshotsAreOpen`). The
lease excludes because of time: as long as a request is within its time-out and
its snapshot is current, the record's age *is* the time the request has used
(`LeaseIsAsOld`), so that nobody else can find that lease stale; `OneLease`,
the inductive form of `LeaseIsExclusive`, includes the request that is late and
records its failure. Both hold while the storage acknowledges its writes, as
the property itself says (`lossy`). `CompleteIsStored` needs that requests do
not overlap, and is proved from that (`Alone`): then the objects a request has
come by are those in storage, and clean-up is never of a complete export
(`OwnObjects`). `export_race` shows that without `Alone` it is false.

**Analysis.** A request's snapshot of the record is current exactly while the
analysis is not over (`SnapshotsAreCurrent`); a conflict therefore means an end,
and nobody can change an end. `KnowsItsObjects` says what the creating request
knows to be stored in each phase, as long as its writes are acknowledged;
`MCAnalysisLossy.cfg` shows the behaviour without that.

The set-up page takes the whole analysis for one step; the two halves of the
intake share the module `QuestionSetupPage_proofs`, where `Analysis` is the
instance of `AnalysisLifecycle` on the state of `AnalysisState`. That it may do
so is `AnalysisAdvances`.

**The set-up.** Two things could separate what is saved from what was seen: a
correction that is handled between the student's look and the acceptance, and a
selection that changes between preview and saving. Against the first the code
has the version. `SetupInv` therefore says that a version names one list of
questions: whatever was read under the version the assignment has now is what
it has now (`WasRead`), which holds of the page's copy, of every answer on its
way and of what each request carries (`GoodCall`). An acceptance is carried out
only under the present version, so that what the student was looking at is what
is accepted; corrections that overtake it make it fail. Against the second the
panel drops the preview whenever the selection changes: one it still holds was
shown (`PreviewShown`), and so was the wording in a request. That a correction
adds nothing else needs the operations on lists (`Makes`): each makes, of a
list of questions, a list of questions, whose members are old ones, detected
ones or the one it saves. Before the set-up is entered nothing is asked of it
and afterwards the analysis is over (`GoodPage`, `GoodJob`), so that the server's
list has only one source of change.

**The page.** What is confirmed on the server started as a review token, came to
the page in a reply, was shown, and was approved by a press that put the token
into an effect, a request and possibly an orphan of a reload. `PInv` follows it
along that path: in the reply (`GoodOp`), on the page (`GoodPage`), in what a
reload reads (`GoodPoll`) and left behind. It survives the steps of others
because of what no operation of the server undoes (`Later`): tokens keep their
wording, receipts and the version only grow. The operations are those of
`AnswerWorkflow`, for which one lemma each says so.

Late answers need a second invariant, `LInv`, about the order of events: what an
operation read before its `await` is a lower bound for what the page has now,
and *as long as* nothing relevant happened since, the page still shows it
(`Timely`, `Fitting`); a candidate keeps its number and wording for ever
(`Numbered`, `Known`). The events of the statechart, of which there are some
thirty, fall into three kinds here, and the invariant is proved for each kind once: those
that leave the words alone or put them away (`Quiet`), those that go to another
question (`Moved`), and typing (`Wrote`). `PInv` and `LInv` were checked
with TLC on the instance of the run before they were proved; TLC's
counterexample to a first form of `LInv` is the late selection of section 7.

`TypeOK` of the page says more than types: each version the server reaches, and
each a request names, is one of `Versions`, although the page is only stopped at
`MaxVersion` when it *begins* something. `PInv` does not give that, and a third
invariant, `TInv`, counts. What the page has already caused but the server has
not done is owed: two changes for a mutation that stores first, one for any
other (`Owed`), one for a request a reload left behind (`Left`), one for a
confirmation whose button is pressed while its effect has not sent it yet
(`Pressed`). Version and debts together stay within `MaxVersion + 3` (`Within`),
since only a step that finds room takes on a new debt, and every step of the
server pays the one it makes. The rest of `TInv` follows the shapes of what is
stored, asked and answered from request to page (`TypedServer`, `TypedOp`,
`TypedPage`, `TypedPoll`), and needs one fact about the worksheet: that `Order`
enumerates the questions, for which a set of numbers has to be finite. The events
are grouped once more, by what they put on the page (`Shaped`). `TInv` was
checked with TLC on the instance of the run first.

**Voice.** `SilentWhenPaused` compares the indicator with a session, and the code
keeps the two together only through a third, the adapter's belief about its
input. `Believes` and `Hears` are the two halves: an input that is not muted
means an active indicator (or an adapter whose failure was not noticed), and a
session that hears means an input that is not muted. Only live sessions hear
(`GoodOpens`), so that closing one needs no more. For the tools, `GoodTools` says
that "Accepted" is on its way only for what the page did, and that at most one
navigation waits. Each action is then shown to move every call as
`Follows` of `ToolCalls` allows (`Advance`), and since the calls of `ToolCalls`
are independent, that is a step of it.

**The picture.** `PreviewSpec` implements the page's specification, which gives
`PInv` and `LInv`. To them come `ExportsReached`, that the page, its routes and
its poll only name exports of versions the server has reached, and `CopyIsGood`:
the picture's address is that of the page as it is, and a completed copy is at
least as new as the result on the page and as any export the poll may still
report, and holds the answers on the page. The address changes with the page or
the kind of copy only, and then the picture is fetched anew; as long as it stays
that of a completed copy, the page has been at `exportComplete` before and after
the step, where no answer changes and the result can only become the one polled
(`Steady`).

**Only model-checked.** Liveness (`ExportCompletes`, `AnalysisEnds`,
`CheckingEnds`, the progress of `AnswersTools`), since the prover has neither
fairness nor ENABLED, and `SpokenIsAttested`, which rests on what `SelectSeq` and
`FlattenSeq` make of several turns, recursive definitions of the libraries. All other
properties of the passing runs are proved.

What `OnlyApprovedTextIsConfirmed` says of the page is that each confirmed answer has a
token, of its own question and wording, that the student approved. The heading of the
review panel is another matter, as in the first version: `MCWorkspaceHeading.cfg`
shows a review under another question's heading.

## 7 Findings

The following were met while modelling. The first is the run `export_race`; for the
others, the configuration that shows them is named where there is one.

1. *A complete export without its objects* (`export_race`,
   `backend/service.py:1974`). Request A stores the pdf, fails, and records
   FAILED. Before A deletes what it had stored, request B starts the failed
   export again; `_create_or_verify` finds A's object with the right digest
   and takes it as its own. A deletes it, its generation being unchanged, and B
   records COMPLETE. From then on `start_export` answers with the COMPLETE
   record, and every download fails. The specification
   (`openspec/changes/claros-reconstruction/specs/safe-export/spec.md:81`)
   requires that repeated creation returns "the same export identity and
   immutable bytes". `export_alone` shows that the clean-up is safe when
   requests do not overlap.
2. *A READY worksheet without its analysis* (`MCAnalysisLossy.cfg`,
   `backend/service.py:1587`). If the write that attaches the analysis lands
   but its acknowledgement is lost, the retry reports a conflict;
   `_finish_analysis` deletes the physical IR, and `_mark_analysis_failed`
   leaves the READY manifest alone. Every later request answers
   `stale_physical_ir`, where the specification
   (`.../specs/assignment-lifecycle/spec.md:62`) says that a later instance
   "reconstructs the same current state from durable objects and manifests".
   `ReadyIsUsableIfAcknowledged` in `analysis` shows that lost acknowledgements
   are the only way there.

### Met on the page

Each of the following is a behaviour of the modules (the step is there), and the
properties are stated so that they say what holds beside it. They are places to
look at in the code. Wording that was in no review panel gets into no answer, which
`ExactTextConfirmed` and `StoredAsReviewed` show; that the panel named the
question is what some of them break.

* *An answer shown under another question.* Choosing a wording in the comparison
  opens a review when the server answers, without looking again at the active
  question (`WorkspaceShell.tsx:1640-1728`); after a voice navigation, its
  confirmation is stored on the page under the question active by then
  (`workspaceMachine.ts:867-899`), until a reload. Hence the last sentence above
  `PageNeverAhead`, and `ReviewShowsLatestWording` is about reviews asked for
  from writing. `MCWorkspaceHeading.cfg` shows such a review.
* *A late review of a selection.* "Keep my wording" in a comparison asks for a
  review; while it is under way the student returns to writing and types other
  words. The `REVIEW_READY` of the selection (`WorkspaceShell.tsx:1640-1728`,
  accepted in every state, `workspaceMachine.ts:831`) compares no revision and
  replaces the page's candidate by the wording of before; the draft keeps the new
  words. A further review, asked for by voice, is then of the old wording. It is
  the student who confirms, and sees, what is confirmed; but
  `ReviewShowsLatestWording` speaks for this reason of the wording the page has
  as its candidate and not of the latest draft.
* *Late or lost answers.* `REPHRASE_READY` outside `rephrasing` leaves the page's
  version behind; the late `CANDIDATE_PERSISTED` of a chosen suggestion
  overwrites newer typing (`TypedWordsKept` is about the other two operations);
  "Keep my wording" after a failed "Use suggestion" is refused for good.
* *Stuck exports.* `CREATE_EXPORT` and `RETRY_EXPORT` reach the statechart before
  the check that no mutation is under way (`WorkspaceShell.tsx:1841`), so that
  the page stays in `exporting`; a poll makes the saved idempotency key stale.
* *Reload* (`MCWorkspaceRestore.cfg`). Two reads make one page (`getAssignment`,
  `getQuestionSetup`), and accepting the set-up moves the page back to the first
  question after the restored one was chosen (`workspaceMachine.ts:583`). The
  specification (`.../specs/student-workspace/spec.md:150-152`) says that a reload
  restores the active or next incomplete question.
* *The set-up panel.* A block toggled after a page was turned with a selection
  throws while rendering (`QuestionSetupWorkspace.tsx:364-377`; `broken`); a late
  preview is put beside a changed selection (379-424); one `pending` flag is
  cleared by the first of two calls; a lost reply leaves the panel's version
  behind.
* *Voice.* Two overlapping runs of `openSession` (the automatic reconnect and
  "Retry voice"): the second takes the place of the first's live session
  without closing it, and that microphone stays open
  (`openai-realtime-adapter.ts:530`; `SilentWhenPaused` is about the adapter's
  own session). A failed update of the instructions shows "Voice disconnected" with
  the microphone live (`WorkspaceShell.tsx:1121-1133`; `deaf`; `MCVoiceFailure.cfg`). A late
  `speech_started` after "Stop listening" turns capture on again. Tool calls of
  an adapter made for an older version are answered by the time-out only, and
  its retry is refused by the server. After a failed "Hear exact wording",
  "Retry voice" opens nothing.
* *The completed preview.* Its heading says "Completed copy preview" and "Source page
  preserved · confirmed answer shown" whenever an export is shown, also when the server, which has moved on, sent
  the original; and it may show a newer copy than the one offered for download
  (`backend/service.py:592`). `CopyHoldsAddedAnswers` is what does hold.
* *Evidence of wording.* The session named with spoken wording is that of the
  adapter's newest credential, while its turns may be of the session before a
  reconnect (`openai-realtime-adapter.ts:714`, `MCEvidenceSession.cfg`;
  `.../specs/voice-guidance/spec.md:112`). Wording the model proposes from a typed
  turn with other punctuation is sent as `student_verbatim`
  (`WorkspaceShell.tsx:1280`, `MCEvidenceVerbatim.cfg`;
  `.../specs/answer-integrity/spec.md:25`).
* *The first version.* Review pressed during a commit makes a plan for one
  question that is shown under the next: the panel's heading is the current question
  (`src/ui/Workspace.tsx:240`), its wording the plan's, and confirming it stores the
  wording over the answer of the question before. "Every answer was explicitly
  approved" (`Workspace.tsx:276`) is then said of an answer that was approved as
  that to another question (`MCPrototypeApproval.cfg`). Besides, the failure of a
  plan ends a commit on the page that the server carries out; what is dictated
  late lands in another question's draft; after a restart of the server the page
  can only be loaded anew.

## 8 Abstractions and what is left out

* **Identifiers** drawn at random are replaced by the number that already names
  the object: a candidate by `candidate_version`, a confirmation by `revision`,
  a token by its position. Collisions of random identifiers are not modelled.
* **Hashes** are the text they are of, and digests of requests the fields they
  cover. Signatures and owner cookies are taken as checked.
* **Origins**: `student_verbatim` stands for the three origins that refer to
  nothing stored.
* **Question definitions**: a correction is the set of questions it leaves, at
  most one more, fewer or replaced; labels, prompts, order and regions are left
  out. A replaced question keeps its identity, as in the code.
* **Public version** versus **generation**: both are kept, except where a
  snapshot's freshness is all that is used of the generation (`fresh`).
* **Clocks**: in `AssignmentService` each request reads any time. In
  `ExportPipeline` and `AnalysisLifecycle` instances agree on the time, so a
  lease broken by clock skew is not seen.
* **Rendering** is deterministic, so the bytes of a version are not told apart.
* **Loads** that fail end the request and change nothing, and are not steps;
  read-only requests (`get_export`, `read_export`, `read_source`) are left out.
* **Semantic mapping** is not bounded by the request's budget in the code: in
  `AnalysisLifecycle` the analysis may last as long as it likes, and is refused
  afterwards.
* **The page's server** in `WorkspacePage` is atomic, reads one clock value and
  has an export pipeline of three statuses; a refusal, an outage and a lost
  reply are one outcome, as the shell's `catch` blocks do not tell them apart.
* **Epochs and events' ids**: the page's context epoch is kept in
  `WorkspacePage`; in `VoiceSession` only whether the adapter has the present
  one. Event ids, which start again with each adapter, are left out, so that an
  event of one adapter taken for one of another is not seen.
* **`CandidateEvidence`**: a text is a sequence of words, of punctuation and of the
  prefix "my answer is"; case and spacing are left out. Sessions do not overlap
  (that is in `VoiceSession`), only the conversation path is there, and the server
  takes a request or fails (what it does is in `WorkspacePage`).
* **Requests and replies** of the page are mapped to the handlers of
  `backend/service.py`; only the shape of what is exchanged (`CandidateExchange`,
  `PreviewExchange` and the like), of which `TypeOK` consists, is mapped to the
  generated types of the API.
* **Captions, layout, focus, animations** decide nothing and are left out, as are
  the storybook and the fixtures. Of the transcripts only the student's finished turns
  count, in `CandidateEvidence`.

### Not modelled

* *Document understanding, rendering and placement* (`document/`): pure
  computation on one file. The placement at review, at confirmation and at
  export is one function of the same inputs; with the geometry abstract the
  three are equal by construction, and without it the model would be the engine.
* *Document workers* (`document_execution.py`, `openpdf/`, `workers/`): that a
  killed process is gone is the operating system's promise, which a model could
  only assume. Their outcomes are those of `analyze` and `pdf`.
* *Rate limiter*: `check` runs under one lock and nothing interleaves; what it
  refuses is, to the page, one more failed request.
* *Voice projection* (`realtime/lifecycle.py`): a pure reducer no service
  operation calls. *Credentials* keep no state; their one refusal that matters
  to the page is `IssueClientSecret`.
* *Semantic mapping* (`semantic/`): calls of a language model and the validation
  of its answer; the outcomes are in `RecordRephrase` and `analyze`.
* *Local storage, ranges, retention*: the development adapter has the interface
  of the one modelled; the sweep removes only assignments every operation
  refuses already.
* *The HTTP layer, cookies and headers, configuration, telemetry, deployment and
  scripts*: no state a step could leave inconsistent.
* *`WorksheetDialog`*: zoom, paging and selection over one document.

To repeat a run: `tlc -config MCVoiceSession.cfg MCVoiceSession`. To check the
proofs: `tlapm AssignmentService_proofs.tla`, and likewise the other `*_proofs` modules.
