--------------------------- MODULE CandidateEvidence ---------------------------
(***************************************************************************)
(* What the page tells the server about how an answer's wording came       *)
(* about: OpenAIRealtimeAdapter keeps the student's finished turns         *)
(* (trustedTurns) and finds, for the wording its model proposes, the turns *)
(* it was said in; WorkspaceShell.tsx keeps what was found                 *)
(* (realtimeCandidateEvidenceRef) until the wording is sent.               *)
(*                                                                         *)
(* A text is a sequence of words, of Stop, which stands for punctuation,   *)
(* and of Prefix, which stands for "my answer is".  The model may propose  *)
(* any wording at any time.  How sessions overlap, and who carries out the *)
(* other tools, is in VoiceSession; what the server does is in             *)
(* WorkspacePage: here it takes a request or fails.                        *)
(***************************************************************************)
EXTENDS Naturals, SequencesExt

CONSTANTS
  Questions, NoQuestion,
  Prefix, Stop,
  Utterances,   \* what a student's turn may be
  Wordings,     \* what the model may propose and the student may write in the answer
  NoText,
  \* Bounds of the instance: turns, sessions with the speech service, versions.
  MaxTurns, MaxSessions, MaxVersion

ASSUME EvidenceAssumption ==
  /\ NoQuestion \notin Questions /\ NoText \notin Wordings
  /\ {MaxTurns, MaxSessions} \subseteq Nat /\ MaxVersion \in Nat \ {0}

VARIABLES
  page,      \* screen, question, version, drafts, revision under way
  adapter,   \* realtimeAdapterRef and its adapter
  evidence,  \* realtimeCandidateEvidenceRef
  asking,    \* persistCurrentCandidate under way
  said,      \* history: every finished turn of the student, and where it was said
  issued     \* number of credentials issued

vars == <<page, adapter, evidence, asking, said, issued>>

-----------------------------------------------------------------------------
(* State.                                                                  *)

\* `saved` is the question whose draft the server is known to have.
FirstPage(first) == [screen |-> "conversation", q |-> first, version |-> 1,
                     draft |-> [q \in Questions |-> NoText],
                     revising |-> NoQuestion, saved |-> NoQuestion]

\* `told` is whether the adapter knows the page's context of now, `opening` the step
\* and `why` the caller of an openSession under way, `awaited` whether it is the
\* adapter persistCurrentCandidate waits for.
NoAdapter == [made |-> FALSE, q |-> NoQuestion, version |-> 0, audio |-> FALSE, told |-> TRUE,
              opening |-> "none", why |-> "none", awaited |-> FALSE,
              session |-> 0, credential |-> 0, turns |-> <<>>]

NoEvidence == [q |-> NoQuestion, text |-> NoText, session |-> 0, turns |-> <<>>,
               input |-> "typed", normalization |-> "none"]

\* `st` goes through "connecting" (to register typed wording) and "server".
NotAsking == [st |-> "idle", q |-> NoQuestion, text |-> NoText, moved |-> FALSE,
              origin |-> "none", kind |-> "none", session |-> 0, turns |-> <<>>]

Bound == adapter.made /\ adapter.q = page.q /\ adapter.version = page.version

Moved(a) == IF a.made THEN [a EXCEPT !.told = FALSE] ELSE a

\* The request under way is of a wording or a question left meanwhile.
Left(s) == IF s.st = "idle" THEN s ELSE [s EXCEPT !.moved = TRUE]

-----------------------------------------------------------------------------
(* The adapter: finished turns and the wording found in them.              *)

\* punctuationComparable
Comparable(text) == SelectSeq(text, LAMBDA w : w # Stop)

\* explicitAnswerText
ExplicitAnswer(text) == IF Len(text) > 1 /\ Head(text) = Prefix THEN Tail(text) ELSE text

TextOf(turns)     == ExplicitAnswer(FlattenSeq([i \in DOMAIN turns |-> said[turns[i]].text]))
Modalities(turns) == {said[t].modality : t \in Range(turns)}
Newest(turns, n)  == SubSeq(turns, Len(turns) - n + 1, Len(turns))

OneModality(turns) == Cardinality(Modalities(turns)) = 1

\* findTrustedSource: the fewest newest turns, four at most, that the wording is in.
Sources(text) ==
  {n \in 1..Min({4, Len(adapter.turns)}) :
     LET turns == Newest(adapter.turns, n)
     IN  OneModality(turns) /\ Comparable(TextOf(turns)) = Comparable(text)}

TrustedSource(text) == Newest(adapter.turns, Min(Sources(text)))

\* A turn is trusted from when it is finished.
Finished(modality, text) ==
  /\ Len(said) < MaxTurns
  /\ said' = Append(said, [modality |-> modality, text |-> text,
                           q |-> page.q, session |-> adapter.session])
  /\ adapter' = [adapter EXCEPT !.turns = Append(@, Len(said) + 1)]

\* conversation.item.input_audio_transcription.completed: only the session of now is
\* listened to, and the page need not take the event for the turn to count.
Speak(text) ==
  /\ adapter.session # 0 /\ adapter.opening = "none" /\ adapter.audio
  /\ Finished("voice", text)
  /\ UNCHANGED <<page, evidence, asking, issued>>

\* ConversationWorkspace: exact review takes the place of the message box and the answer.
WritingOffered == page.screen = "conversation"

\* sendGuidedTurn with an adapter that is there.
TypeTurn(text) ==
  /\ WritingOffered /\ Bound /\ adapter.opening = "none"
  /\ Finished("typed", text)
  /\ UNCHANGED <<page, evidence, asking, issued>>

\* handleCandidate and the page's own record of it.
FoundEvidence(text, turns) ==
  [q |-> page.q, text |-> text, session |-> adapter.credential, turns |-> turns,
   input |-> said[Head(turns)].modality,
   normalization |-> IF text = TextOf(turns) THEN "none" ELSE "punctuation_only"]

\* draft_candidate, carried out: the page keeps the evidence in every state, and the
\* wording as the draft only while the answer is being written.
Propose(text) ==
  /\ adapter.credential # 0 /\ Sources(text) # {}
  /\ Bound /\ adapter.told
  /\ evidence' = FoundEvidence(text, TrustedSource(text))
  /\ IF page.screen = "conversation"
     THEN /\ page' = [page EXCEPT !.draft[page.q] = text, !.saved = NoQuestion]
          /\ asking' = Left(asking)
     ELSE UNCHANGED <<page, asking>>
  /\ UNCHANGED <<adapter, said, issued>>

-----------------------------------------------------------------------------
(* The adapter: its sessions.                                              *)

\* releaseRealtimeAdapter forgets the evidence with the adapter.
Released == adapter' = NoAdapter /\ evidence' = NoEvidence

\* ensureRealtimeAdapter with a key of its own.
NewAdapter(audio, awaited) ==
  [NoAdapter EXCEPT !.made = TRUE, !.q = page.q, !.version = page.version, !.audio = audio,
                    !.opening = "credential", !.why = "connect", !.awaited = awaited]

\* beginVoice, and the effect that keeps capture going.
BeginVoice ==
  /\ ~(Bound /\ adapter.audio)
  /\ adapter' = NewAdapter(TRUE, FALSE) /\ evidence' = NoEvidence
  /\ UNCHANGED <<page, asking, said, issued>>

\* The automatic reconnect, or "Retry voice".
Reopen ==
  /\ adapter.made /\ adapter.opening = "none"
  /\ adapter' = [adapter EXCEPT !.session = 0, !.opening = "credential", !.why = "reopen"]
  /\ UNCHANGED <<page, evidence, asking, said, issued>>

\* The credential is of a new session; one is refused to an adapter made for an
\* earlier version.
CredentialArrives ==
  /\ adapter.opening = "credential" /\ adapter.version = page.version
  /\ issued < MaxSessions /\ issued' = issued + 1
  /\ adapter' = [adapter EXCEPT !.credential = issued + 1, !.session = issued + 1,
                                !.opening = "connecting"]
  /\ UNCHANGED <<page, evidence, asking, said>>

\* A page that moved on meanwhile releases the adapter it asked for.
Connected ==
  /\ adapter.opening = "connecting"
  /\ IF adapter.why = "connect" /\ ~Bound THEN Released
     ELSE adapter' = [adapter EXCEPT !.opening = "none"] /\ UNCHANGED evidence
  /\ UNCHANGED <<page, asking, said, issued>>

OpenFails ==
  /\ adapter.opening # "none"
  /\ IF adapter.why = "connect" THEN Released
     ELSE adapter' = [adapter EXCEPT !.session = 0, !.opening = "none"] /\ UNCHANGED evidence
  /\ UNCHANGED <<page, asking, said, issued>>

\* The effect that tells the adapter the page's context.
UpdateApplicationState ==
  /\ adapter.made /\ ~adapter.told /\ adapter' = [adapter EXCEPT !.told = TRUE]
  /\ UNCHANGED <<page, evidence, asking, said, issued>>

-----------------------------------------------------------------------------
(* The page.                                                               *)

\* The student writes in the answer.
Type(text) ==
  /\ WritingOffered /\ text # page.draft[page.q]
  /\ page' = [page EXCEPT !.draft[page.q] = text, !.saved = NoQuestion]
  /\ adapter' = Moved(adapter) /\ asking' = Left(asking)
  /\ UNCHANGED <<evidence, said, issued>>

\* A question chosen on the page; the effect of the change releases the adapter.
GoToQuestion(q) ==
  /\ q # page.q
  /\ page' = [page EXCEPT !.q = q, !.screen = "conversation"]
  /\ Released /\ asking' = Left(asking)
  /\ UNCHANGED <<said, issued>>

\* navigateConversationQuestion forgets the evidence itself, before the effect.
VoiceNavigate(q) ==
  /\ Bound /\ adapter.told /\ q # page.q
  /\ page' = [page EXCEPT !.q = q, !.screen = "conversation", !.saved = NoQuestion]
  /\ evidence' = NoEvidence /\ adapter' = Moved(adapter) /\ asking' = Left(asking)
  /\ UNCHANGED <<said, issued>>

\* The effect of a change of question.
LeaveQuestion ==
  /\ adapter.made /\ adapter.q # page.q /\ Released
  /\ UNCHANGED <<page, asking, said, issued>>

\* Mutant of EvidenceIsOf: what was found for other wording goes with this one.
EvidenceOfQuestion(e, q, text) == e.q = q

EvidenceIsOf(e, q, text) == e.q = q /\ e.text = text

\* candidateRequestForCurrentState
CandidateRequest(e, q, text) ==
  LET request == [NotAsking EXCEPT !.st = "server", !.q = q, !.text = text]
  IN  IF page.revising = q
      THEN [request EXCEPT !.origin = "student_edited", !.kind = "student_edit"]
      ELSE IF EvidenceIsOf(e, q, text) /\ e.input = "voice"
      THEN [request EXCEPT
              !.origin = IF e.normalization = "none" THEN "student_verbatim"
                         ELSE "student_normalized",
              !.kind = "direct_voice", !.session = e.session, !.turns = e.turns]
      ELSE [request EXCEPT !.origin = "student_verbatim", !.kind = "direct_typed"]

\* registerTypedCandidate: the wording counts as a turn of the session of now.
RegisteredEvidence(q, text) ==
  [NoEvidence EXCEPT !.q = q, !.text = text, !.session = adapter.credential,
                     !.turns = <<Len(said) + 1>>]

Register(q, text) ==
  /\ Finished("typed", text)
  /\ evidence' = RegisteredEvidence(q, text)

\* persistCurrentCandidate, called by the buttons and the voice tools: without evidence
\* for the wording it first waits for a session without a microphone.
Persist ==
  /\ page.screen = "conversation" /\ asking.st = "idle"
  /\ page.draft[page.q] # NoText /\ page.saved # page.q
  /\ LET q == page.q
         text == page.draft[q]
     IN  IF EvidenceIsOf(evidence, q, text)
         THEN asking' = CandidateRequest(evidence, q, text) /\ UNCHANGED <<adapter, evidence, said>>
         ELSE IF Bound /\ ~adapter.audio
         THEN /\ IF adapter.credential # 0 THEN Register(q, text)
                 ELSE UNCHANGED <<adapter, evidence, said>>
              /\ asking' = CandidateRequest(evidence', q, text)
         ELSE /\ adapter' = NewAdapter(FALSE, TRUE) /\ evidence' = NoEvidence
              /\ asking' = [NotAsking EXCEPT !.st = "connecting", !.q = q, !.text = text]
              /\ UNCHANGED said
  /\ UNCHANGED <<page, issued>>

\* It goes on when the session is there, or will not be.
PersistGoesOn ==
  /\ asking.st = "connecting" /\ (adapter.awaited => adapter.opening = "none")
  /\ IF adapter.awaited THEN Register(asking.q, asking.text)
     ELSE UNCHANGED <<adapter, evidence, said>>
  /\ asking' = [CandidateRequest(evidence', asking.q, asking.text) EXCEPT !.moved = asking.moved]
  /\ UNCHANGED <<page, issued>>

\* The server has the wording, or not; exact review opens for a page that stayed.
Persisted ==
  /\ asking.st = "server" /\ asking' = NotAsking
  /\ \/ /\ page.version < MaxVersion
        /\ page' \in {[page EXCEPT !.version = @ + 1, !.screen = screen,
                                   !.saved = IF asking.moved THEN NoQuestion ELSE asking.q] :
                      screen \in IF asking.moved THEN {page.screen} ELSE {page.screen, "review"}}
        /\ adapter' = Moved(adapter)
     \/ UNCHANGED <<page, adapter>>
  /\ UNCHANGED <<evidence, said, issued>>

\* "Change answer" in exact review.
ChangeAnswer ==
  /\ page.screen = "review" /\ page' = [page EXCEPT !.screen = "conversation"]
  /\ adapter' = Moved(adapter) /\ asking' = Left(asking)
  /\ UNCHANGED <<evidence, said, issued>>

\* The answer is confirmed, and the student goes back to it: from now on its wording is
\* sent as an edit of the confirmed answer.
ConfirmAndRevise ==
  /\ page.screen = "review" /\ asking.st = "idle" /\ page.version < MaxVersion
  /\ page' = [page EXCEPT !.screen = "conversation", !.version = @ + 1,
                          !.revising = page.q, !.saved = NoQuestion]
  /\ adapter' = Moved(adapter)
  /\ UNCHANGED <<evidence, asking, said, issued>>

-----------------------------------------------------------------------------
(* The specification.                                                      *)

\* Any question may be the first: they have no order here.
Init ==
  /\ page \in {FirstPage(q) : q \in Questions} /\ adapter = NoAdapter /\ evidence = NoEvidence
  /\ asking = NotAsking /\ said = <<>> /\ issued = 0

Student ==
  \/ \E text \in Utterances : Speak(text) \/ TypeTurn(text)
  \/ \E text \in Wordings : Type(text)
  \/ \E q \in Questions : GoToQuestion(q)
  \/ BeginVoice \/ Persist \/ ChangeAnswer \/ ConfirmAndRevise

Voice ==
  \/ \E text \in Wordings : Propose(text)
  \/ \E q \in Questions : VoiceNavigate(q)
  \/ Reopen \/ CredentialArrives \/ Connected \/ OpenFails
  \/ UpdateApplicationState \/ LeaveQuestion

Next == Student \/ Voice \/ PersistGoesOn \/ Persisted

Spec == Init /\ [][Next]_vars

-----------------------------------------------------------------------------
(* Properties.                                                             *)

Spoken == asking.st = "server" /\ asking.kind = "direct_voice"

\* Wording that goes to the server as spoken is the wording of the turns that go with
\* it: all of them spoken, all of them said at this question, and the very words
\* unless the request says that punctuation differs; whatever was typed, proposed,
\* revised, released or left meanwhile.
SpokenIsAttested ==
  Spoken =>
    /\ asking.turns # <<>>
    /\ \A t \in Range(asking.turns) : said[t].modality = "voice" /\ said[t].q = asking.q
    /\ Comparable(TextOf(asking.turns)) = Comparable(asking.text)
    /\ asking.origin = "student_verbatim" <=> TextOf(asking.turns) = asking.text

\* The session named with spoken wording is the one its turns were said in.  (The code
\* does not keep this: it names the session of the adapter's newest credential, while
\* the turns may be of the session before a reconnect.)
TurnsOfNamedSession ==
  Spoken => \A t \in Range(asking.turns) : said[t].session = asking.session

\* Wording the page knows to differ from the student's in punctuation does not go to the
\* server as the very words.  (The code does not keep this: what was found in a typed
\* turn is sent as if the student had written it in the answer.)
VerbatimIsVerbatim ==
  asking.st = "server" /\ EvidenceIsOf(evidence, asking.q, asking.text)
    /\ evidence.normalization = "punctuation_only"
    => asking.origin # "student_verbatim"
=============================================================================
