----------------------------- MODULE VoiceSession -----------------------------
(***************************************************************************)
(* Voice on the student's page: OpenAIRealtimeAdapter, which opens         *)
(* sessions with the speech service and answers the tools its model calls, *)
(* and the part of WorkspaceShell.tsx that makes, binds and releases the   *)
(* adapter and carries the tools out.                                      *)
(*                                                                         *)
(* The page's context is its question, its version and its epoch, which    *)
(* never comes back to an earlier one: it is enough to know whether the    *)
(* adapter has been told the present one.  What the statechart does with   *)
(* an accepted tool is in WorkspacePage.  A tool is one the page does at   *)
(* once ("candidate"), one it has to ask the server for ("ask": clearer    *)
(* wording, exact review) or a navigation.                                 *)
(*                                                                         *)
(* `opens` has one entry for each run of openSession: the run and the      *)
(* session it makes.  Nothing keeps two runs from overlapping.             *)
(***************************************************************************)
EXTENDS Naturals, FiniteSets, FiniteSetsExt, Functions, TLC

CONSTANTS
  Calls,      \* numbers of the model's tool calls, in the order it makes them
  NoCall,
  \* Bounds of the instance: sessions opened, versions, questions visited.
  MaxOpens, MaxVersion, MaxVisits

ASSUME VoiceAssumption ==
  /\ Calls \subseteq Nat /\ NoCall \notin Calls
  /\ MaxOpens \in Nat /\ {MaxVersion, MaxVisits} \subseteq Nat \ {0}

VARIABLES
  page,     \* question visited, version; the voice indicator; the tool being carried out
  adapter,  \* realtimeAdapterRef and the fields of the adapter
  opens,    \* runs of openSession
  tool      \* pendingActions, and the promises the tools wait on

vars == <<page, adapter, opens, tool>>

-----------------------------------------------------------------------------
(* State.                                                                  *)

\* The working states of the voice indicator are one, and so are its two failures.
FirstPage == [visit |-> 1, version |-> 1,
              capture |-> "paused", voice |-> "ready", work |-> NoCall]

\* `told` is whether applicationState is the page's context of now; `visit`, `version`,
\* `path` and `audio` are the connection key; `deaf` is history: instructions could not
\* be brought up to date.
NoAdapter == [made |-> FALSE, visit |-> 1, version |-> 1, path |-> "none", audio |-> FALSE,
              told |-> TRUE, session |-> 0, inputMuted |-> TRUE,
              reconnectUsed |-> FALSE, reconnecting |-> FALSE, deaf |-> FALSE]

\* connect
NewAdapter(p, path, audio) ==
  [NoAdapter EXCEPT !.made = TRUE, !.visit = p.visit, !.version = p.version, !.path = path,
                    !.audio = audio, !.inputMuted = (p.capture # "active")]

\* It has no connection key: versions begin at 1.
BareAdapter(p) == [NoAdapter EXCEPT !.made = TRUE, !.visit = p.visit, !.version = 0]
Connectable(a) == a.version # 0

\* `then` is what the caller does with the session; `mic` is whether it hears.  A run
\* that did not connect is "over"; a session that did is "live", or "closed", or
\* "stray" when its adapter is destroyed.
NotOpened == [step |-> "unused", why |-> "none", then |-> "none", mic |-> FALSE]

\* `said` is the answer, `did` is history: the page has carried the tool out.
NoTool == [st |-> "idle", kind |-> "none", said |-> "none", did |-> FALSE]

\* The page's context is another one from now on.
Moved(a) == IF a.made THEN [a EXCEPT !.told = FALSE] ELSE a

\* The effect that releases the adapter comes before a return to a question, so
\* that each visit may count as a question of its own.
Visit ==
  /\ page.visit < MaxVisits /\ page' = [page EXCEPT !.visit = @ + 1]
  /\ adapter' = Moved(adapter)

\* handleBoundRealtimeEvent: the page takes no event of an adapter made for
\* another question or version.
Bound(a, p) == a.made /\ a.visit = p.visit /\ a.version = p.version

Keyed(a, p, path, audio) == Bound(a, p) /\ a.path = path /\ a.audio = audio

\* Events of the statechart about the voice indicator.
VoiceReady(p)        == [p EXCEPT !.voice = "ready"]
VoiceListening(p)    == [p EXCEPT !.voice = "ready", !.capture = "active"]
CapturePaused(p)     == [p EXCEPT !.capture = "paused"]
VoiceDisconnected(p) == [p EXCEPT !.voice = "failed", !.capture = "paused"]

Unused           == {i \in DOMAIN opens : opens[i].step = "unused"}
Ended(o, i, end) == [o EXCEPT ![i] = [NotOpened EXCEPT !.step = end]]
\* Closing a session that is being connected leaves its run to find out.
Closed(o, i) == IF i # 0 /\ o[i].step = "live" THEN Ended(o, i, "closed") ELSE o
Muted(o, a)  == IF a.session = 0 THEN o ELSE [o EXCEPT ![a.session].mic = FALSE]

-----------------------------------------------------------------------------
(* Tool results.                                                           *)

Says(t, c, said) == [t EXCEPT ![c] = [NoTool EXCEPT !.st = "answered", !.said = said]]

\* Mutant of FinishPendingActions: the map is emptied, nobody is answered.
ForgetPendingActions(t) ==
  [c \in Calls |-> IF t[c].st = "pending" THEN [t[c] EXCEPT !.st = "forgotten"] ELSE t[c]]

\* Calls of a destroyed adapter are not in the map.
FinishPendingActions(t) ==
  [c \in Calls |-> IF t[c].st = "pending" /\ t[c].kind # "stray"
                   THEN Says(t, c, "refused")[c] ELSE t[c]]

\* completeApplicationAction: the answer waits for the session to be told the
\* new state; an action no longer pending is not answered again.
CompleteAction(t, c, said) ==
  IF t[c].st = "pending"
  THEN [t EXCEPT ![c] = [@ EXCEPT !.st = "telling", !.kind = "none", !.said = said]]
  ELSE t

CarriedOut(t, c) == IF t[c].st = "pending" THEN [t EXCEPT ![c].did = TRUE] ELSE t

\* Mutant of Superseded: navigations pile up.
NoneSuperseded(t, kind) == t

\* A newer navigation supersedes a pending one.
Superseded(t, kind) ==
  [c \in Calls |-> IF kind = "navigate" /\ t[c].st = "pending" /\ t[c].kind = "navigate"
                   THEN Says(t, c, "refused")[c] ELSE t[c]]

Pend(t, c, kind) ==
  [Superseded(t, kind) EXCEPT ![c] = [NoTool EXCEPT !.st = "pending", !.kind = kind]]

-----------------------------------------------------------------------------
(* The adapter.                                                            *)

\* issue_realtime_client_secret refuses an adapter made for an earlier version.
IssueClientSecret(a, p) == IF a.version = p.version THEN "credential" ELSE "refused"

\* openSession, up to the credential.
OpenSession(a, why, then) ==
  /\ Unused # {}
  /\ adapter' = [a EXCEPT !.session = 0]
  /\ opens' = [Closed(opens, a.session) EXCEPT
                 ![Min(Unused)] = [NotOpened EXCEPT !.step = IssueClientSecret(a, page),
                                                    !.why = why, !.then = then]]
  /\ tool' = FinishPendingActions(tool)

\* destroy: a run still under way closes what it makes; a session nobody knows of
\* any longer is not closed.
Released ==
  [i \in DOMAIN opens |->
     CASE opens[i].step \in {"credential", "refused", "connecting"} ->
            [NotOpened EXCEPT !.step = "over"]
       [] opens[i].step \in {"live", "closed"} ->
            [NotOpened EXCEPT !.step = "stray", !.mic = opens[i].mic /\ i # adapter.session]
       [] OTHER -> opens[i]]

\* releaseRealtimeAdapter
Release ==
  adapter' = NoAdapter /\ opens' = Released /\ tool' = FinishPendingActions(tool)

\* Mutant of PageError: the page says so and the microphone stays as it is.
PageErrorOnly(a, o, p) ==
  /\ adapter' = a /\ opens' = o
  /\ page' \in IF Bound(a, p) THEN {p, VoiceDisconnected(p)} ELSE {p}

\* emitConnectionError; in several states the statechart takes no notice.
PageError(a, o, p) ==
  /\ adapter' = [a EXCEPT !.inputMuted = TRUE] /\ opens' = Muted(o, a)
  /\ page' \in IF Bound(a, p) THEN {p, VoiceDisconnected(p)} ELSE {p}

\* startListening
Listening(a, p) ==
  /\ adapter' = [a EXCEPT !.inputMuted = FALSE, !.deaf = FALSE]
  /\ page' = IF Bound(a, p) THEN VoiceListening(p) ELSE p

\* attachSessionEvents: only the session of now is listened to.
SessionIsLive(a, o) == a.session # 0 /\ o[a.session].step = "live"

Heard(o, a) == IF SessionIsLive(a, o) THEN [o EXCEPT ![a.session].mic = TRUE] ELSE o

CredentialArrives(i) ==
  /\ opens[i].step = "credential"
  /\ adapter' = [adapter EXCEPT !.session = i]
  /\ opens' = [opens EXCEPT ![i].step = "connecting"]
  /\ UNCHANGED <<page, tool>>

\* The catch of openSession closes the session there is by now, whose ever it is.
OpenFails(i) ==
  /\ opens[i].step \in {"credential", "refused", "connecting"}
  /\ LET a == [adapter EXCEPT !.session = 0,
                 !.reconnecting = IF opens[i].why = "reconnect" THEN FALSE ELSE @]
         o == Ended(Closed(opens, adapter.session), i, "over")
     IN  IF opens[i].why = "connect"
         THEN /\ page' \in IF Bound(a, page) THEN {page, VoiceDisconnected(page)} ELSE {page}
              /\ Release
         ELSE PageError(a, o, page) /\ UNCHANGED tool

\* A run whose session was replaced meanwhile closes it; the caller goes on.
Connected(i) ==
  /\ opens[i].step = "connecting"
  /\ LET o == opens[i]
         mine == adapter.session = i
         a == [adapter EXCEPT !.reconnecting = IF o.why = "reconnect" THEN FALSE ELSE @]
         listens == /\ o.why = "connect" /\ Bound(a, page)
                    /\ o.then = "listen" \/ (o.then = "maintain" /\ page.capture = "active")
         live == IF mine THEN [opens EXCEPT ![i] = [NotOpened EXCEPT !.step = "live",
                                                        !.mic = ~(a.inputMuted)]]
                 ELSE Ended(opens, i, "closed")
         told == IF mine /\ Bound(a, page) THEN VoiceReady(page) ELSE page
     IN  IF o.why = "connect" /\ ~Bound(a, page)
         THEN Release /\ UNCHANGED page
         ELSE /\ UNCHANGED tool
              /\ IF listens THEN Listening(a, told) /\ opens' = Heard(live, a)
                 ELSE adapter' = a /\ page' = told /\ opens' = live

\* handleConnectionFailure: an error of the session or its transport.
ConnectionFails(denied) ==
  /\ adapter.session # 0 /\ ~adapter.reconnecting
  /\ IF ~denied /\ ~adapter.reconnectUsed
     THEN /\ OpenSession([adapter EXCEPT !.reconnectUsed = TRUE, !.reconnecting = TRUE],
                         "reconnect", "none")
          /\ UNCHANGED page
     ELSE PageError(adapter, opens, page) /\ UNCHANGED tool

\* The service heard speech; the event may come late.
SpeechStarted ==
  /\ SessionIsLive(adapter, opens) /\ Bound(adapter, page)
  /\ page' = VoiceListening(page)
  /\ UNCHANGED <<adapter, opens, tool>>

-----------------------------------------------------------------------------
(* Tools.                                                                  *)

NextCall == Min({d \in Calls : tool[d].st = "idle"})

\* A session whose adapter is destroyed calls: nobody hears of it.
CallStray(c) ==
  /\ \E i \in DOMAIN opens : opens[i].step = "stray"
  /\ c = NextCall /\ tool' = Pend(tool, c, "stray")
  /\ UNCHANGED <<page, adapter, opens>>

\* The context the adapter gives with the call is the page's own.
OriginIsCurrent == Bound(adapter, page) /\ adapter.told

\* The adapter asks the page, which answers before the call returns or begins
\* the work; an event of an adapter bound elsewhere is not answered at all.  The
\* calls of a session that was replaced are taken for calls of the present one.
CallTool(c, kind) ==
  /\ \E i \in DOMAIN opens : opens[i].step \in {"live", "closed"}
  /\ c = NextCall
  /\ LET t == Pend(tool, c, kind)
         current == OriginIsCurrent
     IN  \/ /\ ~Bound(adapter, page)
            /\ tool' = t /\ UNCHANGED <<page, adapter>>
         \/ /\ Bound(adapter, page) /\ (current => kind # "ask" \/ page.work # NoCall)
            /\ tool' = CompleteAction(t, c, "refused") /\ UNCHANGED <<page, adapter>>
         \/ /\ current /\ kind = "candidate"
            /\ tool' = CompleteAction(CarriedOut(t, c), c, "accepted")
            /\ UNCHANGED <<page, adapter>>
         \/ /\ current /\ kind = "ask" /\ page.work = NoCall
            /\ tool' = t /\ page' = [page EXCEPT !.work = c] /\ UNCHANGED adapter
         \/ /\ current /\ kind = "navigate"
            /\ tool' = CompleteAction(CarriedOut(t, c), c, "accepted")
            /\ \/ UNCHANGED <<page, adapter>>
               \/ Visit
  /\ UNCHANGED opens

Reported(done) == IF done THEN "accepted" ELSE "refused"

\* requestRephrase and requestReview end; the assignment has a new version when
\* the server stored anything, also when the page then refuses the answer.
WorkEnds(done, stored) ==
  /\ page.work # NoCall
  /\ done => stored
  /\ stored => page.version < MaxVersion
  /\ page' = [page EXCEPT !.work = NoCall, !.version = IF stored THEN @ + 1 ELSE @]
  /\ tool' = CompleteAction(IF done THEN CarriedOut(tool, page.work) ELSE tool,
                            page.work, Reported(done))
  /\ adapter' = IF stored THEN Moved(adapter) ELSE adapter
  /\ UNCHANGED opens

\* Fifteen seconds have passed.
TimeOut(c) ==
  /\ tool[c].st = "pending" /\ tool' = Says(tool, c, "refused")
  /\ UNCHANGED <<page, adapter, opens>>

\* The session took the new instructions, or the update failed.
Told(c) ==
  /\ tool[c].st = "telling" /\ tool' \in {Says(tool, c, tool[c].said), Says(tool, c, "refused")}
  /\ UNCHANGED <<page, adapter, opens>>

-----------------------------------------------------------------------------
(* The page.                                                               *)

\* VoiceStateControl: the buttons the indicator offers.
Failure(p)         == p.voice = "failed"
StartOffered(p)    == ~Failure(p) /\ p.capture # "active"
StopOffered(p)     == ~Failure(p) /\ p.capture = "active"
RecoveryOffered(p) == Failure(p)

\* ensureRealtimeAdapter and what its caller does with an adapter that is there.
Ensure(path, audio, then) ==
  IF Keyed(adapter, page, path, audio)
  THEN /\ UNCHANGED tool
       /\ IF then = "none" THEN UNCHANGED <<page, adapter, opens>>
          ELSE Listening(adapter, page) /\ opens' = Heard(opens, adapter)
  ELSE /\ Unused # {}
       /\ adapter' = NewAdapter(page, path, audio)
       /\ opens' = [Released EXCEPT ![Min(Unused)] =
                      [NotOpened EXCEPT !.step = "credential", !.why = "connect", !.then = then]]
       /\ tool' = FinishPendingActions(tool)
       /\ UNCHANGED page

\* The path is "direct" on the screens that are not of the conversation.
Paths == {"conversation", "direct"}

\* "Start speaking"
BeginVoice(path) ==
  /\ StartOffered(page) /\ Ensure(path, TRUE, "listen")

\* "Stop listening"
StopVoice ==
  /\ StopOffered(page)
  /\ adapter' = [adapter EXCEPT !.inputMuted = TRUE] /\ opens' = Muted(opens, adapter)
  /\ page' = CapturePaused(IF Bound(adapter, page) THEN VoiceReady(page) ELSE page)
  /\ UNCHANGED tool

Retry == OpenSession([adapter EXCEPT !.reconnectUsed = FALSE], "retry", "none")

\* "Retry voice"; an adapter made to read wording aloud has nothing to open again.
RetryVoice(path) ==
  /\ RecoveryOffered(page)
  /\ page' = VoiceReady(page)
  /\ IF adapter.made
     THEN IF Connectable(adapter) THEN Retry ELSE UNCHANGED <<adapter, opens, tool>>
     ELSE /\ Unused # {}
          /\ adapter' = NewAdapter(page, path, TRUE)
          /\ opens' = [opens EXCEPT ![Min(Unused)] =
                         [NotOpened EXCEPT !.step = "credential", !.why = "connect"]]
          /\ UNCHANGED tool

ContinueByTyping ==
  /\ RecoveryOffered(page) /\ page' = VoiceReady(page)
  /\ UNCHANGED <<adapter, opens, tool>>

\* "Hear exact wording" in exact review: an adapter without a connection reads it.
HearExact ==
  /\ ~adapter.made /\ adapter' = BareAdapter(page)
  /\ UNCHANGED <<page, opens, tool>>

\* sendGuidedTurn keeps an audio session.
TypedTurn == Ensure("conversation", adapter.made /\ adapter.audio, "none")

\* persistCurrentCandidate: evidence for typed words needs a session without audio.
TypedEvidence == Ensure("conversation", FALSE, "none")

\* An edit begins a new epoch.
Edit == adapter' = Moved(adapter) /\ UNCHANGED <<page, opens, tool>>

\* A question chosen on the page.
GoToQuestion ==
  Visit /\ UNCHANGED <<opens, tool>>

\* The effect that releases the adapter when the question changes.
LeaveQuestion ==
  /\ adapter.made /\ adapter.visit # page.visit /\ Release /\ UNCHANGED page

\* The effect that keeps capture going; not in every state of the statechart.
MaintainCapture ==
  /\ page.capture = "active" /\ page.work = NoCall /\ Ensure("conversation", TRUE, "maintain")

\* The effect that tells the adapter; it fails when the instructions grow too
\* long or the session does not take them.
UpdateApplicationState ==
  /\ adapter.made /\ ~adapter.told
  /\ \/ /\ adapter' = [adapter EXCEPT !.told = TRUE] /\ UNCHANGED page
     \/ /\ adapter.session # 0
        /\ adapter' = [adapter EXCEPT !.told = TRUE, !.deaf = TRUE]
        /\ page' = VoiceDisconnected(page)
  /\ UNCHANGED <<opens, tool>>

-----------------------------------------------------------------------------
(* The specification.                                                      *)

Init ==
  /\ page = FirstPage /\ adapter = NoAdapter
  /\ opens = [i \in 1..MaxOpens |-> NotOpened]
  /\ tool = [c \in Calls |-> NoTool]

Student ==
  \/ \E path \in Paths : BeginVoice(path) \/ RetryVoice(path)
  \/ StopVoice \/ ContinueByTyping \/ HearExact \/ TypedTurn \/ TypedEvidence \/ Edit
  \/ GoToQuestion

Effect == LeaveQuestion \/ MaintainCapture \/ UpdateApplicationState

Session ==
  \/ \E i \in DOMAIN opens : CredentialArrives(i) \/ OpenFails(i) \/ Connected(i)
  \/ \E denied \in BOOLEAN : ConnectionFails(denied)
  \/ SpeechStarted

Tools ==
  \/ \E c \in Calls : TimeOut(c) \/ Told(c)
  \/ \E c \in {d \in Calls : tool[d].st = "idle"} :
       CallStray(c) \/ \E kind \in {"candidate", "ask", "navigate"} : CallTool(c, kind)
  \/ \E done, stored \in BOOLEAN : WorkEnds(done, stored)

Next == Student \/ Effect \/ Session \/ Tools

\* Timers fire, and an update of the instructions ends.
Spec == Init /\ [][Next]_vars /\ WF_vars(\E c \in Calls : TimeOut(c) \/ Told(c))

-----------------------------------------------------------------------------
(* Properties.                                                             *)

\* Every variable has its shape; the adapter's session is one it is opening or
\* has open, and at most one navigation is pending.
TypeOK ==
  /\ page.visit \in 1..MaxVisits /\ page.version \in 1..MaxVersion
  /\ page.capture \in {"active", "paused"} /\ page.voice \in {"ready", "failed"}
  /\ page.work \in Calls \cup {NoCall}
  /\ adapter.session \in DOMAIN opens \cup {0}
  /\ adapter.session # 0 => opens[adapter.session].step \in {"connecting", "live"}
  /\ \A i \in DOMAIN opens : opens[i].mic => opens[i].step \in {"live", "stray"}
  /\ \A c \in Calls : tool[c].st \in {"idle", "pending", "telling", "answered"}
  /\ Cardinality({c \in Calls : tool[c].st = "pending" /\ tool[c].kind = "navigate"}) <= 1

\* When the page shows that it is not listening, the adapter's session does not
\* hear, except after an update of the instructions failed: then the page says
\* that the voice is disconnected and nobody closes the microphone.
SilentWhenPaused ==
  page.capture # "active" /\ ~adapter.deaf /\ adapter.session # 0
    => ~opens[adapter.session].mic

\* When the page says that voice has failed, and offers no Stop button, the adapter's
\* session does not hear.  (The code does not keep this: when the instructions cannot
\* be brought up to date the page is told, and nobody mutes the session.)
SilentWhenFailed ==
  Failure(page) /\ adapter.session # 0 => ~opens[adapter.session].mic

\* Every tool call of the model is answered once and in the end, and "Accepted"
\* only for what the page did.
StatusOf(t) ==
  CASE t.st \in {"pending", "telling"} -> IF t.did THEN "done" ELSE "open"
    [] t.st = "answered"               -> t.said
    [] OTHER                           -> t.st

Promise ==
  INSTANCE ToolCalls WITH ToolCall <- Calls, status <- [c \in Calls |-> StatusOf(tool[c])]

AnswersTools == Promise!Spec
=============================================================================
