------------------------- MODULE VoiceSession_proofs -------------------------
(***************************************************************************)
(* Proofs about VoiceSession, for every set of tool calls and any number   *)
(* of sessions, versions and visits: a paused indicator means a session    *)
(* that does not hear, and every tool call follows the promise of          *)
(* ToolCalls.                                                              *)
(***************************************************************************)
EXTENDS VoiceSession, FiniteSetTheorems, TLAPS

-----------------------------------------------------------------------------
(* The inductive invariant.                                                *)

Page ==
  [visit : 1..MaxVisits, version : 1..MaxVersion, capture : {"active", "paused"},
   voice : {"ready", "failed"}, work : Calls \cup {NoCall}]

Adapter ==
  [made : BOOLEAN, visit : Nat, version : Nat, path : Paths \cup {"none"}, audio : BOOLEAN,
   told : BOOLEAN, session : Nat, inputMuted : BOOLEAN, reconnectUsed : BOOLEAN,
   reconnecting : BOOLEAN, deaf : BOOLEAN]

\* What a run of openSession may be at.
Steps ==
  {"unused", "credential", "refused", "connecting", "live", "over", "closed", "stray"}

Open ==
  [step : Steps,
   why : {"none", "connect", "reconnect", "retry"}, then : {"none", "listen", "maintain"},
   mic : BOOLEAN]

Tool ==
  [st : {"idle", "pending", "telling", "answered"},
   kind : {"none", "candidate", "ask", "navigate", "stray"},
   said : {"none", "accepted", "refused"}, did : BOOLEAN]

\* Only a session that is not closed hears.
GoodOpens(o) ==
  /\ o \in [1..MaxOpens -> Open]
  /\ \A i \in 1..MaxOpens : o[i].mic => o[i].step \in {"live", "stray"}

\* The adapter's session is one it is opening or has open.
HasSession(a, o) ==
  a.session # 0 => a.session \in 1..MaxOpens /\ o[a.session].step \in {"connecting", "live"}

\* What the adapter believes of its input is no less than what the session hears,
\* and no more than what the indicator shows.
Believes(a, p) == ~a.inputMuted => p.capture = "active" \/ a.deaf
Hears(a, o)    == a.session # 0 /\ o[a.session].mic => ~a.inputMuted

Shape(a, o) == a \in Adapter /\ GoodOpens(o) /\ HasSession(a, o)

Sound(p, a, o) == p \in Page /\ Shape(a, o) /\ Believes(a, p) /\ Hears(a, o)

\* An answer says something, and "Accepted" is on its way only for what the page
\* did.
Truthful(t) ==
  /\ t.st \in {"telling", "answered"} => t.said # "none"
  /\ t.st = "telling" /\ t.said = "accepted" => t.did

Navigating(t) == t.st = "pending" /\ t.kind = "navigate"

GoodTools(t) ==
  /\ t \in [Calls -> Tool]
  /\ \A c \in Calls : Truthful(t[c])
  /\ \A c, d \in Calls : Navigating(t[c]) /\ Navigating(t[d]) => c = d

VInv == Sound(page, adapter, opens) /\ GoodTools(tool)

\* Each call goes on as promised.
Follow(t, u) == \A c \in Calls : StatusOf(u[c]) \in Promise!Follows(StatusOf(t[c]))

Advance(t, u) == GoodTools(u) /\ Follow(t, u)

-----------------------------------------------------------------------------
(* Tools.                                                                  *)

\* The record of a call that was answered, or whose answer is on its way.
LEMMA SaysFacts ==
  ASSUME NEW t \in [Calls -> Tool], NEW c \in Calls, NEW said \in {"accepted", "refused"}
  PROVE  /\ Says(t, c, said) \in [Calls -> Tool]
         /\ Says(t, c, said)[c] = [NoTool EXCEPT !.st = "answered", !.said = said]
         /\ \A d \in Calls \ {c} : Says(t, c, said)[d] = t[d]
BY DEF Says, NoTool, Tool

\* A change of some calls, each of which follows the promise and begins no
\* navigation.
LEMMA ToolsAdvance ==
  ASSUME GoodTools(tool), NEW t \in [Calls -> Tool],
         \A c \in Calls :
           t[c] = tool[c] \/ (/\ Truthful(t[c]) /\ ~Navigating(t[c])
                              /\ StatusOf(t[c]) \in Promise!Follows(StatusOf(tool[c])))
  PROVE  Advance(tool, t)
<1>1. \A c \in Calls : StatusOf(tool[c]) \in Promise!Follows(StatusOf(tool[c]))
  BY DEF GoodTools, Tool, StatusOf, Promise!Follows
<1>2. \A c \in Calls : Navigating(t[c]) => t[c] = tool[c]
  OBVIOUS
<1>3. GoodTools(t)
  BY <1>2 DEF GoodTools
<1> QED
  BY <1>1, <1>3 DEF Advance, Follow

\* A step that leaves the calls alone.
LEMMA Unchanged == ASSUME GoodTools(tool) PROVE Advance(tool, tool)
BY ToolsAdvance DEF GoodTools

\* All pending calls are refused.
LEMMA FinishAdvances == ASSUME GoodTools(tool) PROVE Advance(tool, FinishPendingActions(tool))
<1> DEFINE t == FinishPendingActions(tool)
<1>1. tool \in [Calls -> Tool]
  BY DEF GoodTools
<1>2. \A c \in Calls : t[c] = IF tool[c].st = "pending" /\ tool[c].kind # "stray"
                              THEN [NoTool EXCEPT !.st = "answered", !.said = "refused"]
                               ELSE tool[c]
  BY <1>1, SaysFacts DEF FinishPendingActions
<1>3. [NoTool EXCEPT !.st = "answered", !.said = "refused"] \in Tool
  BY DEF NoTool, Tool
<1>4. t \in [Calls -> Tool]
  <2>1. t = [c \in Calls |-> t[c]]
    BY DEF FinishPendingActions
  <2> QED
    BY <1>1, <1>2, <1>3, <2>1
<1> HIDE DEF t
<1>5. \A c \in Calls :
           t[c] = tool[c] \/ (/\ Truthful(t[c]) /\ ~Navigating(t[c])
                              /\ StatusOf(t[c]) \in Promise!Follows(StatusOf(tool[c])))
  BY <1>1, <1>2 DEF Tool, NoTool, Truthful, Navigating, StatusOf, Promise!Follows
<1> QED
  BY <1>4, <1>5, ToolsAdvance DEF t

\* One call, if it is pending, is answered or its answer sent on its way.
LEMMA OneAdvances ==
  ASSUME GoodTools(tool), NEW c \in Calls, NEW x \in Tool, NEW t, t = [tool EXCEPT ![c] = x],
         \/ x = tool[c]
         \/ /\ Truthful(x) /\ ~Navigating(x)
            /\ StatusOf(x) \in Promise!Follows(StatusOf(tool[c]))
  PROVE  Advance(tool, t)
<1>1. tool \in [Calls -> Tool]
  BY DEF GoodTools
<1>2. t \in [Calls -> Tool] /\ t[c] = x /\ \A d \in Calls \ {c} : t[d] = tool[d]
  BY <1>1
<1> QED
  BY <1>2, ToolsAdvance

\* A call the page has just answered, with the work done or not.
LEMMA CompleteAdvances ==
  ASSUME GoodTools(tool), NEW c \in Calls, NEW done \in BOOLEAN
  PROVE  Advance(tool,
           CompleteAction(IF done THEN CarriedOut(tool, c) ELSE tool, c, Reported(done)))
<1>1. tool \in [Calls -> Tool]
  BY DEF GoodTools
<1> DEFINE t == CompleteAction(IF done THEN CarriedOut(tool, c) ELSE tool, c, Reported(done))
           x == [tool[c] EXCEPT !.st = "telling", !.kind = "none", !.said = Reported(done),
                                !.did = IF done THEN TRUE ELSE @]
<1>2. CASE tool[c].st # "pending"
  BY <1>1, <1>2, Unchanged DEF CompleteAction, CarriedOut
<1>3. CASE tool[c].st = "pending"
  <2>1. t = [tool EXCEPT ![c] = x]
    BY <1>1, <1>3 DEF CompleteAction, CarriedOut, Tool
  <2>2. x \in Tool
    BY <1>1 DEF Tool, Reported
  <2>3. Truthful(x) /\ ~Navigating(x) /\ StatusOf(x) \in Promise!Follows(StatusOf(tool[c]))
    BY <1>1, <1>3 DEF Tool, Reported, Truthful, Navigating, StatusOf, Promise!Follows
  <2> HIDE DEF t, x
  <2> QED
    BY <2>1, <2>2, <2>3, OneAdvances DEF t
<1> QED
  BY <1>2, <1>3

\* A new call: pending, answered at once, or carried out and answered.
LEMMA CallAdvances ==
  ASSUME GoodTools(tool), NEW c \in Calls, tool[c].st = "idle",
         NEW kind \in {"candidate", "ask", "navigate", "stray"},
         NEW t, t \in {Pend(tool, c, kind),
                       CompleteAction(Pend(tool, c, kind), c, "refused"),
                       CompleteAction(CarriedOut(Pend(tool, c, kind), c), c, "accepted")}
  PROVE  Advance(tool, t)
<1>1. tool \in [Calls -> Tool]
  BY DEF GoodTools
<1> DEFINE s == Superseded(tool, kind)
           p == Pend(tool, c, kind)
           gone == [NoTool EXCEPT !.st = "answered", !.said = "refused"]
           fresh == [NoTool EXCEPT !.st = "pending", !.kind = kind]
<1>2. gone \in Tool /\ fresh \in Tool
  BY DEF NoTool, Tool
<1>3. s = [d \in Calls |-> IF kind = "navigate" /\ Navigating(tool[d]) THEN gone ELSE tool[d]]
  BY <1>1, SaysFacts DEF Superseded, Navigating
<1>4. s \in [Calls -> Tool]
  BY <1>1, <1>2, <1>3
<1>5. p = [s EXCEPT ![c] = fresh] /\ p \in [Calls -> Tool] /\ p[c] = fresh
  BY <1>2, <1>4 DEF Pend
<1>6. \A d \in Calls \ {c} :
        p[d] = IF kind = "navigate" /\ Navigating(tool[d]) THEN gone ELSE tool[d]
  BY <1>3, <1>4, <1>5
<1>7. PICK x \in Tool :
        /\ t = [p EXCEPT ![c] = x]
        /\ Truthful(x) /\ (Navigating(x) => kind = "navigate")
        /\ StatusOf(x) \in {"open", "done"}
  <2>1. CASE t = p
    BY <1>2, <1>5, <2>1 DEF NoTool, Tool, Truthful, Navigating, StatusOf
  <2>2. CASE t = CompleteAction(p, c, "refused")
    <3> DEFINE x == [fresh EXCEPT !.st = "telling", !.kind = "none", !.said = "refused"]
    <3>1. t = [p EXCEPT ![c] = x]
      BY <1>5, <2>2 DEF CompleteAction, NoTool
    <3>2. x \in Tool /\ Truthful(x) /\ ~Navigating(x) /\ StatusOf(x) = "open"
      BY DEF NoTool, Tool, Truthful, Navigating, StatusOf
    <3> HIDE DEF x, p
    <3> QED
      BY <3>1, <3>2
  <2>3. CASE t = CompleteAction(CarriedOut(p, c), c, "accepted")
    <3> DEFINE x == [fresh EXCEPT !.st = "telling", !.kind = "none", !.said = "accepted",
                                  !.did = TRUE]
    <3>1. t = [p EXCEPT ![c] = x]
      BY <1>5, <2>3 DEF CompleteAction, CarriedOut, NoTool
    <3>2. x \in Tool /\ Truthful(x) /\ ~Navigating(x) /\ StatusOf(x) = "done"
      BY DEF NoTool, Tool, Truthful, Navigating, StatusOf
    <3> HIDE DEF x, p
    <3> QED
      BY <3>1, <3>2
  <2> QED
    BY <2>1, <2>2, <2>3
<1>8. t \in [Calls -> Tool] /\ t[c] = x /\ \A d \in Calls \ {c} : t[d] = p[d]
  BY <1>5, <1>7
<1> HIDE DEF s, p, gone, fresh
<1>9. Truthful(gone) /\ ~Navigating(gone) /\ StatusOf(gone) = "refused"
  BY DEF gone, NoTool, Truthful, Navigating, StatusOf
<1>10. GoodTools(t)
  <2>1. \A d \in Calls : Truthful(t[d])
    BY <1>6, <1>7, <1>8, <1>9 DEF GoodTools
  <2>2. \A d \in Calls \ {c} : Navigating(t[d]) => kind # "navigate" /\ Navigating(tool[d])
    BY <1>6, <1>8, <1>9
  <2> QED
    BY <1>7, <1>8, <2>1, <2>2 DEF GoodTools
<1>11. \A d \in Calls : StatusOf(t[d]) \in Promise!Follows(StatusOf(tool[d]))
  <2>1. StatusOf(tool[c]) = "idle"
    BY DEF StatusOf
  <2>2. \A d \in Calls : Navigating(tool[d]) => StatusOf(tool[d]) \in {"open", "done"}
    BY <1>1 DEF Tool, Navigating, StatusOf
  <2>3. \A d \in Calls : StatusOf(tool[d]) \in Promise!Follows(StatusOf(tool[d]))
    BY <1>1 DEF Tool, StatusOf, Promise!Follows
  <2>4. /\ {"open", "done"} \subseteq Promise!Follows("idle")
        /\ "refused" \in Promise!Follows("open")
        /\ "refused" \in Promise!Follows("done")
    BY DEF Promise!Follows
  <2>5. StatusOf(t[c]) \in Promise!Follows(StatusOf(tool[c]))
    BY <1>7, <1>8, <2>1, <2>4
  <2>6. ASSUME NEW d \in Calls \ {c} PROVE StatusOf(t[d]) \in Promise!Follows(StatusOf(tool[d]))
    BY <1>6, <1>8, <1>9, <2>2, <2>3, <2>4
  <2> QED
    BY <2>5, <2>6
<1> QED
  BY <1>10, <1>11 DEF Advance, Follow

-----------------------------------------------------------------------------
(* The session and the indicator.                                          *)

\* What a step of the session owes, with the page it leaves.
Settled == Sound(page', adapter', opens')

\* The bounds, and the values at the start.
LEMMA ConstantFacts ==
  /\ MaxOpens \in Nat /\ MaxVersion \in Nat \ {0} /\ MaxVisits \in Nat \ {0}
  /\ NotOpened \in Open /\ NoAdapter \in Adapter /\ ~NotOpened.mic
  /\ NoAdapter.session = 0 /\ NoAdapter.inputMuted
BY VoiceAssumption DEF NotOpened, Open, Steps, NoAdapter, Adapter

\* Without a session and with the input muted there is nothing to show.
LEMMA SilentIsSound ==
  ASSUME NEW p \in Page, NEW a \in Adapter, NEW o, GoodOpens(o), a.session = 0, Believes(a, p)
  PROVE  Sound(p, a, o)
BY DEF Sound, Shape, HasSession, Hears

\* An adapter just made is muted unless the page is listening.
LEMMA NewAdapterFacts ==
  ASSUME NEW p \in Page, NEW path \in Paths, NEW audio \in BOOLEAN
  PROVE  /\ NewAdapter(p, path, audio) \in Adapter /\ NewAdapter(p, path, audio).session = 0
         /\ Believes(NewAdapter(p, path, audio), p)
<1>1. /\ p.visit \in Nat /\ p.version \in Nat
      /\ p.capture # "active" => p.capture = "paused"
  BY ConstantFacts DEF Page
<1> DEFINE n == NewAdapter(p, path, audio)
           muted == p.capture # "active"
<1>2. muted \in BOOLEAN
  OBVIOUS
<1> HIDE DEF muted
<1>3. n = [NoAdapter EXCEPT !.made = TRUE, !.visit = p.visit, !.version = p.version,
                            !.path = path, !.audio = audio, !.inputMuted = muted]
  BY Zenon DEF NewAdapter, muted
<1> HIDE DEF n
<1>4. n \in Adapter /\ n.session = 0
  BY <1>1, <1>2, <1>3 DEF NoAdapter, Adapter
<1>5. n.inputMuted = muted
  BY <1>3 DEF NoAdapter
<1> QED
  BY <1>4, <1>5 DEF n, muted, Believes

\* The events of the indicator.
LEMMA EventFacts ==
  ASSUME NEW p \in Page
  PROVE  /\ VoiceReady(p) \in Page /\ VoiceReady(p).capture = p.capture
         /\ VoiceListening(p) \in Page /\ VoiceListening(p).capture = "active"
         /\ CapturePaused(p) \in Page /\ VoiceDisconnected(p) \in Page
BY DEF Page, VoiceReady, VoiceListening, CapturePaused, VoiceDisconnected

\* What the helpers make of the runs.
LEMMA OpensFacts ==
  ASSUME NEW o, GoodOpens(o), NEW a, HasSession(a, o), NEW i, NEW end \in {"over", "closed"}
  PROVE  /\ GoodOpens(Ended(o, i, end)) /\ GoodOpens(Closed(o, i)) /\ GoodOpens(Muted(o, a))
         /\ HasSession(a, Muted(o, a)) /\ (a.session # 0 => ~Muted(o, a)[a.session].mic)
         /\ a.session # i => /\ HasSession(a, Ended(o, i, end))
                             /\ Hears(a, o) => Hears(a, Ended(o, i, end))
<1>1. GoodOpens(Ended(o, i, end)) /\ GoodOpens(Ended(o, i, "closed"))
  BY DEF GoodOpens, Ended, Open, Steps, NotOpened
<1>2. GoodOpens(Closed(o, i))
  BY <1>1 DEF Closed
<1>3. GoodOpens(Muted(o, a)) /\ HasSession(a, Muted(o, a))
      /\ (a.session # 0 => ~Muted(o, a)[a.session].mic)
  BY DEF GoodOpens, Muted, Open, HasSession
<1>4. ASSUME a.session # i
      PROVE  HasSession(a, Ended(o, i, end)) /\ (Hears(a, o) => Hears(a, Ended(o, i, end)))
  BY <1>4 DEF GoodOpens, HasSession, Hears, Ended
<1> QED
  BY <1>1, <1>2, <1>3, <1>4

\* A run that begins.
LEMMA BeginsFacts ==
  ASSUME NEW o, GoodOpens(o), NEW i, NEW x \in Open, ~x.mic
  PROVE  GoodOpens([o EXCEPT ![i] = x])
BY DEF GoodOpens

\* With the adapter gone, no session of its is left open.
LEMMA ReleaseSettles ==
  ASSUME Shape(adapter, opens), NEW p \in Page
  PROVE  /\ GoodOpens(Released)
         /\ Sound(p, NoAdapter, Released)
<1>1. GoodOpens(Released)
  BY ConstantFacts DEF GoodOpens, Shape, Released, NotOpened, Open, Steps
<1> QED
  BY <1>1, ConstantFacts, SilentIsSound DEF Believes

\* A failure that the page is told mutes the session.
LEMMA PageErrorSettles ==
  ASSUME NEW a, NEW o, Shape(a, o), NEW p \in Page, PageError(a, o, p)
  PROVE  Settled
<1>1. adapter' = [a EXCEPT !.inputMuted = TRUE] /\ opens' = Muted(o, a)
      /\ page' \in {p, VoiceDisconnected(p)}
  BY DEF PageError
<1>2. page' \in Page /\ GoodOpens(opens') /\ HasSession(a, opens')
      /\ (a.session # 0 => ~opens'[a.session].mic)
  BY <1>1, EventFacts, OpensFacts DEF Shape
<1>3. adapter' \in Adapter /\ adapter'.inputMuted /\ adapter'.session = a.session
  BY <1>1 DEF Shape, Adapter
<1> QED
  BY <1>2, <1>3 DEF Settled, Sound, Shape, HasSession, Believes, Hears

\* Capture begins where the page takes the adapter's events.
LEMMA ListeningSettles ==
  ASSUME NEW a, NEW o, Shape(a, o), NEW p \in Page, Bound(a, p), Listening(a, p),
         NEW b, b.session = a.session, opens' = Heard(o, b)
  PROVE  Settled
<1>1. page' = VoiceListening(p) /\ page' \in Page /\ page'.capture = "active"
  BY EventFacts DEF Listening
<1>2. adapter' = [a EXCEPT !.inputMuted = FALSE, !.deaf = FALSE]
  BY DEF Listening
<1>3. adapter' \in Adapter /\ adapter'.session = a.session /\ ~adapter'.inputMuted
  BY <1>2 DEF Shape, Adapter
<1>4. GoodOpens(opens') /\ HasSession(a, opens')
  BY DEF Shape, GoodOpens, Open, HasSession, Heard, SessionIsLive
<1> QED
  BY <1>1, <1>3, <1>4 DEF Settled, Sound, Shape, HasSession, Believes, Hears

\* A new run of openSession leaves the adapter without a session.
LEMMA OpenSessionSettles ==
  ASSUME NEW a, Shape(a, opens), page' \in Page, Believes(a, page'),
         NEW why \in {"reconnect", "retry"}, OpenSession(a, why, "none")
  PROVE  Settled
<1> DEFINE x == [NotOpened EXCEPT !.step = IssueClientSecret(a, page), !.why = why,
                                  !.then = "none"]
<1>1. x \in Open /\ ~x.mic
  BY DEF NotOpened, Open, Steps, IssueClientSecret
<1>2. opens' = [Closed(opens, a.session) EXCEPT ![Min(Unused)] = x]
      /\ adapter' = [a EXCEPT !.session = 0]
  BY DEF OpenSession
<1> HIDE DEF x
<1>3. GoodOpens(opens')
  BY <1>1, <1>2, OpensFacts, BeginsFacts DEF Shape
<1>4. adapter' \in Adapter /\ adapter'.session = 0 /\ Believes(adapter', page')
  BY <1>2 DEF Shape, Adapter, Believes
<1> QED
  BY <1>3, <1>4, SilentIsSound DEF Settled

\* The present adapter is kept, or another one takes its place.
LEMMA EnsureSettles ==
  ASSUME VInv, NEW path \in Paths, NEW audio \in BOOLEAN,
         NEW then \in {"none", "listen", "maintain"}, Ensure(path, audio, then)
  PROVE  Settled /\ Advance(tool, tool')
<1>1. CASE Keyed(adapter, page, path, audio) /\ then = "none"
  BY <1>1, Unchanged DEF Ensure, VInv, Settled
<1>2. CASE Keyed(adapter, page, path, audio) /\ then # "none"
  <2>1. Bound(adapter, page) /\ Listening(adapter, page) /\ opens' = Heard(opens, adapter)
        /\ tool' = tool
    BY <1>2 DEF Ensure, Keyed
  <2> QED
    BY <2>1, Unchanged, ListeningSettles DEF VInv, Sound
<1>3. CASE ~Keyed(adapter, page, path, audio)
  <2> DEFINE x == [NotOpened EXCEPT !.step = "credential", !.why = "connect", !.then = then]
  <2>1. /\ adapter' = NewAdapter(page, path, audio) /\ page' = page
        /\ tool' = FinishPendingActions(tool)
        /\ opens' = [Released EXCEPT ![Min(Unused)] = x]
    BY <1>3 DEF Ensure
  <2>2. x \in Open /\ ~x.mic
    BY DEF NotOpened, Open, Steps
  <2> HIDE DEF x
  <2>3. GoodOpens(opens')
    BY <2>1, <2>2, ReleaseSettles, BeginsFacts DEF VInv, Sound
  <2> QED
    BY <2>1, <2>3, NewAdapterFacts, SilentIsSound, FinishAdvances DEF VInv, Sound, Settled
<1> QED
  BY <1>1, <1>2, <1>3

-----------------------------------------------------------------------------
(* The steps.                                                              *)

Keeps == VInv' /\ Follow(tool, tool')

\* A step is judged by its session and its tools apart.
LEMMA Both == Settled /\ Advance(tool, tool') => Keeps
BY DEF Settled, Advance, GoodTools, VInv, Keeps, Sound, Shape, GoodOpens, HasSession, Believes,
       Hears

\* What the invariant says first.
LEMMA Now ==
  ASSUME VInv
  PROVE  /\ page \in Page /\ adapter \in Adapter /\ GoodOpens(opens) /\ HasSession(adapter, opens)
         /\ Believes(adapter, page) /\ Hears(adapter, opens) /\ GoodTools(tool)
         /\ Shape(adapter, opens)
BY DEF VInv, Sound, Shape

\* A step that changes nothing the indicator or the session depends on.
LEMMA SameIndicator ==
  ASSUME VInv, NEW p \in Page, p.capture = page.capture, NEW a \in Adapter,
         a.session = adapter.session, a.inputMuted = adapter.inputMuted,
         adapter.deaf => a.deaf
  PROVE  Sound(p, a, opens)
BY DEF VInv, Sound, Shape, HasSession, Believes, Hears

\* The page moves on: the session goes on as it was.
LEMMA MovedFacts ==
  ASSUME NEW a \in Adapter
  PROVE  /\ Moved(a) \in Adapter /\ Moved(a).session = a.session
         /\ Moved(a).inputMuted = a.inputMuted /\ Moved(a).deaf = a.deaf
BY DEF Moved, Adapter

\* Going to another question leaves indicator and session alone.
LEMMA VisitSettles ==
  ASSUME VInv, Visit, opens' = opens
  PROVE  Settled
<1>1. page' \in Page /\ page'.capture = page.capture
  BY Now, ConstantFacts DEF Visit, Page
<1> QED
  BY <1>1, Now, MovedFacts, SameIndicator DEF Visit, Settled

\* The student's buttons.
LEMMA StudentStep == VInv /\ Student => Keeps
<1> SUFFICES ASSUME VInv, Student PROVE Settled /\ Advance(tool, tool')
  BY Both
<1>1. ASSUME NEW path \in Paths, BeginVoice(path) PROVE Settled /\ Advance(tool, tool')
  BY <1>1, EnsureSettles DEF BeginVoice
<1>2. CASE StopVoice
  <2> DEFINE p == IF Bound(adapter, page) THEN VoiceReady(page) ELSE page
  <2>1. page' \in Page
    <3>1. p \in Page
      BY Now, EventFacts
    <3> QED
      BY <1>2, <3>1, EventFacts DEF StopVoice
  <2>2. adapter' \in Adapter /\ adapter'.inputMuted /\ adapter'.session = adapter.session
        /\ opens' = Muted(opens, adapter) /\ tool' = tool
    BY <1>2, Now DEF StopVoice, Adapter
  <2>3. GoodOpens(opens') /\ HasSession(adapter, opens')
        /\ (adapter.session # 0 => ~opens'[adapter.session].mic)
    BY <2>2, Now, OpensFacts
  <2>4. Settled
    BY <2>1, <2>2, <2>3 DEF Settled, Sound, Shape, HasSession, Believes, Hears
  <2> QED
    BY <2>2, <2>4, Now, Unchanged
<1>3. ASSUME NEW path \in Paths, RetryVoice(path) PROVE Settled /\ Advance(tool, tool')
  <2>1. page' \in Page /\ page'.capture = page.capture
    BY <1>3, Now, EventFacts DEF RetryVoice
  <2>2. CASE adapter.made /\ Connectable(adapter)
    <3> DEFINE a == [adapter EXCEPT !.reconnectUsed = FALSE]
    <3>1. a \in Adapter /\ a.session = adapter.session /\ a.inputMuted = adapter.inputMuted
          /\ a.deaf = adapter.deaf
      BY Now DEF Adapter
    <3>2. OpenSession(a, "retry", "none") /\ tool' = FinishPendingActions(tool)
      BY <1>3, <2>2 DEF RetryVoice, Retry, OpenSession
    <3> HIDE DEF a
    <3>3. Shape(a, opens) /\ Believes(a, page')
      BY <2>1, <3>1, Now DEF Shape, HasSession, Believes
    <3> QED
      BY <2>1, <3>2, <3>3, Now, OpenSessionSettles, FinishAdvances
  <2>3. CASE adapter.made /\ ~Connectable(adapter)
    BY <1>3, <2>1, <2>3, Now, SameIndicator, Unchanged DEF RetryVoice, Settled
  <2>4. CASE ~adapter.made
    <3> DEFINE x == [NotOpened EXCEPT !.step = "credential", !.why = "connect"]
    <3>1. adapter' = NewAdapter(page, path, TRUE) /\ tool' = tool
          /\ opens' = [opens EXCEPT ![Min(Unused)] = x]
      BY <1>3, <2>4 DEF RetryVoice
    <3>2. x \in Open /\ ~x.mic
      BY DEF NotOpened, Open, Steps
    <3> HIDE DEF x
    <3>3. GoodOpens(opens')
      BY <3>1, <3>2, Now, BeginsFacts
    <3>4. adapter' \in Adapter /\ adapter'.session = 0 /\ Believes(adapter', page')
      BY <2>1, <3>1, Now, NewAdapterFacts DEF Believes
    <3> QED
      BY <2>1, <3>1, <3>3, <3>4, Now, SilentIsSound, Unchanged DEF Settled
  <2> QED
    BY <2>2, <2>3, <2>4
<1>4. CASE ContinueByTyping
  BY <1>4, Now, EventFacts, SameIndicator, Unchanged DEF ContinueByTyping, Settled
<1>5. CASE HearExact
  <2>1. adapter' \in Adapter /\ adapter'.session = 0 /\ adapter'.inputMuted
    <3>1. page.visit \in Nat
      BY Now, ConstantFacts DEF Page
    <3> QED
      BY <1>5, <3>1, ConstantFacts DEF HearExact, BareAdapter, NoAdapter, Adapter
  <2> QED
    BY <1>5, <2>1, Now, SilentIsSound, Unchanged DEF HearExact, Believes, Settled
<1>6. CASE TypedTurn
  <2>1. (adapter.made /\ adapter.audio) \in BOOLEAN
    BY Now DEF Adapter
  <2>2. "conversation" \in Paths
    BY DEF Paths
  <2> QED
    BY <1>6, <2>1, <2>2, EnsureSettles DEF TypedTurn
<1>7. CASE Edit
  BY <1>7, Now, MovedFacts, SameIndicator, Unchanged DEF Edit, Settled
<1>8. CASE GoToQuestion
  BY <1>8, Now, VisitSettles, Unchanged DEF GoToQuestion
<1>9. CASE TypedEvidence
  BY <1>9, EnsureSettles DEF TypedEvidence, Paths
<1> QED
  BY <1>1, <1>2, <1>3, <1>4, <1>5, <1>6, <1>7, <1>8, <1>9 DEF Student

\* The effects of the page.
LEMMA EffectStep == VInv /\ Effect => Keeps
<1> SUFFICES ASSUME VInv, Effect PROVE Settled /\ Advance(tool, tool')
  BY Both
<1>1. CASE LeaveQuestion
  BY <1>1, Now, ReleaseSettles, FinishAdvances DEF LeaveQuestion, Release, Settled
<1>2. CASE MaintainCapture
  BY <1>2, EnsureSettles DEF MaintainCapture, Paths
<1>3. CASE UpdateApplicationState
  <2>1. CASE adapter' = [adapter EXCEPT !.told = TRUE] /\ UNCHANGED page
    <3>1. adapter' \in Adapter /\ adapter'.session = adapter.session
          /\ adapter'.inputMuted = adapter.inputMuted /\ adapter'.deaf = adapter.deaf
      BY <2>1, Now DEF Adapter
    <3> QED
      BY <1>3, <2>1, <3>1, Now, SameIndicator, Unchanged DEF UpdateApplicationState, Settled
  <2>2. CASE /\ adapter' = [adapter EXCEPT !.told = TRUE, !.deaf = TRUE]
             /\ page' = VoiceDisconnected(page)
    <3>1. adapter' \in Adapter /\ adapter'.session = adapter.session
          /\ adapter'.inputMuted = adapter.inputMuted /\ adapter'.deaf
      BY <2>2, Now DEF Adapter
    <3>2. page' \in Page /\ opens' = opens /\ tool' = tool
      BY <1>3, <2>2, Now, EventFacts DEF UpdateApplicationState
    <3>3. Settled
      BY <3>1, <3>2, Now DEF Settled, Sound, Shape, HasSession, Believes, Hears
    <3> QED
      BY <3>2, <3>3, Now, Unchanged
  <2> QED
    BY <1>3, <2>1, <2>2 DEF UpdateApplicationState
<1> QED
  BY <1>1, <1>2, <1>3 DEF Effect

\* The speech service.
LEMMA SessionStep == VInv /\ Session => Keeps
<1> SUFFICES ASSUME VInv, Session PROVE Settled /\ Advance(tool, tool')
  BY Both
<1>1. ASSUME NEW i \in DOMAIN opens, CredentialArrives(i) PROVE Settled /\ tool' = tool
  <2>1. i \in 1..MaxOpens /\ opens[i].step = "credential" /\ ~opens[i].mic
    BY <1>1, Now DEF CredentialArrives, GoodOpens
  <2>2. GoodOpens(opens') /\ opens'[i].step = "connecting" /\ ~opens'[i].mic
    BY <1>1, <2>1, Now DEF CredentialArrives, GoodOpens, Open, Steps
  <2>3. adapter' \in Adapter /\ adapter'.session = i /\ adapter'.inputMuted = adapter.inputMuted
        /\ adapter'.deaf = adapter.deaf
    BY <1>1, <2>1, Now, ConstantFacts DEF CredentialArrives, Adapter
  <2> QED
    BY <1>1, <2>1, <2>2, <2>3, Now
    DEF CredentialArrives, Settled, Sound, Shape, HasSession, Believes, Hears
<1>2. ASSUME NEW i \in DOMAIN opens, OpenFails(i) PROVE Settled /\ Advance(tool, tool')
  <2> DEFINE a == [adapter EXCEPT !.session = 0,
                     !.reconnecting = IF opens[i].why = "reconnect" THEN FALSE ELSE @]
             o == Ended(Closed(opens, adapter.session), i, "over")
  <2>1. CASE opens[i].why = "connect"
    <3>1. page' \in {page, VoiceDisconnected(page)} /\ Release
      BY <1>2, <2>1 DEF OpenFails
    <3> QED
      BY <3>1, Now, EventFacts, ReleaseSettles, FinishAdvances DEF Release, Settled
  <2>2. CASE opens[i].why # "connect"
    <3>1. PageError(a, o, page) /\ tool' = tool
      BY <1>2, <2>2 DEF OpenFails
    <3>2. a \in Adapter /\ a.session = 0
      BY Now DEF Adapter
    <3>3. GoodOpens(o)
      <4>1. GoodOpens(Closed(opens, adapter.session))
        BY Now, OpensFacts
      <4> QED
        BY <4>1, <3>2, OpensFacts DEF HasSession
    <3> HIDE DEF a, o
    <3> QED
      BY <3>1, <3>2, <3>3, Now, PageErrorSettles, Unchanged DEF Shape, HasSession
  <2> QED
    BY <2>1, <2>2
<1>3. ASSUME NEW i \in DOMAIN opens, Connected(i) PROVE Settled /\ Advance(tool, tool')
  <2> DEFINE o == opens[i]
             mine == adapter.session = i
             a == [adapter EXCEPT !.reconnecting = IF o.why = "reconnect" THEN FALSE ELSE @]
             listens == /\ o.why = "connect" /\ Bound(a, page)
                        /\ o.then = "listen" \/ (o.then = "maintain" /\ page.capture = "active")
             x == [NotOpened EXCEPT !.step = "live", !.mic = ~(a.inputMuted)]
             live == IF mine THEN [opens EXCEPT ![i] = x] ELSE Ended(opens, i, "closed")
             told == IF mine /\ Bound(a, page) THEN VoiceReady(page) ELSE page
  <2>1. i \in 1..MaxOpens /\ o.step = "connecting"
    BY <1>3, Now DEF Connected, GoodOpens
  <2>2. a \in Adapter /\ a.session = adapter.session /\ a.inputMuted = adapter.inputMuted
        /\ a.deaf = adapter.deaf /\ a.made = adapter.made /\ a.visit = adapter.visit
        /\ a.version = adapter.version
    BY Now DEF Adapter
  <2>3. told \in Page /\ told.capture = page.capture
    BY Now, EventFacts
  <2>4. GoodOpens(live) /\ HasSession(a, live) /\ Hears(a, live)
    <3>1. CASE mine
      <4>1. (~(a.inputMuted)) \in BOOLEAN
        OBVIOUS
      <4>2. x \in Open /\ x.step = "live" /\ x.mic = ~(a.inputMuted)
        BY <4>1 DEF NotOpened, Open, Steps
      <4> HIDE DEF x, a
      <4> QED
        BY <2>1, <2>2, <3>1, <4>2, Now DEF GoodOpens, HasSession, Hears
    <3>2. CASE ~mine
      <4>1. HasSession(a, opens) /\ Hears(a, opens)
        BY <2>2, Now DEF HasSession, Hears
      <4> HIDE DEF a
      <4> QED
        BY <2>2, <3>2, <4>1, Now, OpensFacts
    <3> QED
      BY <3>1, <3>2
  <2>5. CASE o.why = "connect" /\ ~Bound(a, page)
    <3>1. Release /\ page' = page
      BY <1>3, <2>5 DEF Connected
    <3> QED
      BY <3>1, Now, ReleaseSettles, FinishAdvances DEF Release, Settled
  <2>6. CASE ~(o.why = "connect" /\ ~Bound(a, page)) /\ listens
    <3>1. Listening(a, told) /\ opens' = Heard(live, a) /\ tool' = tool
      BY <1>3, <2>6 DEF Connected
    <3>2. Bound(a, told)
      BY <2>6, Now DEF Bound, VoiceReady, Page
    <3> HIDE DEF a, live, told
    <3> QED
      BY <2>2, <2>3, <2>4, <3>1, <3>2, Now, ListeningSettles, Unchanged DEF Shape
  <2>7. CASE ~(o.why = "connect" /\ ~Bound(a, page)) /\ ~listens
    <3>1. adapter' = a /\ page' = told /\ opens' = live /\ tool' = tool
      BY <1>3, <2>7 DEF Connected
    <3>2. Believes(a, told)
      BY <2>2, <2>3, Now DEF Believes
    <3> HIDE DEF a, live, told
    <3> QED
      BY <2>2, <2>3, <2>4, <3>1, <3>2, Now, Unchanged DEF Settled, Sound, Shape
  <2> QED
    BY <2>5, <2>6, <2>7
<1>4. ASSUME NEW denied \in BOOLEAN, ConnectionFails(denied) PROVE Settled /\ Advance(tool, tool')
  <2> DEFINE a == [adapter EXCEPT !.reconnectUsed = TRUE, !.reconnecting = TRUE]
  <2>1. CASE OpenSession(a, "reconnect", "none") /\ page' = page
    <3>1. a \in Adapter /\ a.session = adapter.session /\ a.inputMuted = adapter.inputMuted
          /\ a.deaf = adapter.deaf
      BY Now DEF Adapter
    <3>2. tool' = FinishPendingActions(tool)
      BY <2>1 DEF OpenSession
    <3> HIDE DEF a
    <3>3. Shape(a, opens) /\ Believes(a, page')
      BY <2>1, <3>1, Now DEF Shape, HasSession, Believes
    <3> QED
      BY <2>1, <3>2, <3>3, Now, OpenSessionSettles, FinishAdvances
  <2>2. CASE PageError(adapter, opens, page) /\ tool' = tool
    BY <2>2, Now, PageErrorSettles, Unchanged
  <2> QED
    BY <1>4, <2>1, <2>2 DEF ConnectionFails
<1>5. CASE SpeechStarted
  <2>1. page' \in Page /\ page'.capture = "active"
    BY <1>5, Now, EventFacts DEF SpeechStarted
  <2> QED
    BY <1>5, <2>1, Now, Unchanged DEF SpeechStarted, Settled, Sound, Believes
<1> QED
  BY <1>1, <1>2, <1>3, <1>4, <1>5, Now, Unchanged DEF Session

\* The tools.
LEMMA ToolsStep == VInv /\ Tools => Keeps
<1> SUFFICES ASSUME VInv, Tools PROVE Settled /\ Advance(tool, tool')
  BY Both
<1>1. tool \in [Calls -> Tool]
  BY Now DEF GoodTools
<1>2. ASSUME NEW c \in Calls, TimeOut(c) \/ Told(c) PROVE Settled /\ Advance(tool, tool')
  <2>1. PICK said \in {"accepted", "refused"} :
          /\ tool' = Says(tool, c, said)
          /\ said \in Promise!Follows(StatusOf(tool[c]))
    <3>1. CASE TimeOut(c)
      BY <3>1 DEF TimeOut, StatusOf, Promise!Follows
    <3>2. CASE Told(c)
      <4>1. tool[c].st = "telling" /\ tool[c] \in Tool /\ Truthful(tool[c])
        BY <1>1, <3>2, Now DEF Told, GoodTools
      <4>2. "refused" \in Promise!Follows(StatusOf(tool[c]))
        BY <4>1 DEF StatusOf, Promise!Follows
      <4>3. tool[c].said \in {"accepted", "refused"}
        BY <4>1 DEF Truthful, Tool
      <4>4. tool[c].said = "accepted" => "accepted" \in Promise!Follows(StatusOf(tool[c]))
        BY <4>1 DEF Truthful, StatusOf, Promise!Follows
      <4> QED
        BY <3>2, <4>2, <4>3, <4>4 DEF Told
    <3> QED
      BY <1>2, <3>1, <3>2
  <2> DEFINE x == [NoTool EXCEPT !.st = "answered", !.said = said]
  <2>2. x \in Tool /\ Truthful(x) /\ ~Navigating(x) /\ StatusOf(x) = said
    BY DEF NoTool, Tool, Truthful, Navigating, StatusOf
  <2>3. tool' = [tool EXCEPT ![c] = x]
    BY <2>1 DEF Says
  <2> HIDE DEF x
  <2>4. Advance(tool, tool')
    BY <2>1, <2>2, <2>3, Now, OneAdvances
  <2> QED
    BY <1>2, <2>4, Now, SameIndicator DEF TimeOut, Told, Settled
<1>3. ASSUME NEW c \in {d \in Calls : tool[d].st = "idle"},
             NEW kind \in {"candidate", "ask", "navigate"}, CallTool(c, kind)
      PROVE  Settled /\ Advance(tool, tool')
  <2>1. Advance(tool, tool')
    <3>1. tool' \in {Pend(tool, c, kind),
                     CompleteAction(Pend(tool, c, kind), c, "refused"),
                     CompleteAction(CarriedOut(Pend(tool, c, kind), c), c, "accepted")}
      BY <1>3 DEF CallTool
    <3> QED
      BY <3>1, Now, CallAdvances
  <2>2. \/ page' = page /\ adapter' = adapter
        \/ page' = [page EXCEPT !.work = c] /\ adapter' = adapter
        \/ Visit
    BY <1>3 DEF CallTool
  <2>3. opens' = opens
    BY <1>3 DEF CallTool
  <2>4. [page EXCEPT !.work = c] \in Page /\ [page EXCEPT !.work = c].capture = page.capture
    BY Now DEF Page
  <2> QED
    BY <2>1, <2>2, <2>3, <2>4, Now, SameIndicator, VisitSettles DEF Settled
<1>4. ASSUME NEW done \in BOOLEAN, NEW stored \in BOOLEAN, WorkEnds(done, stored)
      PROVE  Settled /\ Advance(tool, tool')
  <2>1. page.work \in Calls
    BY <1>4, Now DEF WorkEnds, Page
  <2>2. Advance(tool, tool')
    BY <1>4, <2>1, Now, CompleteAdvances DEF WorkEnds
  <2>3. page' \in Page /\ page'.capture = page.capture
    <3> DEFINE n == IF stored THEN page.version + 1 ELSE page.version
    <3>1. n \in 1..MaxVersion
      BY <1>4, Now, ConstantFacts DEF WorkEnds, Page
    <3>2. page' = [page EXCEPT !.work = NoCall, !.version = n]
      BY <1>4, Now DEF WorkEnds, Page
    <3> HIDE DEF n
    <3> QED
      BY <3>1, <3>2, Now DEF Page
  <2>4. adapter' \in {adapter, Moved(adapter)} /\ opens' = opens
    BY <1>4 DEF WorkEnds
  <2> QED
    BY <2>2, <2>3, <2>4, Now, MovedFacts, SameIndicator DEF Settled
<1>5. ASSUME NEW c \in {d \in Calls : tool[d].st = "idle"}, CallStray(c)
      PROVE  Settled /\ Advance(tool, tool')
  <2>1. tool' = Pend(tool, c, "stray") /\ page' = page /\ adapter' = adapter /\ opens' = opens
    BY <1>5 DEF CallStray
  <2>2. Advance(tool, tool')
    BY <2>1, Now, CallAdvances
  <2> QED
    BY <2>1, <2>2, Now, SameIndicator DEF Settled
<1> QED
  BY <1>2, <1>3, <1>4, <1>5 DEF Tools

\* Every step keeps the invariant and the promise.
LEMMA StepVInv == VInv /\ [Next]_vars => Keeps
<1>1. VInv /\ UNCHANGED vars => Keeps
  BY Now, Unchanged, Both DEF vars, VInv, Settled
<1> QED
  BY <1>1, StudentStep, EffectStep, SessionStep, ToolsStep DEF Next

-----------------------------------------------------------------------------
(* The theorems.                                                           *)

\* Nothing is open and nothing was called at the start.
LEMMA InitVInv == Init => VInv
<1> SUFFICES ASSUME Init PROVE VInv
  OBVIOUS
<1>1. page \in Page /\ adapter \in Adapter /\ GoodOpens(opens) /\ adapter.session = 0
  BY ConstantFacts DEF Init, FirstPage, Page, GoodOpens
<1>2. GoodTools(tool)
  BY DEF Init, GoodTools, NoTool, Tool, Truthful, Navigating
<1> QED
  BY <1>1, <1>2, ConstantFacts, SilentIsSound DEF Init, VInv, Believes

\* The invariant holds of every order of buttons, effects, sessions and tools.
THEOREM Invariance == Spec => []VInv
<1>1. VInv /\ [Next]_vars => VInv'
  BY StepVInv DEF Keeps
<1> QED
  BY InitVInv, <1>1, PTL DEF Spec

\* A paused indicator means that the adapter's session does not hear, unless an
\* update of its instructions failed, with any number of overlapping runs of
\* openSession.
THEOREM PausedIsSilent == Spec => []SilentWhenPaused
<1>1. VInv => SilentWhenPaused
  BY DEF VInv, Sound, Believes, Hears, SilentWhenPaused
<1> QED
  BY <1>1, Invariance, PTL

\* Every variable has its shape; the adapter's session is one it is opening or has
\* open; of the navigations the model asks for at most one is pending.
THEOREM VoiceTypes == Spec => []TypeOK
<1>1. ASSUME VInv PROVE TypeOK
  <2>1. /\ page.visit \in 1..MaxVisits /\ page.version \in 1..MaxVersion
        /\ page.capture \in {"active", "paused"} /\ page.voice \in {"ready", "failed"}
        /\ page.work \in Calls \cup {NoCall}
    BY <1>1, Now DEF Page
  <2>2. /\ adapter.session \in DOMAIN opens \cup {0}
        /\ adapter.session # 0 => opens[adapter.session].step \in {"connecting", "live"}
        /\ \A i \in DOMAIN opens : opens[i].mic => opens[i].step \in {"live", "stray"}
    BY <1>1, Now DEF GoodOpens, HasSession
  <2>3. \A c \in Calls : tool[c].st \in {"idle", "pending", "telling", "answered"}
    BY <1>1, Now DEF GoodTools, Tool
  <2> DEFINE N == {c \in Calls : tool[c].st = "pending" /\ tool[c].kind = "navigate"}
  <2>4. Cardinality(N) <= 1
    <3>1. CASE N = {}
      BY <3>1, FS_EmptySet
    <3>2. CASE N # {}
      <4>1. PICK c \in N : TRUE
        BY <3>2
      <4>2. N = {c}
        BY <1>1, <4>1, Now DEF GoodTools, Navigating
      <4> HIDE DEF N
      <4>3. Cardinality({c}) = 1
        BY FS_Singleton
      <4> QED
        BY <4>2, <4>3
    <3> QED
      BY <3>1, <3>2
  <2> QED
    BY <2>1, <2>2, <2>3, <2>4 DEF TypeOK
<1> QED
  BY <1>1, Invariance, PTL

\* The safety part of AnswersTools: the adapter and the page implement ToolCalls.
\* Each call of the model gets one answer, and "Accepted" only for what the page
\* carried out, however sessions are replaced and the page moves on.
THEOREM ToolsAsPromised ==
  Spec => Promise!Init /\ [][Promise!Next]_[c \in Calls |-> StatusOf(tool[c])]
<1>1. Init => Promise!Init
  BY DEF Init, Promise!Init, NoTool, StatusOf
<1>2. ASSUME VInv, VInv', Follow(tool, tool')
      PROVE  Promise!Next
  <2>1. \A c \in Calls : StatusOf(tool'[c]) \in Promise!Statuses
    <3> SUFFICES ASSUME NEW c \in Calls PROVE StatusOf(tool'[c]) \in Promise!Statuses
      OBVIOUS
    <3>1. tool'[c] \in Tool /\ Truthful(tool'[c])
      BY <1>2 DEF VInv, GoodTools
    <3> QED
      BY <3>1 DEF Tool, Truthful, StatusOf, Promise!Statuses
  <2> QED
    BY <2>1, <1>2 DEF Promise!Next, Follow
<1>3. VInv /\ [Next]_vars => [Promise!Next]_[c \in Calls |-> StatusOf(tool[c])]
  BY <1>2, StepVInv DEF Keeps
<1> QED
  BY <1>1, <1>3, Invariance, PTL DEF Spec
=============================================================================
