---------------------- MODULE PrototypeWorkspace_proofs ----------------------
(***************************************************************************)
(* Every answer of the first version was sent to review from its question  *)
(* and confirmed, for every number of questions, uploads and plans and     *)
(* every set of texts.                                                     *)
(***************************************************************************)
EXTENDS PrototypeWorkspace, TLAPS

-----------------------------------------------------------------------------
(* The inductive invariant.                                                *)

Wordings == Texts \cup {NoText}
Answers  == [Questions -> Wordings]
Answer   == [q : Questions \cup {0}, text : Wordings]

Early == {"upload", "analyzing", "unsupported"}

Upload == [st : {"none", "sent", "ok", "failed", "over"}, sid : Nat]

Call == [st : {"none", "sent", "ok", "failed"}, sid : Nat, q : Questions \cup {0},
         text : Wordings, tok : Nat, got : Answers]

PagePlan == [q : Questions \cup {0}, text : Wordings, tok : Nat]

Page0 == [at : Early \cup {"working", "review", "committing", "committed", "exporting",
                           "complete"},
          id : Uploads \cup {0}, q : Questions, draft : Wordings, plan : PagePlan,
          answers : Answers]

Typed ==
  /\ answers \in [Uploads -> Answers]
  /\ owner \in [Uploads -> Nat] /\ sessions \subseteq Nat /\ cookie \in Nat
  /\ plans \in Seq(Answer)
  /\ page \in Page0
  /\ loads \in [Uploads -> Upload]
  /\ calls \in [Kinds -> Call]
  /\ file \in Answers

\* Nothing else is asked for before the page has an assignment, and the upload it
\* came with is over: a server that was restarted stays without it.
LoadedOnce ==
  /\ page.at \in Early <=> page.id = 0
  /\ page.id = 0 => page.plan = NoPlan /\ \A kind \in Kinds : calls[kind] = NoCall
  /\ page.id # 0 => loads[page.id].st = "over"

Kept      == page.id # 0 /\ owner[page.id] # 0
IsPlan(x) == x.tok \in DOMAIN plans /\ plans[x.tok] = [q |-> x.q, text |-> x.text]

\* While the server has the page's assignment, a token stands for the plan it came
\* with.
TokensAreTrue ==
  Kept => /\ page.plan # NoPlan => IsPlan(page.plan)
          /\ calls["plan"].st = "ok" => IsPlan(calls["plan"])
          /\ calls["commit"].st = "sent" =>
               /\ calls["commit"].tok \in DOMAIN plans
               /\ WasReviewed(plans[calls["commit"].tok].q, plans[calls["commit"].tok].text)

WasAsked(x) == [q |-> x.q, text |-> x.text] \in asked

\* A plan is of wording that Review was pressed on.
PlansWereAsked ==
  /\ calls["plan"].st \in {"sent", "ok"} => WasAsked(calls["plan"])
  /\ page.plan # NoPlan => WasAsked(page.plan)

AllReviewed(a) == \A q \in Questions : a[q] # NoText => WasReviewed(q, a[q])
Complete(a)    == \A q \in Questions : WasReviewed(q, a[q])

\* Answers were reviewed wherever they are, also in replies under way.
OnlyReviewed ==
  /\ \A i \in Uploads : AllReviewed(answers[i])
  /\ AllReviewed(page.answers) /\ AllReviewed(calls["commit"].got)
  /\ calls["export"].st = "ok" => Complete(calls["export"].got)
  /\ file # NoAnswers \/ page.at = "complete" => Complete(file)

IInv == Typed /\ LoadedOnce /\ TokensAreTrue /\ PlansWereAsked /\ OnlyReviewed

\* The empty values have their types, and no answer is one that was not reviewed.
LEMMA Empty ==
  /\ NoAnswers \in Answers /\ NoText \in Wordings /\ NoPlan \in PagePlan /\ NoCall \in Call
  /\ NoLoad \in Upload /\ 1 \in Questions
  /\ NoCall.got = NoAnswers /\ NoCall.st = "none" /\ AllReviewed(NoAnswers)
<1>1. NoAnswers \in Answers /\ NoText \in Wordings /\ AllReviewed(NoAnswers)
  BY DEF NoAnswers, Answers, Wordings, AllReviewed
<1>2. NoPlan \in PagePlan /\ NoLoad \in Upload
  BY <1>1 DEF NoPlan, PagePlan, NoLoad, Upload
<1>3. NoCall \in Call /\ NoCall.got = NoAnswers /\ NoCall.st = "none"
  BY <1>1 DEF NoCall, Call
<1>4. 1 \in Questions
  BY PrototypeAssumption DEF Questions
<1> QED
  BY <1>1, <1>2, <1>3, <1>4

\* A page that was just opened asks for nothing and shows no answer.
LEMMA InitIInv == Init => IInv
<1> SUFFICES ASSUME Init PROVE IInv
  OBVIOUS
<1>1. Typed
  <2>1. NewPage \in Page0 /\ NewPage.answers = NoAnswers
    BY Empty DEF NewPage, Page0, Early
  <2>2. calls \in [Kinds -> Call] /\ loads \in [Uploads -> Upload]
    BY Empty DEF Init
  <2>3. answers \in [Uploads -> Answers] /\ owner \in [Uploads -> Nat]
    BY Empty DEF Init, Untouched, NoOwners
  <2>4. plans \in Seq(Answer) /\ sessions \subseteq Nat /\ cookie \in Nat
    BY DEF Init
  <2> QED
    BY <2>1, <2>2, <2>3, <2>4, Empty DEF Init, Typed
<1>2. LoadedOnce /\ TokensAreTrue /\ PlansWereAsked
  BY Empty DEF Init, LoadedOnce, TokensAreTrue, Kept, PlansWereAsked, NewPage, Early, Kinds
<1>3. OnlyReviewed
  BY Empty DEF Init, OnlyReviewed, NewPage, Kinds, Untouched
<1> QED
  BY <1>1, <1>2, <1>3 DEF IInv

-----------------------------------------------------------------------------
(* Facts the steps share.                                                  *)

\* Nothing but the draft, the question and the state of the page is new, or the plan
\* is gone.
StaysWith(r, p) ==
  /\ r \in Page0 /\ r.plan \in {p.plan, NoPlan} /\ r.answers = p.answers /\ r.id = p.id
  /\ r.at \in Early <=> p.at \in Early
  /\ r.at = "complete" => p.at = "complete"

\* Events of the statechart that bring no plan and no answers.
LEMMA ChartFacts ==
  ASSUME NEW p \in Page0, NEW text \in Wordings
  PROVE  /\ StaysWith(DraftChanged(p, text), p) /\ StaysWith(EditAnswer(p), p)
         /\ StaysWith(Next1(p), p) /\ StaysWith(Review(p), p) /\ StaysWith(Commit(p), p)
         /\ StaysWith(Export(p), p) /\ StaysWith(Failed(p), p) /\ StaysWith(LoadWorksheet(p), p)
<1>1. NoPlan \in PagePlan /\ NoText \in Wordings /\ p.plan.text \in Wordings
  BY Empty DEF PagePlan, Page0
<1>2. StaysWith(DraftChanged(p, text), p)
  BY <1>1 DEF StaysWith, Page0, DraftChanged, Early
<1>3. StaysWith(EditAnswer(p), p)
  <2>1. CASE p.at = "review"
    BY <1>1, <2>1 DEF StaysWith, Page0, EditAnswer, Early
  <2>2. CASE p.at = "committed"
    BY <1>1, <2>2 DEF StaysWith, Page0, EditAnswer, Early
  <2> QED
    BY <1>1, <2>1, <2>2 DEF StaysWith, Page0, EditAnswer, Early
<1>4. StaysWith(Next1(p), p)
  <2>1. CASE p.at = "working"
    BY <1>1, <2>1 DEF StaysWith, Page0, Next1, Early
  <2>2. CASE p.at = "committed"
    BY <1>1, <2>2 DEF StaysWith, Page0, Next1, Early
  <2> QED
    BY <1>1, <2>1, <2>2 DEF StaysWith, Page0, Next1, Early
<1>5. StaysWith(Review(p), p) /\ StaysWith(Commit(p), p) /\ StaysWith(Export(p), p)
  BY <1>1 DEF StaysWith, Page0, Review, Commit, Export, Early
<1>6. StaysWith(Failed(p), p) /\ StaysWith(LoadWorksheet(p), p)
  BY DEF StaysWith, Page0, Failed, LoadWorksheet, Early
<1> QED
  BY <1>2, <1>3, <1>4, <1>5, <1>6

\* Going to another question brings nothing either.
LEMMA QuestionFacts ==
  ASSUME NEW p \in Page0, NEW r, StaysWith(r, p), NEW q \in Questions
  PROVE  StaysWith([r EXCEPT !.q = q], p)
BY DEF StaysWith, Page0

\* What was reviewed stays reviewed.
PastStays == asked \subseteq asked' /\ approved \subseteq approved'

\* Answers that were reviewed stay so, wherever they were before the step.
LEMMA ReviewedStays ==
  ASSUME PastStays, NEW q, NEW text, WasReviewed(q, text) PROVE WasReviewed(q, text)'
BY DEF PastStays, WasReviewed

\* A step of the page that brings no plan and no answers, and asks at most for what
\* does not need them, keeps IInv.
LEMMA PageStep ==
  ASSUME IInv, StaysWith(page', page), PastStays,
         UNCHANGED <<server, calls, file>>,
         cookie' \in Nat, loads' \in [Uploads -> Upload],
         \A i \in Uploads : loads[i].st = "over" => loads'[i].st = "over"
  PROVE  IInv'
<1>1. Typed'
  BY DEF IInv, Typed, StaysWith, server
<1>2. LoadedOnce'
  <2>1. page \in Page0 /\ page' \in Page0
    BY DEF IInv, Typed, StaysWith
  <2> QED
    BY <2>1 DEF IInv, LoadedOnce, StaysWith, Page0
<1>3. TokensAreTrue'
  BY DEF IInv, TokensAreTrue, Kept, IsPlan, WasReviewed, StaysWith, server, PastStays
<1>4. PlansWereAsked'
  BY DEF IInv, PlansWereAsked, WasAsked, StaysWith, PastStays
<1>5. OnlyReviewed'
  BY DEF IInv, OnlyReviewed, StaysWith, AllReviewed, Complete, WasReviewed, server, PastStays
<1> QED
  BY <1>1, <1>2, <1>3, <1>4, <1>5 DEF IInv

\* A reply is what the server made of the request, or a failure.
LEMMA ReplyFacts ==
  ASSUME NEW kind \in Kinds, NEW r \in Call, calls \in [Kinds -> Call], Reply(kind, r)
  PROVE  /\ calls' \in [Kinds -> Call]
         /\ \A k \in Kinds \ {kind} : calls'[k] = calls[k]
         /\ \/ calls'[kind] = [r EXCEPT !.st = "ok"]
            \/ calls'[kind] = [NoCall EXCEPT !.st = "failed"]
<1>1. [r EXCEPT !.st = "ok"] \in Call /\ [NoCall EXCEPT !.st = "failed"] \in Call
  BY Empty DEF Call
<1> QED
  BY <1>1 DEF Reply

\* A call that is over leaves nothing to be taken.
LEMMA OverFacts ==
  ASSUME NEW kind \in Kinds, calls \in [Kinds -> Call], Over(kind)
  PROVE  /\ calls' \in [Kinds -> Call]
         /\ \A k \in Kinds \ {kind} : calls'[k] = calls[k]
         /\ calls'[kind] = NoCall
BY Empty DEF Over

\* A request that is sent carries what the page gives it.
LEMMA AskFacts ==
  ASSUME NEW kind \in Kinds, calls \in [Kinds -> Call], cookie \in Nat,
         NEW q \in Questions \cup {0}, NEW text \in Wordings, NEW tok \in Nat,
         Ask(kind, q, text, tok)
  PROVE  /\ calls' \in [Kinds -> Call]
         /\ \A k \in Kinds \ {kind} : calls'[k] = calls[k]
         /\ calls'[kind].st = "sent" /\ calls'[kind].tok = tok /\ calls'[kind].got = NoAnswers
         /\ calls'[kind].q = q /\ calls'[kind].text = text
<1> DEFINE c == [NoCall EXCEPT !.st = "sent", !.sid = cookie, !.q = q, !.text = text, !.tok = tok]
<1>1. c \in Call /\ c.st = "sent" /\ c.q = q /\ c.text = text /\ c.tok = tok /\ c.got = NoAnswers
  BY Empty DEF Call
<1> HIDE DEF c
<1>2. calls' = [calls EXCEPT ![kind] = c]
  BY DEF Ask, c
<1> QED
  BY <1>1, <1>2

\* A request under way: the page has its assignment.
LEMMA CallMeansLoaded ==
  ASSUME IInv, NEW kind \in Kinds, calls[kind].st # "none"
  PROVE  page.id # 0 /\ page.id \in Uploads /\ page.at \notin Early
BY Empty DEF IInv, Typed, LoadedOnce, Page0

-----------------------------------------------------------------------------
(* Steps of the server.                                                    *)

\* A server that has forgotten everything answers no request about a plan.
LEMMA RestartStep == ASSUME IInv, Restart PROVE IInv'
<1>1. answers' \in [Uploads -> Answers] /\ owner' \in [Uploads -> Nat] /\ plans' \in Seq(Answer)
  BY Empty DEF Restart, Untouched, NoOwners
<1>2. Typed'
  BY <1>1 DEF IInv, Typed, Restart, past
<1>3. LoadedOnce' /\ PlansWereAsked'
  BY DEF IInv, LoadedOnce, PlansWereAsked, WasAsked, Restart, past
<1>4. TokensAreTrue'
  <2>1. ~Kept'
    BY DEF Kept, Restart, NoOwners, IInv, Typed, Page0
  <2> QED
    BY <2>1 DEF TokensAreTrue
<1>5. OnlyReviewed'
  <2>1. \A i \in Uploads : answers'[i] = NoAnswers
    BY DEF Restart, Untouched
  <2> QED
    BY <2>1, Empty DEF IInv, OnlyReviewed, AllReviewed, Complete, WasReviewed, Restart, past
<1> QED
  BY <1>2, <1>3, <1>4, <1>5 DEF IInv

\* A refused request carries no answers.
LEMMA RefusedStep == ASSUME IInv, NEW kind \in Kinds, Refused(kind) PROVE IInv'
<1>1. [NoCall EXCEPT !.st = "failed"] \in Call
  BY Empty DEF Call
<1>2. /\ calls' \in [Kinds -> Call]
      /\ \A k \in Kinds \ {kind} : calls'[k] = calls[k]
      /\ calls'[kind].st = "failed" /\ calls'[kind].got = NoAnswers
      /\ UNCHANGED <<server, cookie, page, loads, past>>
  BY <1>1 DEF Refused, NoCall, IInv, Typed
<1>3. page.id # 0
  BY CallMeansLoaded DEF Refused, Sent
<1>4. Typed'
  BY <1>2 DEF IInv, Typed, server, past
<1>5. LoadedOnce'
  BY <1>2, <1>3 DEF IInv, LoadedOnce
<1>6. TokensAreTrue'
  BY <1>2 DEF IInv, TokensAreTrue, Kept, IsPlan, WasReviewed, Kinds, server, past
<1>7. PlansWereAsked'
  BY <1>2 DEF IInv, PlansWereAsked, WasAsked, Kinds, past
<1>8. OnlyReviewed'
  BY <1>2, Empty
  DEF IInv, OnlyReviewed, AllReviewed, Complete, WasReviewed, Kinds, server, past
<1> QED
  BY <1>4, <1>5, <1>6, <1>7, <1>8 DEF IInv

\* A new assignment is not the page's, which came with an upload that is over.
LEMMA ServeLoadStep == ASSUME IInv, NEW i \in Uploads, ServeLoad(i) PROVE IInv'
<1>1. /\ loads \in [Uploads -> Upload] /\ loads[i].st = "sent" /\ sessions \subseteq Nat
      /\ answers \in [Uploads -> Answers] /\ owner \in [Uploads -> Nat]
      /\ UNCHANGED <<plans, cookie, page, calls, past>>
  BY DEF IInv, Typed, ServeLoad
<1>2. i \in Nat
  BY DEF Uploads
<1>3. SessionFor(i) \in Nat
  BY <1>1, <1>2 DEF SessionFor, Upload
<1>4. PICK st \in {"ok", "failed"}, sid \in Nat : LoadReply(i, st, sid)
  BY <1>3 DEF ServeLoad
<1>5. /\ loads' \in [Uploads -> Upload]
      /\ \A j \in Uploads : loads[j].st = "over" => loads'[j] = loads[j]
  BY <1>1, <1>4 DEF LoadReply, Upload
<1>6. /\ answers' \in [Uploads -> Answers] /\ owner' \in [Uploads -> Nat]
      /\ sessions' \subseteq Nat
      /\ \A j \in Uploads : answers'[j] \in {answers[j], NoAnswers}
      /\ \A j \in Uploads \ {i} : owner'[j] = owner[j]
  BY <1>1, <1>3, Empty DEF ServeLoad, NewAssignment
<1>7. page.id # i
  <2>1. i # 0 /\ loads[i].st # "over"
    BY <1>1 DEF Uploads
  <2>2. page.id # 0 => loads[page.id].st = "over"
    BY DEF IInv, LoadedOnce
  <2> QED
    BY <2>1, <2>2
<1>8. Typed'
  BY <1>1, <1>5, <1>6 DEF IInv, Typed, past
<1>9. LoadedOnce' /\ PlansWereAsked'
  <2>1. page \in Page0
    BY DEF IInv, Typed
  <2> QED
    BY <1>1, <1>5, <2>1 DEF IInv, LoadedOnce, PlansWereAsked, WasAsked, Page0, past
<1>10. TokensAreTrue'
  <2>1. Kept' => Kept
    BY <1>1, <1>6, <1>7 DEF Kept, IInv, Typed, Page0
  <2> QED
    BY <1>1, <2>1 DEF IInv, TokensAreTrue, IsPlan, WasReviewed, past
<1>11. OnlyReviewed'
  BY <1>1, <1>6, Empty DEF IInv, OnlyReviewed, AllReviewed, Complete, WasReviewed, past
<1> QED
  BY <1>8, <1>9, <1>10, <1>11 DEF IInv

\* A plan is put at the end, so that a token keeps its plan.
LEMMA ServePlanStep == ASSUME IInv, ServePlan PROVE IInv'
<1> DEFINE c == calls["plan"]
           r == [c EXCEPT !.tok = Len(plans) + 1]
<1>1. calls \in [Kinds -> Call] /\ "plan" \in Kinds /\ c \in Call /\ c.st = "sent"
  BY DEF IInv, Typed, Kinds, ServePlan, Owned, Sent
<1>2. plans \in Seq(Answer)
  BY DEF IInv, Typed
<1>3. r \in Call /\ r.q = c.q /\ r.text = c.text /\ r.tok = Len(plans) + 1
  BY <1>1, <1>2 DEF Call
<1>4. /\ plans' = Append(plans, [q |-> c.q, text |-> c.text]) /\ Reply("plan", r)
      /\ UNCHANGED <<answers, owner, sessions, cookie, page, loads, past>>
  BY DEF ServePlan, Planned
<1> HIDE DEF r
<1>5. /\ calls' \in [Kinds -> Call]
      /\ \A k \in Kinds \ {"plan"} : calls'[k] = calls[k]
      /\ calls'["plan"] \in {[r EXCEPT !.st = "ok"], [NoCall EXCEPT !.st = "failed"]}
  BY <1>1, <1>3, <1>4, ReplyFacts
<1>6. [q |-> c.q, text |-> c.text] \in Answer
  BY <1>1 DEF Call, Answer
<1>7. /\ plans' \in Seq(Answer)
      /\ DOMAIN plans \subseteq DOMAIN plans'
      /\ \A i \in DOMAIN plans : plans'[i] = plans[i]
      /\ Len(plans) + 1 \in DOMAIN plans'
      /\ plans'[Len(plans) + 1] = [q |-> c.q, text |-> c.text]
  BY <1>2, <1>4, <1>6
<1>8. calls'["plan"].st = "ok" =>
        /\ calls'["plan"].tok = Len(plans) + 1
        /\ calls'["plan"].q = c.q /\ calls'["plan"].text = c.text
  BY <1>3, <1>5 DEF Call, NoCall
<1>9. calls'["plan"].st \in {"ok", "failed"}
  BY <1>3, <1>5, Empty DEF Call
<1>10. page.id # 0
  BY <1>1, CallMeansLoaded
<1>11. WasAsked(c)
  BY <1>1 DEF IInv, PlansWereAsked
<1> HIDE DEF c
<1>12. Typed'
  BY <1>4, <1>5, <1>7 DEF IInv, Typed, past
<1>13. LoadedOnce'
  BY <1>4, <1>10 DEF IInv, LoadedOnce
<1>14. TokensAreTrue'
  <2>1. Kept' => (page.plan # NoPlan => IsPlan(page.plan)')
    BY <1>4, <1>7 DEF IInv, TokensAreTrue, Kept, IsPlan
  <2>2. calls'["plan"].st = "ok" => IsPlan(calls["plan"])'
    BY <1>7, <1>8 DEF IsPlan
  <2>3. Kept' /\ calls'["commit"].st = "sent" =>
          /\ calls'["commit"].tok \in DOMAIN plans'
          /\ WasReviewed(plans[calls["commit"].tok].q, plans[calls["commit"].tok].text)'
    BY <1>4, <1>5, <1>7 DEF IInv, TokensAreTrue, Kept, Kinds, WasReviewed, past
  <2> QED
    BY <2>1, <2>2, <2>3, <1>4 DEF TokensAreTrue
<1>15. PlansWereAsked'
  BY <1>4, <1>8, <1>9, <1>11 DEF IInv, PlansWereAsked, WasAsked, past
<1>16. OnlyReviewed'
  BY <1>4, <1>5 DEF IInv, OnlyReviewed, AllReviewed, Complete, WasReviewed, Kinds, past
<1> QED
  BY <1>12, <1>13, <1>14, <1>15, <1>16 DEF IInv

\* What is committed is the plan of a token that was reviewed.
LEMMA ServeCommitStep == ASSUME IInv, ServeCommit PROVE IInv'
<1> DEFINE plan == plans[calls["commit"].tok]
           a    == [answers[page.id] EXCEPT ![plan.q] = plan.text]
           r    == [NoCall EXCEPT !.got = answers'[page.id]]
<1>1. calls \in [Kinds -> Call] /\ "commit" \in Kinds /\ calls["commit"].st = "sent"
  BY DEF IInv, Typed, Kinds, ServeCommit, Owned, Sent
<1>2. page.id \in Uploads /\ page.id # 0 /\ Kept
  BY <1>1, CallMeansLoaded DEF ServeCommit, Owned, Kept
<1>3. /\ plan \in Answer /\ WasReviewed(plan.q, plan.text)
      /\ answers' = [answers EXCEPT ![page.id] = a]
      /\ UNCHANGED <<owner, sessions, plans, cookie, page, loads, past>>
      /\ Reply("commit", r)
  <2>1. calls["commit"].tok \in DOMAIN plans /\ WasReviewed(plan.q, plan.text)
    BY <1>1, <1>2 DEF IInv, TokensAreTrue
  <2>2. ASSUME NEW S, plans \in Seq(S) PROVE plan \in S
    BY <2>1, <2>2
  <2>3. plan \in Answer
    BY <2>2 DEF IInv, Typed
  <2> QED
    BY <2>1, <2>3 DEF ServeCommit
<1>4. answers \in [Uploads -> Answers] /\ AllReviewed(answers[page.id])
  BY <1>2 DEF IInv, Typed, OnlyReviewed
<1> HIDE DEF plan
<1>5. a \in Answers /\ AllReviewed(a)
  BY <1>2, <1>3, <1>4 DEF Answers, Answer, AllReviewed
<1> HIDE DEF a
<1>6. /\ answers' \in [Uploads -> Answers] /\ answers'[page.id] = a
      /\ \A i \in Uploads : AllReviewed(answers'[i])
  BY <1>2, <1>3, <1>4, <1>5 DEF IInv, OnlyReviewed, AllReviewed
<1>7. r \in Call /\ r.got = a
  BY <1>5, <1>6, Empty DEF Call
<1> HIDE DEF r
<1>8. /\ calls' \in [Kinds -> Call]
      /\ \A k \in Kinds \ {"commit"} : calls'[k] = calls[k]
      /\ calls'["commit"] \in {[r EXCEPT !.st = "ok"], [NoCall EXCEPT !.st = "failed"]}
  BY <1>1, <1>3, <1>7, ReplyFacts
<1>9. calls'["commit"].st \in {"ok", "failed"} /\ calls'["commit"].got \in {a, NoAnswers}
  BY <1>7, <1>8, Empty DEF Call
<1>10. Typed'
  BY <1>3, <1>6, <1>8 DEF IInv, Typed, past
<1>11. LoadedOnce'
  BY <1>2, <1>3 DEF IInv, LoadedOnce
<1>12. TokensAreTrue' /\ PlansWereAsked'
  BY <1>3, <1>8, <1>9
  DEF IInv, TokensAreTrue, Kept, IsPlan, WasReviewed, PlansWereAsked, WasAsked, Kinds, past
<1>13. AllReviewed(calls'["commit"].got)
  BY <1>5, <1>9, Empty
<1>14. OnlyReviewed'
  BY <1>3, <1>6, <1>8, <1>13
  DEF IInv, OnlyReviewed, AllReviewed, Complete, WasReviewed, Kinds, past
<1> QED
  BY <1>10, <1>11, <1>12, <1>14 DEF IInv

\* An export needs an answer to every question, and they were reviewed.
LEMMA ServeExportStep == ASSUME IInv, ServeExport PROVE IInv'
<1> DEFINE r == [NoCall EXCEPT !.got = answers[page.id]]
<1>1. /\ calls \in [Kinds -> Call] /\ "export" \in Kinds /\ calls["export"].st = "sent"
      /\ page.id \in Uploads /\ page.id # 0
  BY CallMeansLoaded DEF IInv, Typed, Kinds, ServeExport, Owned, Sent
<1>2. r \in Call /\ r.got = answers[page.id]
  BY <1>1, Empty DEF IInv, Typed, Call
<1>3. Reply("export", r) /\ UNCHANGED <<server, cookie, page, loads, past>>
  BY DEF ServeExport
<1>4. Complete(answers[page.id])
  BY <1>1 DEF IInv, OnlyReviewed, AllReviewed, Complete, ServeExport, CanExport
<1> HIDE DEF r
<1>5. /\ calls' \in [Kinds -> Call]
      /\ \A k \in Kinds \ {"export"} : calls'[k] = calls[k]
      /\ calls'["export"] \in {[r EXCEPT !.st = "ok"], [NoCall EXCEPT !.st = "failed"]}
  BY <1>1, <1>2, <1>3, ReplyFacts
<1>6. calls'["export"].st = "ok" => calls'["export"].got = answers[page.id]
  BY <1>2, <1>5 DEF Call, NoCall
<1>7. Typed'
  BY <1>3, <1>5 DEF IInv, Typed, server, past
<1>8. LoadedOnce'
  BY <1>1, <1>3 DEF IInv, LoadedOnce
<1>9. TokensAreTrue' /\ PlansWereAsked'
  BY <1>3, <1>5
  DEF IInv, TokensAreTrue, Kept, IsPlan, WasReviewed, PlansWereAsked, WasAsked, Kinds,
      server, past
<1>10. OnlyReviewed'
  BY <1>3, <1>4, <1>5, <1>6
  DEF IInv, OnlyReviewed, AllReviewed, Complete, WasReviewed, Kinds, server, past
<1> QED
  BY <1>7, <1>8, <1>9, <1>10 DEF IInv

-----------------------------------------------------------------------------
(* Steps of the page.                                                      *)

\* A failure may move the page, but neither to the end nor to the beginning.
LEMMA TakeFailureStep == ASSUME IInv, NEW kind \in Kinds, TakeFailure(kind) PROVE IInv'
<1>1. /\ calls \in [Kinds -> Call] /\ calls[kind].st = "failed" /\ Over(kind)
      /\ page \in Page0 /\ page' = Failed(page) /\ NoText \in Wordings
      /\ UNCHANGED <<server, cookie, loads, past>>
  BY Empty DEF IInv, Typed, TakeFailure
<1>2. StaysWith(page', page)
  BY <1>1, ChartFacts
<1>3. /\ calls' \in [Kinds -> Call]
      /\ \A k \in Kinds \ {kind} : calls'[k] = calls[k]
      /\ calls'[kind] = NoCall
  BY <1>1, OverFacts
<1>4. page.id # 0 /\ page'.id # 0
  BY <1>1, <1>2, CallMeansLoaded DEF StaysWith
<1>5. Typed'
  BY <1>1, <1>2, <1>3 DEF IInv, Typed, StaysWith, server, past
<1>6. LoadedOnce'
  BY <1>1, <1>2, <1>4 DEF IInv, LoadedOnce, StaysWith
<1>7. TokensAreTrue' /\ PlansWereAsked'
  BY <1>1, <1>2, <1>3, Empty
  DEF IInv, TokensAreTrue, Kept, IsPlan, WasReviewed, PlansWereAsked, WasAsked, StaysWith, Kinds,
      server, past
<1>8. OnlyReviewed'
  BY <1>1, <1>2, <1>3, Empty
  DEF IInv, OnlyReviewed, AllReviewed, Complete, WasReviewed, StaysWith, Kinds, server, past
<1> QED
  BY <1>5, <1>6, <1>7, <1>8 DEF IInv

\* Asking moves neither answers nor plans; what a commit names was reviewed, and what
\* a plan is asked for is asked.
LEMMA AskStep ==
  ASSUME IInv, NEW kind \in Kinds,
         NEW q \in Questions \cup {0}, NEW text \in Wordings, NEW tok \in Nat,
         Ask(kind, q, text, tok), page.id # 0,
         StaysWith(page', page), PastStays,
         kind = "plan" => [q |-> q, text |-> text] \in asked',
         kind = "commit" /\ Kept =>
           tok \in DOMAIN plans /\ WasReviewed(plans[tok].q, plans[tok].text)',
         UNCHANGED <<server, cookie, loads, file>>
  PROVE  IInv'
<1>1. calls \in [Kinds -> Call] /\ cookie \in Nat
  BY DEF IInv, Typed
<1>2. /\ calls' \in [Kinds -> Call]
      /\ \A k \in Kinds \ {kind} : calls'[k] = calls[k]
      /\ calls'[kind].st = "sent" /\ calls'[kind].tok = tok /\ calls'[kind].got = NoAnswers
      /\ calls'[kind].q = q /\ calls'[kind].text = text
  BY <1>1, AskFacts
<1>3. Typed'
  BY <1>2 DEF IInv, Typed, StaysWith, server
<1>4. LoadedOnce'
  BY <1>2 DEF IInv, LoadedOnce, StaysWith
<1>5. TokensAreTrue'
  <2>1. Kept' = Kept
    BY DEF Kept, StaysWith, server
  <2>2. Kept => /\ page'.plan # NoPlan => IsPlan(page.plan)'
                /\ calls'["plan"].st = "ok" => IsPlan(calls["plan"])'
    BY <1>2 DEF IInv, TokensAreTrue, IsPlan, StaysWith, Kinds, server
  <2>3. Kept /\ calls'["commit"].st = "sent" =>
          /\ calls'["commit"].tok \in DOMAIN plans'
          /\ WasReviewed(plans[calls["commit"].tok].q, plans[calls["commit"].tok].text)'
    BY <1>2 DEF IInv, TokensAreTrue, WasReviewed, PastStays, Kinds, server
  <2> QED
    BY <2>1, <2>2, <2>3 DEF TokensAreTrue
<1>6. PlansWereAsked'
  BY <1>2 DEF IInv, PlansWereAsked, WasAsked, StaysWith, PastStays, Kinds
<1>7. AllReviewed(calls["commit"].got)'
  BY <1>2, Empty DEF IInv, OnlyReviewed, AllReviewed, WasReviewed, PastStays, Kinds
<1>8. OnlyReviewed'
  BY <1>2, <1>7
  DEF IInv, OnlyReviewed, AllReviewed, Complete, WasReviewed, PastStays, StaysWith, Kinds, server
<1> QED
  BY <1>3, <1>4, <1>5, <1>6, <1>8 DEF IInv

\* PressReview, Confirm and ExportPdf.
LEMMA AskingSteps == ASSUME IInv, PressReview \/ Confirm \/ ExportPdf PROVE IInv'
<1>1. page \in Page0 /\ NoText \in Wordings /\ Kinds = {"plan", "commit", "export"}
  BY Empty DEF IInv, Typed, Kinds
<1>2. page.at \notin Early => page.id # 0
  BY DEF IInv, LoadedOnce
<1>3. CASE PressReview
  <2>1. StaysWith(page', page) /\ page.id # 0
    BY <1>1, <1>2, <1>3 DEF PressReview, Writing, StaysWith, Page0, Early
  <2>2. page.q \in Questions \cup {0} /\ page.draft \in Wordings
    BY <1>1 DEF Page0
  <2>3. PastStays /\ [q |-> page.q, text |-> page.draft] \in asked'
    BY <1>3 DEF PressReview, PastStays
  <2>4. UNCHANGED <<server, cookie, loads, file>> /\ Ask("plan", page.q, page.draft, 0)
    BY <1>3 DEF PressReview
  <2> QED
    BY <1>1, <2>1, <2>2, <2>3, <2>4, AskStep
<1>4. CASE Confirm
  <2>1. page.at = "review" /\ page.plan # NoPlan
    BY <1>4 DEF Confirm, ConfirmOffered
  <2>2. StaysWith(page', page) /\ page.id # 0
    BY <1>1, <1>2, <1>4, <2>1, ChartFacts DEF Confirm, Early
  <2>3. page.plan.tok \in Nat /\ 0 \in Questions \cup {0}
    BY <1>1 DEF Page0, PagePlan
  <2>4. PastStays
    BY <1>4 DEF Confirm, PastStays
  <2>5. WasReviewed(page.plan.q, page.plan.text)'
    <3>1. [q |-> page.plan.q, text |-> page.plan.text] \in asked'
      BY <1>4, <2>1 DEF IInv, PlansWereAsked, WasAsked, Confirm
    <3>2. Reviewed(page) \in approved' /\ Reviewed(page).text = page.plan.text
      BY <1>4 DEF Confirm, Reviewed
    <3>3. page'.plan = page.plan
      BY <1>1, <1>4, <2>1 DEF Confirm, Commit, Page0
    <3> QED
      BY <3>1, <3>2, <3>3 DEF WasReviewed
  <2>6. PICK tok \in Nat : tok = page.plan.tok
    BY <2>3
  <2>7. Kept => tok \in DOMAIN plans /\ WasReviewed(plans[tok].q, plans[tok].text)'
    <3>1. Kept => IsPlan(page.plan)
      BY <2>1 DEF IInv, TokensAreTrue
    <3>2. plans' = plans /\ page'.plan = page.plan
      BY <1>1, <1>4, <2>1 DEF Confirm, server, Commit, Page0
    <3> QED
      BY <2>5, <2>6, <3>1, <3>2 DEF IsPlan, WasReviewed
  <2>8. UNCHANGED <<server, cookie, loads, file>> /\ Ask("commit", 0, NoText, tok)
    BY <1>4, <2>6 DEF Confirm
  <2> QED
    BY <1>1, <2>2, <2>3, <2>4, <2>7, <2>8, AskStep
<1>5. CASE ExportPdf
  <2>1. StaysWith(page', page) /\ page.id # 0
    BY <1>1, <1>2, <1>5, ChartFacts DEF ExportPdf, ExportOffered, ExportAgain, Early
  <2>2. PastStays
    BY <1>5 DEF ExportPdf, PastStays, past
  <2>3. UNCHANGED <<server, cookie, loads, file>> /\ Ask("export", 0, NoText, 0)
    BY <1>5 DEF ExportPdf, past
  <2> QED
    BY <1>1, <2>1, <2>2, <2>3, AskStep
<1> QED
  BY <1>3, <1>4, <1>5

\* ChangeDraft, Dictated, StartDictation, Edit and NextQuestion.
LEMMA WritingSteps ==
  ASSUME IInv,
         \/ \E text \in Texts \cup {NoText} : ChangeDraft(text) \/ Dictated(text)
         \/ StartDictation \/ Edit \/ NextQuestion
  PROVE  IInv'
<1>1. page \in Page0 /\ NoText \in Wordings /\ cookie \in Nat /\ loads \in [Uploads -> Upload]
  BY Empty DEF IInv, Typed
<1>2. UNCHANGED <<server, cookie, loads, calls, past>>
  BY DEF ChangeDraft, Dictated, StartDictation, Edit, NextQuestion
<1>3. StaysWith(page', page)
  <2>1. CASE \E text \in Texts \cup {NoText} : ChangeDraft(text) \/ Dictated(text)
    BY <1>1, <2>1, ChartFacts DEF ChangeDraft, Dictated, Wordings
  <2>2. CASE StartDictation
    BY <1>1, <2>2 DEF StartDictation, StaysWith
  <2>3. CASE Edit
    <3>1. StaysWith(EditAnswer(page), page) /\ page.answers[page.q] \in Wordings
      BY <1>1, ChartFacts DEF Page0, Answers
    <3>2. EditAnswer(page) \in Page0
      BY <3>1 DEF StaysWith
    <3>3. StaysWith(DraftChanged(EditAnswer(page), page.answers[page.q]), EditAnswer(page))
      BY <3>1, <3>2, ChartFacts
    <3> QED
      BY <2>3, <3>1, <3>3 DEF Edit, StaysWith
  <2>4. CASE NextQuestion
    <3>1. StaysWith(Next1(page), page) /\ Next1(page).q = page.q
      BY <1>1, ChartFacts DEF Next1, Page0
    <3>2. page.q + 1 \in Questions
      BY PrototypeAssumption, <1>1, <2>4 DEF NextQuestion, NextOffered, Page0, Questions
    <3>3. page' = [Next1(page) EXCEPT !.q = page.q + 1]
      BY <2>4, <3>1 DEF NextQuestion
    <3> QED
      BY <1>1, <3>1, <3>2, <3>3, QuestionFacts
  <2> QED
    BY <2>1, <2>2, <2>3, <2>4
<1>4. PastStays /\ UNCHANGED <<server, calls, file>> /\ cookie' \in Nat /\ loads' = loads
  BY <1>1, <1>2 DEF PastStays, past
<1> QED
  BY <1>1, <1>3, <1>4, PageStep

\* Load, TakeLoadFailure, LoseLoad, and the worksheet that comes too late.
LEMMA UploadSteps ==
  ASSUME IInv, NEW i \in Uploads,
         \/ Load(i) \/ TakeLoadFailure(i) \/ LoseLoad(i)
         \/ TakeLoad(i) /\ page.at # "analyzing"
  PROVE  IInv'
<1>1. /\ page \in Page0 /\ NoText \in Wordings /\ 1 \in Questions
      /\ cookie \in Nat /\ loads \in [Uploads -> Upload]
  BY Empty DEF IInv, Typed
<1>2. StaysWith(page, page)
  BY <1>1 DEF StaysWith
<1>3. StaysWith(page', page)
  <2>1. CASE TakeLoad(i) /\ page.at # "analyzing"
    BY <1>1, <1>2, <2>1, QuestionFacts DEF TakeLoad, Loaded
  <2>2. CASE Load(i) \/ TakeLoadFailure(i) \/ LoseLoad(i)
    BY <1>1, <1>2, <2>2, ChartFacts DEF Load, TakeLoadFailure, LoseLoad
  <2> QED
    BY <2>1, <2>2
<1>4. /\ loads' \in [Uploads -> Upload] /\ cookie' \in Nat
      /\ \A j \in Uploads : loads[j].st = "over" => loads'[j].st = "over"
  <2>1. CASE Load(i) \/ LoseLoad(i)
    BY <1>1, <2>1 DEF Load, LoseLoad, LoadReply, NoLoad, Upload
  <2>2. CASE TakeLoadFailure(i) \/ TakeLoad(i)
    BY <1>1, <2>2 DEF TakeLoadFailure, TakeLoad, Answered, Upload
  <2> QED
    BY <2>1, <2>2
<1>5. PastStays /\ UNCHANGED <<server, calls, file>>
  BY DEF PastStays, past, Load, TakeLoadFailure, LoseLoad, TakeLoad
<1> QED
  BY <1>3, <1>4, <1>5, PageStep

\* The panels of the worksheet open.
LEMMA TakeLoadStep == ASSUME IInv, NEW i \in Uploads, TakeLoad(i) PROVE IInv'
<1>1. CASE page.at # "analyzing"
  BY <1>1, UploadSteps
<1>2. CASE page.at = "analyzing"
  <2>1. /\ page \in Page0 /\ loads \in [Uploads -> Upload] /\ cookie \in Nat
        /\ page' = [Loaded(page, i) EXCEPT !.q = 1]
        /\ UNCHANGED <<server, calls, past>> /\ Answered(i, "ok")
    BY DEF IInv, Typed, TakeLoad
  <2>2. page.id = 0 /\ \A kind \in Kinds : calls[kind] = NoCall
    BY <1>2 DEF IInv, LoadedOnce, Early
  <2>3. /\ page' \in Page0 /\ page'.plan = NoPlan /\ page'.answers = page.answers
        /\ page'.at = "working" /\ page'.id = i
    BY <1>2, <2>1, Empty DEF Page0, Loaded, Early
  <2>4. loads' \in [Uploads -> Upload] /\ loads'[i].st = "over" /\ cookie' \in Nat
    BY <2>1 DEF Answered, Upload
  <2>5. Typed'
    BY <2>1, <2>3, <2>4 DEF IInv, Typed, server, past
  <2>6. LoadedOnce'
    <3>1. i # 0
      BY DEF Uploads
    <3> QED
      BY <2>1, <2>3, <2>4, <3>1 DEF LoadedOnce, Early
  <2>7. TokensAreTrue' /\ PlansWereAsked'
    BY <2>1, <2>2, <2>3, Empty DEF TokensAreTrue, PlansWereAsked, Kinds
  <2>8. OnlyReviewed'
    BY <2>1, <2>3 DEF IInv, OnlyReviewed, AllReviewed, Complete, WasReviewed, server, past
  <2> QED
    BY <2>5, <2>6, <2>7, <2>8 DEF IInv
<1> QED
  BY <1>1, <1>2

\* The plan on the page is the plan of its token.
LEMMA TakePlanStep == ASSUME IInv, TakePlan PROVE IInv'
<1> DEFINE c    == calls["plan"]
           plan == [q |-> c.q, text |-> c.text, tok |-> c.tok]
<1>1. /\ calls \in [Kinds -> Call] /\ "plan" \in Kinds /\ c.st = "ok" /\ Over("plan")
      /\ page \in Page0 /\ page' = PlanReady(Review(page), plan)
      /\ UNCHANGED <<server, cookie, loads, past>>
  BY DEF IInv, Typed, TakePlan, Arrived, Kinds
<1>2. plan \in PagePlan /\ plan.q = c.q /\ plan.text = c.text /\ plan.tok = c.tok
  BY <1>1 DEF Call, PagePlan
<1>3. (Kept => IsPlan(plan)) /\ WasAsked(plan)
  BY <1>1, <1>2 DEF IInv, TokensAreTrue, IsPlan, PlansWereAsked, WasAsked
<1>4. page.id # 0 /\ page.at \notin Early
  BY <1>1, CallMeansLoaded, Empty
<1> HIDE DEF plan
<1>5. Review(page) \in Page0 /\ StaysWith(Review(page), page)
  BY <1>1, ChartFacts, Empty DEF StaysWith
<1>6. /\ page' \in Page0 /\ page'.plan \in {page.plan, NoPlan, plan}
      /\ page'.answers = page.answers
      /\ page'.at \notin Early /\ (page'.at = "complete" => page.at = "complete")
      /\ page'.id = page.id
  BY <1>1, <1>2, <1>4, <1>5 DEF StaysWith, Page0, PlanReady
<1>7. /\ calls' \in [Kinds -> Call]
      /\ \A k \in Kinds \ {"plan"} : calls'[k] = calls[k]
      /\ calls'["plan"] = NoCall
  BY <1>1, OverFacts
<1>8. Typed'
  BY <1>1, <1>6, <1>7 DEF IInv, Typed, server, past
<1>9. LoadedOnce'
  BY <1>1, <1>4, <1>6 DEF IInv, LoadedOnce
<1>10. TokensAreTrue'
  BY <1>1, <1>3, <1>6, <1>7, Empty
  DEF IInv, TokensAreTrue, Kept, IsPlan, WasReviewed, Kinds, server, past
<1>11. PlansWereAsked'
  BY <1>1, <1>3, <1>6, <1>7, Empty DEF IInv, PlansWereAsked, WasAsked, past
<1>12. OnlyReviewed'
  BY <1>1, <1>6, <1>7
  DEF IInv, OnlyReviewed, AllReviewed, Complete, WasReviewed, Kinds, server, past
<1> QED
  BY <1>8, <1>9, <1>10, <1>11, <1>12 DEF IInv

\* The page takes over the answers of the server.
LEMMA TakeCommitStep == ASSUME IInv, TakeCommit PROVE IInv'
<1> DEFINE got == calls["commit"].got
<1>1. /\ calls \in [Kinds -> Call] /\ "commit" \in Kinds /\ calls["commit"].st = "ok"
      /\ Over("commit") /\ page \in Page0 /\ page' = Committed(page, got)
      /\ UNCHANGED <<server, cookie, loads, past>>
  BY DEF IInv, Typed, TakeCommit, Arrived, Kinds
<1>2. got \in Answers /\ AllReviewed(got)
  BY <1>1 DEF IInv, OnlyReviewed, Call
<1>3. page.id # 0 /\ page.at \notin Early
  BY <1>1, CallMeansLoaded, Empty
<1> HIDE DEF got
<1>4. /\ page' \in Page0 /\ page'.plan \in {page.plan, NoPlan} /\ page'.id = page.id
      /\ page'.answers \in {page.answers, got}
      /\ page'.at \notin Early /\ (page'.at = "complete" => page.at = "complete")
  BY <1>1, <1>2, <1>3, Empty DEF Page0, Committed, Early
<1>5. /\ calls' \in [Kinds -> Call]
      /\ \A k \in Kinds \ {"commit"} : calls'[k] = calls[k]
      /\ calls'["commit"] = NoCall
  BY <1>1, OverFacts
<1>6. Typed'
  BY <1>1, <1>4, <1>5 DEF IInv, Typed, server, past
<1>7. LoadedOnce'
  BY <1>1, <1>3, <1>4 DEF IInv, LoadedOnce
<1>8. TokensAreTrue' /\ PlansWereAsked'
  BY <1>1, <1>4, <1>5, Empty
  DEF IInv, TokensAreTrue, Kept, IsPlan, WasReviewed, PlansWereAsked, WasAsked, Kinds,
      server, past
<1>9. OnlyReviewed'
  BY <1>1, <1>2, <1>4, <1>5, Empty
  DEF IInv, OnlyReviewed, AllReviewed, Complete, WasReviewed, Kinds, server, past
<1> QED
  BY <1>6, <1>7, <1>8, <1>9 DEF IInv

\* The file has an answer to every question.
LEMMA TakeExportStep == ASSUME IInv, TakeExport PROVE IInv'
<1>1. /\ calls \in [Kinds -> Call] /\ "export" \in Kinds /\ calls["export"].st = "ok"
      /\ Over("export") /\ page \in Page0 /\ page' = Exported(page)
      /\ file' = calls["export"].got /\ UNCHANGED <<server, cookie, loads, asked, approved>>
  BY DEF IInv, Typed, TakeExport, Arrived, Kinds
<1>2. file' \in Answers /\ Complete(file')
  BY <1>1 DEF IInv, OnlyReviewed, Call
<1>3. page.id # 0 /\ page.at \notin Early
  BY <1>1, CallMeansLoaded, Empty
<1>4. /\ page' \in Page0 /\ page'.plan = page.plan /\ page'.answers = page.answers
      /\ page'.at \notin Early /\ page'.id = page.id
  BY <1>1, <1>3 DEF Page0, Exported, Early
<1>5. /\ calls' \in [Kinds -> Call]
      /\ \A k \in Kinds \ {"export"} : calls'[k] = calls[k]
      /\ calls'["export"] = NoCall
  BY <1>1, OverFacts
<1>6. Typed'
  BY <1>1, <1>2, <1>4, <1>5 DEF IInv, Typed, server
<1>7. LoadedOnce'
  BY <1>1, <1>3, <1>4 DEF IInv, LoadedOnce
<1>8. TokensAreTrue' /\ PlansWereAsked'
  BY <1>1, <1>4, <1>5
  DEF IInv, TokensAreTrue, Kept, IsPlan, WasReviewed, PlansWereAsked, WasAsked, Kinds, server
<1>9. OnlyReviewed'
  BY <1>1, <1>2, <1>4, <1>5, Empty
  DEF IInv, OnlyReviewed, AllReviewed, Complete, WasReviewed, Kinds, server
<1> QED
  BY <1>6, <1>7, <1>8, <1>9 DEF IInv

-----------------------------------------------------------------------------
(* The theorems.                                                           *)

\* Every step of the server, of the page and of the student keeps the invariant.
THEOREM StepIInv == IInv /\ [Next]_vars => IInv'
<1> SUFFICES ASSUME IInv, [Next]_vars PROVE IInv'
  OBVIOUS
<1>1. CASE Server
  BY <1>1, RestartStep, ServeLoadStep, ServePlanStep, ServeCommitStep, ServeExportStep,
     RefusedStep, UploadSteps
  DEF Server
<1>2. CASE Page
  BY <1>2, AskingSteps, WritingSteps, TakeLoadStep, TakePlanStep, TakeCommitStep, TakeExportStep,
     TakeFailureStep, UploadSteps
  DEF Page
<1>3. CASE UNCHANGED vars
  BY <1>3 DEF IInv, Typed, LoadedOnce, TokensAreTrue, Kept, IsPlan, PlansWereAsked, WasAsked,
              OnlyReviewed, AllReviewed, Complete, WasReviewed, vars, server, past
<1> QED
  BY <1>1, <1>2, <1>3 DEF Next

\* The invariant holds in every reachable state.
THEOREM Invariance == Spec => []IInv
<1> QED
  BY InitIInv, StepIInv, PTL DEF Spec

\* Nothing is on the server, over the worksheet or in the exported file but wording
\* that was sent to review from that question and confirmed when it was shown, with
\* any number of questions, texts, uploads and plans, and however the requests of the
\* page overlap.
THEOREM EveryAnswerReviewed == Spec => []StoredAsReviewed
<1>1. IInv => StoredAsReviewed
  BY DEF IInv, OnlyReviewed, AllReviewed, Complete, StoredAsReviewed, Overlay
<1> QED
  BY <1>1, Invariance, PTL
=============================================================================
