----------------------- MODULE QuestionSetupPage_proofs -----------------------
(***************************************************************************)
(* The safety of the intake, in its two halves.                            *)
(*                                                                         *)
(* QuestionSetupPage, for any worksheet, any number of pages and any       *)
(* number of calls under way: the questions that are saved and accepted    *)
(* are the ones the student was looking at.  The argument is that a        *)
(* version names one list of questions (WasRead), so that a request        *)
(* carrying the version of a copy is refused unless the copy is what is    *)
(* stored (GoodCall), and that the panel holds a preview only of what it   *)
(* showed (PreviewShown).                                                  *)
(*                                                                         *)
(* AnalysisLifecycle, for any number of polls and any timeouts: what the   *)
(* page takes for one step, Analyze, is there the work of a request that   *)
(* may fail anywhere and of the polls that clear up after it.  Nothing     *)
(* depends on the clock: it decides when an analysis is given up, never    *)
(* what may be said of it.                                                 *)
(***************************************************************************)
EXTENDS QuestionSetupPage, AnalysisState, WellFoundedInduction, SequenceTheorems, TLAPS

\* The steps of the analysis.
Analysis == INSTANCE AnalysisLifecycle

-----------------------------------------------------------------------------
(* The inductive invariant of the set-up.                                  *)

\* A question as the server keeps it: it has an id and at least one block.
Wordings == [id : QuestionIds, blocks : (SUBSET Blocks) \ {{}}]

\* What the server answers about an assignment.
Setups == [version : Nat, verified : BOOLEAN, corrected : BOOLEAN, questions : Seq(Wordings)]

\* What a call asks for; "any" stands in the place of a call that is over.
Kinds == {"preview", "add", "replace", "remove", "reorder", "reset", "accept", "any"}

\* The calls that may be made, and what the panel and the assignment may be.
Operations ==
  [kind : Kinds, q : QuestionIds \cup {0}, n : 0..PageCount, blocks : SUBSET Blocks,
   order : Seq(QuestionIds)]

MadeCalls ==
  [what : {"preview", "mutate", "accept", "any"}, o : Operations, save : BOOLEAN, aver : Nat,
   shown : Seq(Wordings), ans : {"none", "ok", "failed"}, got : Setups]

Panels ==
  [n : Pages, intent : {NoIntent} \cup [kind : {"add", "replace"}, q : QuestionIds \cup {0}],
   selected : SUBSET Blocks, preview : [n : 0..PageCount, blocks : SUBSET Blocks],
   pending : BOOLEAN, removing : QuestionIds \cup {0}, known : SUBSET Pages,
   fetching : Pages \cup {0}, broken : BOOLEAN]

Servers ==
  [status : {"none", "analyzing", "ready", "failed"}, version : Nat \ {0},
   verified : BOOLEAN, corrected : BOOLEAN, questions : Seq(Wordings)]

\* The assignment is always one list of questions.
GoodServer ==
  /\ server \in Servers
  /\ IsQuestions(server.questions)

\* A version names one list of questions: what was read of assignment `a` under the
\* version it has now is what it has now.
WasRead(a, version, questions) ==
  /\ version <= a.version
  /\ version = a.version => questions = a.questions

\* A set-up the page got from the server.
FromServer(a, s) == s \in Setups /\ IsQuestions(s.questions) /\ WasRead(a, s.version, s.questions)

\* The page has entered the set-up of an assignment, which is for good.
Entered == page.at \in {"questionCheck", "questionEditing", "conversation"}

\* Before the set-up the page has nothing and asks nothing of it; from then on the
\* analysis has ended well and the page's copy was read from the server.
GoodPage ==
  /\ IsContext(page)
  /\ Entered \/ page.at \in {"upload", "checking", "rejected"}
  /\ IF Entered THEN server.status = "ready" /\ job = NoJob /\ FromServer(server, copy)
     ELSE copy = SetupOf(NoAssignment) /\ \A i \in DOMAIN calls : calls[i] = NoCall

\* The check of an upload knows how far the server has come.
GoodJob ==
  \/ job = NoJob
  \/ /\ job \in [step : {"create", "poll", "setup"}, polls : 0..MaxPolls]
     /\ page.at = "checking"
     /\ job.step \in {"poll", "setup"} => server.status # "none"
     /\ job.step = "setup" => server.status = "ready"

\* A preview the student can save was shown.
PreviewShown == Selecting /\ panel.preview # NoPreview => panel.preview.blocks \in seen

GoodPanel == panel \in Panels /\ PreviewShown

\* A request carries the list the student was looking at, with its version, and a
\* wording to save that was shown; an answer carries what the server had then.
GoodCall(a, w, c) ==
  /\ c.ans = "none" =>
       /\ WasRead(a, c.aver, c.shown)
       /\ c.what = "accept" <=> c.o.kind = "accept"
       /\ c.o.kind # "any"
       /\ c.o.kind \in {"add", "replace"} => c.o.blocks \in w
  /\ c.ans # "failed" => c.what # "any" /\ (c.what = "preview" <=> c.o.kind = "preview")
  /\ c.ans = "ok" /\ c.what # "preview" => FromServer(a, c.got)

GoodCalls ==
  /\ calls \in [1..MaxCalls -> {NoCall, Over} \cup MadeCalls]
  /\ \A i \in 1..MaxCalls : calls[i] \in MadeCalls => GoodCall(server, seen, calls[i])

\* All of it.
SetupInv ==
  /\ GoodServer
  /\ GoodPage
  /\ GoodJob
  /\ GoodPanel
  /\ GoodCalls
  /\ SavedWasSeen

-----------------------------------------------------------------------------
(* Lists of questions.                                                     *)

\* A set of numbers that is not empty has its least number (the id of a new question).
LEMMA MinFact == ASSUME NEW S \in SUBSET Nat, S # {} PROVE Min(S) \in S
<1>1. PICK x \in S : \A y \in S : ~ (<<y, x>> \in OpToRel(<, Nat))
  BY NatLessThanWellFounded, WFMin
<1>2. \A y \in Nat : y < x => <<y, x>> \in OpToRel(<, Nat)
  BY DEF OpToRel
<1>3. \A y \in S : ~ (y < x)
  BY <1>1, <1>2
<1>4. \A y \in S : x =< y
  BY <1>3
<1> QED
  BY <1>4 DEF Min

\* The place of a question on a list, and its wording.
LEMMA PlaceFacts ==
  ASSUME NEW s, IsQuestions(s), NEW q \in Ids(s)
  PROVE  /\ Place(s, q) \in 1..Len(s) /\ s[Place(s, q)].id = q
         /\ s[Place(s, q)] \in Wordings /\ BlocksOf(s, q) = s[Place(s, q)].blocks
<1>1. s \in Seq(Wordings) /\ DOMAIN s = 1..Len(s)
  BY DEF IsQuestions, Wordings
<1>2. \E i \in DOMAIN s : s[i].id = q
  BY DEF Ids
<1>3. Place(s, q) \in DOMAIN s /\ s[Place(s, q)].id = q
  BY <1>2 DEF Place
<1> QED
  BY <1>1, <1>3 DEF BlocksOf

\* The ids of a list, as a set and in their order.
LEMMA IdFacts ==
  ASSUME NEW s, IsQuestions(s)
  PROVE  /\ Ids(s) \subseteq QuestionIds
         /\ IdSeq(s) \in Seq(QuestionIds) /\ IsInjective(IdSeq(s))
         /\ DOMAIN IdSeq(s) = 1..Len(s)
         /\ \A i \in 1..Len(s) : IdSeq(s)[i] = s[i].id
<1>1. s \in Seq(Wordings) /\ DOMAIN s = 1..Len(s)
  BY DEF IsQuestions, Wordings
<1>2. \A i \in 1..Len(s) : s[i] \in Wordings
  BY <1>1
<1>3. IdSeq(s) \in [1..Len(s) -> QuestionIds]
  BY <1>1, <1>2 DEF IdSeq, Wordings
<1>4. IdSeq(s) \in Seq(QuestionIds)
  BY <1>1, <1>3, SeqDef
<1> QED
  BY <1>1, <1>2, <1>3, <1>4 DEF IsQuestions, IdSeq, Ids, Wordings

\* What makes a list of questions.
LEMMA QuestionsFacts ==
  ASSUME NEW s \in Seq(Wordings),
         \A i, j \in 1..Len(s) : s[i].id = s[j].id => i = j
  PROVE  IsQuestions(s)
<1>1. DOMAIN IdSeq(s) = 1..Len(s) /\ \A i \in 1..Len(s) : IdSeq(s)[i] = s[i].id
  BY DEF IdSeq
<1> QED
  BY <1>1 DEF IsQuestions, Wordings, IsInjective

\* No two places have the same id.
LEMMA DistinctIds ==
  ASSUME NEW s, IsQuestions(s)
  PROVE  /\ s \in Seq(Wordings)
         /\ \A i, j \in 1..Len(s) : s[i].id = s[j].id => i = j
BY IdFacts DEF IsQuestions, Wordings, IsInjective

\* What an operation is made of.
LEMMA OperationFacts ==
  ASSUME NEW o \in Operations
  PROVE  /\ o.blocks \in SUBSET Blocks /\ o.order \in Seq(QuestionIds)
         /\ o.n \in 0..PageCount /\ o.q \in QuestionIds \cup {0}
BY DEF Operations

\* The operations, each with what it makes of the list: a list again, of the
\* questions there were, the detected ones and the one it saves.
Makes(s, o, t) ==
  /\ IsQuestions(t)
  /\ \A i \in 1..Len(t) :
       \/ t[i] \in Range(s) \cup Range(Found)
       \/ o.kind \in {"add", "replace"} /\ t[i].blocks = o.blocks

\* add: the new question has the least id that is free.
LEMMA Added ==
  ASSUME NEW a, IsQuestions(a.questions), NEW o \in Operations, Applicable(a, o), o.kind = "add"
  PROVE  Makes(a.questions, o, Asked(a, o))
<1> DEFINE s == a.questions
           x == Question(Min(NewIds(s)), o.blocks)
           t == Append(s, x)
<1>1. Asked(a, o) = t /\ NewIds(s) # {} /\ o.blocks # {}
  BY DEF Asked, Applicable, ValidSelection
<1>2. Min(NewIds(s)) \in NewIds(s)
  BY <1>1, MinFact, IdAssumption DEF NewIds
<1>3. o.blocks \in (SUBSET Blocks) \ {{}}
  BY <1>1, OperationFacts, Zenon
<1>4. Min(NewIds(s)) \in QuestionIds \ Ids(s)
  BY <1>2 DEF NewIds
<1> HIDE DEF x
<1>5. x \in Wordings /\ x.id \notin Ids(s) /\ x.blocks = o.blocks
  BY <1>3, <1>4 DEF x, Question, Wordings
<1>6. s \in Seq(Wordings) /\ \A i, j \in 1..Len(s) : s[i].id = s[j].id => i = j
  BY DistinctIds
<1>7. /\ t \in Seq(Wordings) /\ Len(t) = Len(s) + 1 /\ t[Len(s) + 1] = x
      /\ \A i \in 1..Len(s) : t[i] = s[i] /\ t[i].id \in Ids(s) /\ t[i] \in Range(s)
  BY <1>5, <1>6 DEF Ids, Range
<1> HIDE DEF t
<1>8. IsQuestions(t)
  <2>1. \A i, j \in 1..Len(t) : t[i].id = t[j].id => i = j
    BY <1>5, <1>6, <1>7
  <2> QED
    BY <2>1, <1>7, QuestionsFacts
<1> QED
  BY <1>1, <1>5, <1>6, <1>7, <1>8 DEF Makes

\* replace: the question keeps its id and its place.
LEMMA Replaced ==
  ASSUME NEW a, IsQuestions(a.questions), NEW o \in Operations, Applicable(a, o),
         o.kind = "replace"
  PROVE  Makes(a.questions, o, Asked(a, o))
<1> DEFINE s == a.questions
           t == Asked(a, o)
<1>1. /\ s \in Seq(Wordings) /\ DOMAIN s = 1..Len(s)
      /\ \A i, j \in 1..Len(s) : s[i].id = s[j].id => i = j
  BY DistinctIds
<1>2. o.q \in Ids(s) /\ o.blocks # {}
  BY DEF Applicable, ValidSelection
<1>3. t = [i \in DOMAIN s |-> IF s[i].id = o.q THEN Question(o.q, o.blocks) ELSE s[i]]
  BY DEF Asked
<1>4. Question(o.q, o.blocks) \in Wordings
  <2>1. o.q \in QuestionIds /\ o.blocks \in (SUBSET Blocks) \ {{}}
    BY <1>2, IdFacts, OperationFacts, Zenon
  <2> QED
    BY <2>1 DEF Question, Wordings
<1>5. t \in Seq(Wordings) /\ Len(t) = Len(s)
  <2>1. t \in [1..Len(s) -> Wordings]
    BY <1>1, <1>3, <1>4
  <2> QED
    BY <2>1, <1>1, SeqDef
<1>6. \A i \in 1..Len(t) : t[i].id = s[i].id
  BY <1>1, <1>3, <1>5 DEF Question
<1>7. \A i \in 1..Len(t) : t[i] \in Range(s) \/ t[i].blocks = o.blocks
  BY <1>1, <1>3, <1>5 DEF Question, Range
<1>8. IsQuestions(t)
  BY <1>1, <1>5, <1>6, QuestionsFacts
<1> QED
  BY <1>7, <1>8 DEF Makes

\* remove: the others keep their order.
LEMMA Removed ==
  ASSUME NEW a, IsQuestions(a.questions), NEW o \in Operations, Applicable(a, o),
         o.kind = "remove"
  PROVE  Makes(a.questions, o, Asked(a, o))
<1> DEFINE s == a.questions
           k == Place(s, o.q)
           t == RemoveAt(s, k)
<1>1. /\ s \in Seq(Wordings) /\ DOMAIN s = 1..Len(s)
      /\ \A i, j \in 1..Len(s) : s[i].id = s[j].id => i = j
  BY DistinctIds
<1>2. k \in 1..Len(s) /\ Asked(a, o) = t
  BY PlaceFacts DEF Applicable, Asked
<1> HIDE DEF k
<1> DEFINE u == SubSeq(s, 1, k - 1)
           v == SubSeq(s, k + 1, Len(s))
<1>3. /\ u \in Seq(Wordings) /\ Len(u) = k - 1 /\ \A i \in 1..(k - 1) : u[i] = s[i]
      /\ v \in Seq(Wordings) /\ Len(v) = Len(s) - k
      /\ \A i \in 1..(Len(s) - k) : v[i] = s[i + k]
  BY <1>1, <1>2, SubSeqProperties
<1> HIDE DEF u, v
<1>4. /\ t \in Seq(Wordings) /\ Len(t) = Len(s) - 1
      /\ \A i \in 1..Len(t) : t[i] = IF i < k THEN s[i] ELSE s[i + 1]
  <2>1. t = u \o v
    BY DEF RemoveAt, u, v
  <2>2. /\ t \in Seq(Wordings) /\ Len(t) = Len(u) + Len(v)
        /\ \A i \in 1..(Len(u) + Len(v)) : t[i] = IF i <= Len(u) THEN u[i] ELSE v[i - Len(u)]
    <3> u \in Seq(Wordings) /\ v \in Seq(Wordings)
      BY <1>3
    <3> QED
      BY <2>1, ConcatProperties, Zenon
  <2> HIDE DEF t
  <2>3. Len(s) \in Nat /\ k \in Nat
    BY <1>1, <1>2
  <2>4. /\ Len(u) = k - 1 /\ Len(v) = Len(s) - k /\ Len(t) = Len(s) - 1
        /\ k - 1 \in Nat /\ Len(s) - k \in Nat
    BY <2>2, <2>3, <1>2, <1>3
  <2>5. ASSUME NEW i \in 1..Len(t) PROVE t[i] = IF i < k THEN s[i] ELSE s[i + 1]
    <3>1. t[i] = IF i <= k - 1 THEN u[i] ELSE v[i - (k - 1)]
      BY <2>2, <2>4
    <3>2. CASE i < k
      <4>1. i \in 1..(k - 1) /\ i <= k - 1
        BY <3>2, <2>3
      <4> QED
        BY <3>1, <3>2, <4>1, <1>3
    <3>3. CASE ~(i < k)
      <4>1. /\ i - (k - 1) \in 1..(Len(s) - k) /\ ~(i <= k - 1)
            /\ (i - (k - 1)) + k = i + 1
        BY <3>3, <2>3, <2>4
      <4> QED
        BY <3>1, <3>3, <4>1, <1>3
    <3> QED
      BY <3>2, <3>3
  <2> QED
    BY <2>2, <2>4, <2>5
<1> HIDE DEF t
<1>5. Len(s) \in Nat /\ Len(t) \in Nat /\ k \in Nat
  BY <1>1, <1>2, <1>4
<1>6. \A i \in 1..Len(t) : t[i] \in Range(s)
  BY <1>1, <1>2, <1>4, <1>5 DEF Range
<1>7. \A i, j \in 1..Len(t) : t[i].id = t[j].id => i = j
  <2> SUFFICES ASSUME NEW i \in 1..Len(t), NEW j \in 1..Len(t), t[i].id = t[j].id
               PROVE  i = j
    OBVIOUS
  <2> DEFINE F(l) == IF l < k THEN l ELSE l + 1
  <2>1. F(i) \in 1..Len(s) /\ F(j) \in 1..Len(s) /\ t[i] = s[F(i)] /\ t[j] = s[F(j)]
    BY <1>2, <1>4, <1>5
  <2>2. F(i) = F(j)
    BY <1>1, <2>1
  <2> QED
    BY <2>2, <1>5
<1> QED
  BY <1>2, <1>4, <1>6, <1>7, QuestionsFacts DEF Makes

\* reorder: the same questions in the order that was sent.
LEMMA Reordered ==
  ASSUME NEW a, IsQuestions(a.questions), NEW o \in Operations, Applicable(a, o),
         o.kind = "reorder"
  PROVE  Makes(a.questions, o, Asked(a, o))
<1> DEFINE s == a.questions
           t == Asked(a, o)
<1>1. /\ o.order \in Seq(QuestionIds) /\ DOMAIN o.order = 1..Len(o.order)
      /\ IsInjective(o.order) /\ Range(o.order) = Ids(s)
  BY DEF Applicable, Operations
<1>2. \A i \in 1..Len(o.order) : o.order[i] \in Ids(s)
  BY <1>1 DEF Range
<1>3. t = [i \in 1..Len(o.order) |-> Question(o.order[i], BlocksOf(s, o.order[i]))]
  BY <1>1 DEF Asked
<1>4. \A i \in 1..Len(o.order) :
        /\ t[i] = s[Place(s, o.order[i])] /\ t[i] \in Wordings
        /\ t[i] \in Range(s) /\ t[i].id = o.order[i]
  <2> SUFFICES ASSUME NEW i \in 1..Len(o.order)
               PROVE  /\ t[i] = s[Place(s, o.order[i])] /\ t[i] \in Wordings
                      /\ t[i] \in Range(s) /\ t[i].id = o.order[i]
    OBVIOUS
  <2> DEFINE k == Place(s, o.order[i])
  <2>1. /\ k \in 1..Len(s) /\ s[k].id = o.order[i]
        /\ s[k] \in Wordings /\ BlocksOf(s, o.order[i]) = s[k].blocks
    BY <1>2, PlaceFacts
  <2> HIDE DEF k
  <2>2. s[k] = Question(s[k].id, s[k].blocks)
    BY <2>1 DEF Wordings, Question
  <2>3. t[i] = s[k]
    BY <1>3, <2>1, <2>2
  <2>4. s[k] \in Range(s)
    BY <2>1, DistinctIds DEF Range
  <2> QED
    BY <2>1, <2>3, <2>4 DEF k
<1>5. t \in Seq(Wordings) /\ Len(t) = Len(o.order)
  <2>1. t \in [1..Len(o.order) -> Wordings]
    BY <1>3, <1>4
  <2>2. Len(o.order) \in Nat
    BY <1>1
  <2> QED
    BY <2>1, <2>2, SeqDef
<1>6. \A i, j \in 1..Len(t) : t[i].id = t[j].id => i = j
  BY <1>1, <1>4, <1>5 DEF IsInjective
<1> QED
  BY <1>4, <1>5, <1>6, QuestionsFacts DEF Makes

\* Whatever is asked for, the answer is a list of questions made as above.
LEMMA AskedFacts ==
  ASSUME NEW a, IsQuestions(a.questions), NEW o \in Operations, Applicable(a, o),
         o.kind \in {"add", "replace", "remove", "reorder", "reset"}
  PROVE  Makes(a.questions, o, Asked(a, o))
<1>1. CASE o.kind = "reset"
  <2>1. Asked(a, o) = Found
    BY <1>1 DEF Asked
  <2> QED
    BY <2>1, <1>1, SetupAssumption DEF Makes, Range, IsQuestions
<1> QED
  BY <1>1, Added, Replaced, Removed, Reordered

-----------------------------------------------------------------------------
(* The page.                                                               *)

PageFields == {"at", "version", "questions", "verified", "active", "cand", "original",
               "suggestion", "review", "confirmed", "drafts", "epoch", "error", "result"}

\* A change of two fields keeps the others.
LEMMA ContextFields == DOMAIN InitialContext = PageFields
BY DEF InitialContext, PageFields

\* The page before the set-up.
LEMMA EmptyPage ==
  ASSUME NEW at \in States
  PROVE  IsContext(ClearForAnalysis(at)) /\ ClearForAnalysis(at).at = at
<1> DEFINE p == ClearForAnalysis(at)
<1>1. /\ DOMAIN p = PageFields /\ p.at = at /\ p.version = 0 /\ p.questions = <<>>
      /\ p.verified = FALSE /\ p.active = 1 /\ p.cand = NoCandidate /\ p.original = NoCandidate
      /\ p.suggestion = NoCandidate /\ p.review = NoReview /\ p.epoch = 0 /\ p.error = FALSE
      /\ p.result = 0 /\ p.confirmed = [q \in QuestionIds |-> NoAnswer]
      /\ p.drafts = [q \in QuestionIds |-> NoDraft]
  BY DEF ClearForAnalysis, InitialContext, PageFields
<1> HIDE DEF p
<1>2. <<>> \in Seq(QuestionIds) /\ IsInjective(<<>>)
  BY DEF IsInjective
<1>3. p.questions \in Seq(QuestionIds) /\ IsInjective(p.questions)
  BY <1>1, <1>2
<1>4. /\ p.confirmed \in [QuestionIds -> ConfirmedAnswer \cup {NoAnswer}]
      /\ p.drafts \in [QuestionIds -> QuestionDraft \cup {NoDraft}]
  BY <1>1
<1>5. /\ {p.version, p.epoch, p.result} \subseteq Nat /\ p.active \in Nat \ {0}
      /\ {p.cand, p.original, p.suggestion} \subseteq Candidate \cup {NoCandidate}
      /\ p.review \in ReviewSnapshot \cup {NoReview}
  BY <1>1
<1>6. {p.verified, p.error} \subseteq BOOLEAN
  BY <1>1, Zenon
<1>7. IsContext(p)
  BY <1>1, <1>3, <1>4, <1>5, <1>6, ContextFields, Zenon DEF IsContext
<1> QED
  BY <1>1, <1>7 DEF p

\* An event that changes no more than the state and the error.
LEMMA StateTurns ==
  ASSUME NEW p, IsContext(p), NEW at \in States, NEW error \in BOOLEAN
  PROVE  /\ IsContext([p EXCEPT !.at = at, !.error = error])
         /\ [p EXCEPT !.at = at, !.error = error].at = at
<1> DEFINE n == [p EXCEPT !.at = at, !.error = error]
<1>1. DOMAIN p = PageFields
  BY ContextFields DEF IsContext
<1>2. /\ DOMAIN n = PageFields /\ n.at = at /\ n.error = error
      /\ \A f \in PageFields \ {"at", "error"} : n[f] = p[f]
  BY <1>1 DEF PageFields
<1>3. /\ n.version = p.version /\ n.questions = p.questions /\ n.verified = p.verified
      /\ n.active = p.active /\ n.cand = p.cand /\ n.original = p.original
      /\ n.suggestion = p.suggestion /\ n.review = p.review /\ n.epoch = p.epoch
      /\ n.result = p.result /\ n.confirmed = p.confirmed /\ n.drafts = p.drafts
  BY <1>2 DEF PageFields
<1> HIDE DEF n
<1>4. IsContext(n)
  BY <1>2, <1>3, ContextFields DEF IsContext
<1> QED
  BY <1>2, <1>4 DEF n

\* The transitions for REQUEST_FAILED and ANALYSIS_FAILED.
LEMMA FailureTurns ==
  ASSUME NEW p, IsContext(p)
  PROVE  /\ IsContext(RequestFailed(p)) /\ RequestFailed(p).at = p.at
         /\ IsContext(AnalysisFailed(p))
         /\ AnalysisFailed(p).at = IF p.at = "checking" THEN "rejected" ELSE p.at
<1>1. p.at \in States /\ p.error \in BOOLEAN /\ "rejected" \in States
  BY DEF IsContext, States
<1>2. DOMAIN p = PageFields
  BY ContextFields DEF IsContext
<1>3. RequestFailed(p) = [p EXCEPT !.at = p.at, !.error = TRUE]
  BY <1>2 DEF RequestFailed, PageFields
<1>4. AnalysisFailed(p) = IF p.at = "checking" THEN [p EXCEPT !.at = "rejected", !.error = TRUE]
                          ELSE p
  BY DEF AnalysisFailed
<1>5. /\ IsContext([p EXCEPT !.at = p.at, !.error = TRUE])
      /\ [p EXCEPT !.at = p.at, !.error = TRUE].at = p.at
  BY <1>1, StateTurns, Zenon
<1>6. /\ IsContext([p EXCEPT !.at = "rejected", !.error = TRUE])
      /\ [p EXCEPT !.at = "rejected", !.error = TRUE].at = "rejected"
  BY <1>1, StateTurns, Zenon
<1> QED
  BY <1>3, <1>4, <1>5, <1>6, Zenon

\* The transitions for EDIT_QUESTIONS and CANCEL_QUESTION_EDIT.
LEMMA EditTurns ==
  ASSUME NEW p, IsContext(p), InSetup(p)
  PROVE  LET n == IF p.at = "questionCheck" THEN EditQuestions(p) ELSE CancelQuestionEdit(p)
         IN  IsContext(n) /\ InSetup(n)
<1> DEFINE n == IF p.at = "questionCheck" THEN EditQuestions(p) ELSE CancelQuestionEdit(p)
           at == IF p.at = "questionCheck" THEN "questionEditing" ELSE "questionCheck"
<1>1. at \in States /\ p.error \in BOOLEAN /\ DOMAIN p = PageFields
  BY ContextFields DEF IsContext, States
<1>2. n = [p EXCEPT !.at = at, !.error = p.error]
  BY <1>1 DEF EditQuestions, CancelQuestionEdit, InSetup, PageFields
<1> HIDE DEF at, n
<1>3. IsContext(n) /\ n.at = at
  BY <1>1, <1>2, StateTurns, Zenon
<1> QED
  BY <1>3 DEF InSetup, n, at

\* The page with a list of questions.
LEMMA ListTurns ==
  ASSUME NEW p, IsContext(p), NEW v \in Nat, NEW s, IsQuestions(s), NEW verified \in BOOLEAN
  PROVE  /\ IsContext(QuestionSetupUpdated(p, v, IdSeq(s), verified))
         /\ QuestionSetupUpdated(p, v, IdSeq(s), verified).at = p.at
         /\ IsContext(QuestionSetupAccepted(p, v, IdSeq(s), verified))
         /\ QuestionSetupAccepted(p, v, IdSeq(s), verified).at
              = IF InSetup(p) THEN "conversation" ELSE p.at
<1> DEFINE n == ApplyQuestionSetup(p, v, IdSeq(s), verified)
<1>1. DOMAIN p = PageFields /\ p.at \in States
  BY ContextFields DEF IsContext
<1>2. /\ DOMAIN n = PageFields /\ n.at = p.at /\ n.version = v /\ n.questions = IdSeq(s)
      /\ n.verified = verified /\ n.active = 1 /\ n.error = FALSE
      /\ n.cand = p.cand /\ n.original = p.original
      /\ n.suggestion = p.suggestion /\ n.review = p.review /\ n.epoch = p.epoch
      /\ n.result = p.result /\ n.confirmed = p.confirmed /\ n.drafts = p.drafts
  BY <1>1 DEF ApplyQuestionSetup, PageFields
<1> HIDE DEF n
<1>3. IsContext(n)
  <2>1. /\ {n.version, n.epoch, n.result} \subseteq Nat /\ n.active \in Nat \ {0}
        /\ {n.cand, n.original, n.suggestion} \subseteq Candidate \cup {NoCandidate}
        /\ n.review \in ReviewSnapshot \cup {NoReview}
        /\ n.confirmed \in [QuestionIds -> ConfirmedAnswer \cup {NoAnswer}]
        /\ n.drafts \in [QuestionIds -> QuestionDraft \cup {NoDraft}]
    BY <1>2 DEF IsContext
  <2>2. n.questions \in Seq(QuestionIds) /\ IsInjective(n.questions)
    BY <1>2, IdFacts
  <2>3. {n.verified, n.error} \subseteq BOOLEAN
    BY <1>2, Zenon
  <2> QED
    BY <1>1, <1>2, <2>1, <2>2, <2>3, ContextFields, Zenon DEF IsContext
<1>4. "conversation" \in States
  BY DEF States
<1>5. [n EXCEPT !.at = "conversation"] = [n EXCEPT !.at = "conversation", !.error = FALSE]
  BY <1>2 DEF PageFields
<1>6. /\ IsContext([n EXCEPT !.at = "conversation"])
      /\ [n EXCEPT !.at = "conversation"].at = "conversation"
  BY <1>3, <1>4, <1>5, StateTurns
<1> QED
  BY <1>2, <1>3, <1>6 DEF n, QuestionSetupUpdated, QuestionSetupAccepted

\* The transition for ANALYSIS_READY, from a worksheet that was being checked.
LEMMA ReadyTurns ==
  ASSUME NEW p, IsContext(p), p.at = "checking",
         NEW v \in Nat, NEW s, IsQuestions(s), NEW verified \in BOOLEAN
  PROVE  LET n == AnalysisReady(p, v, IdSeq(s), verified, [q \in QuestionIds |-> NoAnswer], 1,
                                NoCandidate)
         IN  IsContext(n) /\ n.at = "questionCheck"
<1> DEFINE n == AnalysisReady(p, v, IdSeq(s), verified, [q \in QuestionIds |-> NoAnswer], 1,
                              NoCandidate)
<1>1. DOMAIN p = PageFields
  BY ContextFields DEF IsContext
<1>2. /\ DOMAIN n = PageFields /\ n.at = "questionCheck" /\ n.version = v
      /\ n.questions = IdSeq(s) /\ n.verified = verified /\ n.active = 1 /\ n.error = FALSE
      /\ n.cand = NoCandidate /\ n.original = p.original
      /\ n.suggestion = p.suggestion /\ n.review = p.review /\ n.epoch = p.epoch
      /\ n.result = p.result /\ n.confirmed = [q \in QuestionIds |-> NoAnswer]
      /\ n.drafts = [q \in QuestionIds |-> NoDraft]
  BY <1>1 DEF AnalysisReady, PageFields
<1> HIDE DEF n
<1>3. /\ n.confirmed \in [QuestionIds -> ConfirmedAnswer \cup {NoAnswer}]
      /\ n.drafts \in [QuestionIds -> QuestionDraft \cup {NoDraft}]
      /\ n.at \in States
  BY <1>2 DEF States
<1>4. IsContext(n)
  <2>1. /\ {n.version, n.epoch, n.result} \subseteq Nat /\ n.active \in Nat \ {0}
        /\ {n.cand, n.original, n.suggestion} \subseteq Candidate \cup {NoCandidate}
        /\ n.review \in ReviewSnapshot \cup {NoReview}
    BY <1>2 DEF IsContext
  <2>2. n.questions \in Seq(QuestionIds) /\ IsInjective(n.questions)
    BY <1>2, IdFacts
  <2>3. {n.verified, n.error} \subseteq BOOLEAN
    BY <1>2, Zenon
  <2> QED
    BY <1>2, <1>3, <2>1, <2>2, <2>3, ContextFields, Zenon DEF IsContext
<1> QED
  BY <1>2, <1>4 DEF n

-----------------------------------------------------------------------------
(* What stays true of what was read.                                       *)

\* A read stays a read of an earlier version, or of this one, when the server goes on.
LEMMA StillRead ==
  ASSUME NEW a, NEW b, a.version \in Nat, b.version \in Nat, b = a \/ b.version > a.version
  PROVE  /\ \A v \in Nat : \A s : WasRead(a, v, s) => WasRead(b, v, s)
         /\ \A s : FromServer(a, s) => FromServer(b, s)
<1>1. \A v \in Nat : \A s : WasRead(a, v, s) => WasRead(b, v, s)
  BY DEF WasRead
<1> QED
  BY <1>1 DEF FromServer, Setups

\* So does what a call carries, when more wordings have been seen.
LEMMA StillGood ==
  ASSUME NEW a, NEW b, a.version \in Nat, b.version \in Nat, b = a \/ b.version > a.version,
         NEW w, NEW x, w \subseteq x, NEW c \in MadeCalls, GoodCall(a, w, c)
  PROVE  GoodCall(b, x, c)
<1>1. c.aver \in Nat
  BY DEF MadeCalls
<1> QED
  BY <1>1, StillRead DEF GoodCall

\* A place without a call is not a call.
LEMMA CallKinds ==
  /\ NoCall \notin MadeCalls /\ Over \notin MadeCalls
  /\ \A c \in MadeCalls : c \notin {NoCall, Over}
BY DEF NoCall, Over, MadeCalls

\* What is stored can be read: an answer made of it is one from the server.
LEMMA ServerFacts ==
  ASSUME GoodServer
  PROVE  /\ server.status \in {"none", "analyzing", "ready", "failed"}
         /\ server.version \in Nat \ {0} /\ server.verified \in BOOLEAN
         /\ server.corrected \in BOOLEAN /\ IsQuestions(server.questions)
         /\ SetupOf(server) \in Setups /\ FromServer(server, SetupOf(server))
<1>1. /\ server.status \in {"none", "analyzing", "ready", "failed"}
      /\ server.version \in Nat \ {0} /\ server.verified \in BOOLEAN
      /\ server.corrected \in BOOLEAN /\ server.questions \in Seq(Wordings)
      /\ IsQuestions(server.questions)
  BY DEF GoodServer, Servers
<1>2. SetupOf(server) \in Setups
  BY <1>1 DEF SetupOf, Setups
<1> QED
  BY <1>1, <1>2 DEF FromServer, WasRead, SetupOf

-----------------------------------------------------------------------------
(* The panel alone.                                                        *)

\* A step of the panel alone keeps the invariant if it drops the preview or keeps it
\* with its selection.
LEMMA PanelStep ==
  ASSUME SetupInv, UNCHANGED <<server, page, copy, job, calls, seen>>, panel' \in Panels,
         \/ panel'.preview = NoPreview
         \/ /\ panel'.preview = panel.preview /\ panel'.intent = panel.intent
            /\ panel'.broken = panel.broken
  PROVE  SetupInv'
<1>1. GoodServer' /\ SavedWasSeen'
  BY DEF SetupInv, GoodServer, SavedWasSeen
<1>2. GoodPage' /\ GoodJob'
  BY DEF SetupInv, GoodPage, GoodJob, Entered
<1>3. GoodCalls'
  BY DEF SetupInv, GoodCalls
<1>4. GoodPanel'
  BY DEF SetupInv, GoodPanel, PreviewShown, Selecting, InPanel
<1> QED
  BY <1>1, <1>2, <1>3, <1>4 DEF SetupInv

\* What every step starts from.
LEMMA PanelFacts ==
  ASSUME SetupInv
  PROVE  panel \in Panels /\ page.at \in States
BY DEF SetupInv, GoodPanel, GoodPage, IsContext

\* Showing a page changes what is fetched, and nothing of the selection.
LEMMA ShowFacts ==
  ASSUME NEW pn \in Panels, Show(pn)
  PROVE  /\ panel' \in Panels /\ panel'.preview = pn.preview /\ panel'.intent = pn.intent
         /\ panel'.broken = pn.broken
<1>1. Fetching(page, pn) \in Pages \cup {0}
  BY DEF Fetching, Panels
<1> QED
  BY <1>1 DEF Show, Panels

\* A question on the page is of one of its pages.
LEMMA PageFact ==
  ASSUME NEW s, IsQuestions(s), NEW q \in Ids(s)
  PROVE  Min({PageOf[b] : b \in BlocksOf(s, q)}) \in Pages
<1> DEFINE S == {PageOf[b] : b \in BlocksOf(s, q)}
<1>1. BlocksOf(s, q) \in (SUBSET Blocks) \ {{}}
  BY PlaceFacts DEF Wordings
<1>2. S \subseteq Pages /\ S # {} /\ S \subseteq Nat
  BY <1>1, SetupAssumption DEF Pages
<1>3. Min(S) \in S
  BY <1>2, MinFact
<1> QED
  BY <1>2, <1>3

\* In the set-up the page has a copy that it read, of questions it can show.
LEMMA InSetupFacts ==
  ASSUME SetupInv, InSetup(page)
  PROVE  /\ Entered /\ server.status = "ready" /\ job = NoJob /\ FromServer(server, copy)
         /\ IsQuestions(copy.questions) /\ Ids(copy.questions) \subseteq QuestionIds
         /\ \A q \in Ids(copy.questions) : PageOfQuestion(q) \in Pages
<1>1. Entered
  BY DEF InSetup, Entered
<1>2. server.status = "ready" /\ job = NoJob /\ FromServer(server, copy)
  BY <1>1 DEF SetupInv, GoodPage
<1> QED
  BY <1>1, <1>2, IdFacts, PageFact DEF FromServer, PageOfQuestion

\* The student chooses a question: its page is shown.
LEMMA ChooseQuestionStep == \A q \in QuestionIds : SetupInv /\ ChooseQuestion(q) => SetupInv'
<1> SUFFICES ASSUME SetupInv, NEW q \in QuestionIds, ChooseQuestion(q) PROVE SetupInv'
  OBVIOUS
<1> DEFINE pn == [panel EXCEPT !.n = PageOfQuestion(q), !.removing = 0]
<1>1. InSetup(page) /\ q \in Ids(copy.questions)
  BY DEF ChooseQuestion, Listed, InPanel
<1>2. PageOfQuestion(q) \in Pages
  BY <1>1, InSetupFacts
<1>3. pn \in Panels /\ pn.preview = panel.preview /\ pn.intent = panel.intent
      /\ pn.broken = panel.broken
  BY <1>2, PanelFacts DEF Panels
<1>4. Show(pn) /\ UNCHANGED <<server, page, copy, job, calls, seen>>
  BY DEF ChooseQuestion
<1> HIDE DEF pn
<1> QED
  BY <1>3, <1>4, ShowFacts, PanelStep

\* The student turns to a page.
LEMMA TurnPageStep == \A n \in Pages : SetupInv /\ TurnPage(n) => SetupInv'
<1> SUFFICES ASSUME SetupInv, NEW n \in Pages, TurnPage(n) PROVE SetupInv'
  OBVIOUS
<1> DEFINE pn == [panel EXCEPT !.n = n]
<1>1. pn \in Panels /\ pn.preview = panel.preview /\ pn.intent = panel.intent
      /\ pn.broken = panel.broken
  BY PanelFacts DEF Panels
<1>2. Show(pn) /\ UNCHANGED <<server, page, copy, job, calls, seen>>
  BY DEF TurnPage
<1> HIDE DEF pn
<1> QED
  BY <1>1, <1>2, ShowFacts, PanelStep

\* Giving up a selection.
LEMMA CancelledFacts ==
  ASSUME NEW pn \in Panels
  PROVE  /\ CancelledSelection(pn) \in Panels /\ CancelledSelection(pn).preview = NoPreview
         /\ CancelledSelection(pn).broken = pn.broken
<1>1. NoPreview \in [n : 0..PageCount, blocks : SUBSET Blocks]
  BY SetupAssumption DEF NoPreview
<1> QED
  BY <1>1 DEF CancelledSelection, Panels

\* Choosing blocks withdraws the preview.
LEMMA ChosenFacts ==
  ASSUME NEW pn \in Panels, NEW blocks \in SUBSET Blocks, NEW broken \in BOOLEAN
  PROVE  /\ [pn EXCEPT !.selected = blocks, !.preview = NoPreview] \in Panels
         /\ [pn EXCEPT !.selected = blocks, !.preview = NoPreview, !.broken = broken] \in Panels
         /\ [pn EXCEPT !.selected = blocks, !.preview = NoPreview].preview = NoPreview
         /\ [pn EXCEPT !.selected = blocks, !.preview = NoPreview, !.broken = broken].preview
              = NoPreview
<1>1. NoPreview \in [n : 0..PageCount, blocks : SUBSET Blocks]
  BY SetupAssumption DEF NoPreview
<1> QED
  BY <1>1 DEF Panels

\* A selection begins, for a new question or in place of one.
LEMMA BeginSelectionStep ==
  ASSUME SetupInv, NEW kind \in {"add", "replace"}, NEW q \in QuestionIds \cup {0},
         BeginSelection(kind, q)
  PROVE  SetupInv'
<1> DEFINE n  == IF kind = "replace" THEN PageOfQuestion(q) ELSE panel.n
           pn == [CancelledSelection(panel) EXCEPT !.intent = [kind |-> kind, q |-> q], !.n = n]
<1>1. InSetup(page) /\ (kind = "replace" => q \in Ids(copy.questions))
  BY DEF BeginSelection, Editing, InPanel
<1>2. panel \in Panels /\ panel.n \in Pages
  BY PanelFacts DEF Panels
<1>3. n \in Pages
  BY <1>1, <1>2, InSetupFacts
<1>4. pn \in Panels /\ pn.preview = NoPreview
  BY <1>2, <1>3, CancelledFacts DEF Panels
<1>5. CancelledSelection(panel).n = panel.n
  BY <1>2 DEF CancelledSelection, Panels
<1>6. Show(pn) /\ UNCHANGED <<server, page, copy, job, calls, seen>>
  BY <1>5 DEF BeginSelection
<1> HIDE DEF pn
<1> QED
  BY <1>4, <1>6, ShowFacts, PanelStep

\* Choosing blocks, and the question whether to remove.
LEMMA SelectionStep ==
  ASSUME SetupInv,
         \/ CancelSelection \/ ChangeSelection
         \/ \E b \in Blocks : ToggleBlock(b)
         \/ \E blocks \in SUBSET Blocks : DragOver(blocks)
         \/ \E q \in QuestionIds \cup {0} : AskRemove(q)
  PROVE  SetupInv'
<1>1. panel \in Panels
  BY PanelFacts
<1>2. CASE CancelSelection
  BY <1>1, <1>2, CancelledFacts, PanelStep DEF CancelSelection
<1>3. CASE ChangeSelection
  <2>1. panel' \in Panels /\ panel'.preview = NoPreview
    BY <1>1, <1>3, SetupAssumption DEF ChangeSelection, Panels, NoPreview
  <2> QED
    BY <2>1, <1>3, PanelStep DEF ChangeSelection
<1>4. ASSUME NEW b \in Blocks, ToggleBlock(b) PROVE SetupInv'
  <2> DEFINE added  == panel.selected \cup {b}
             broken == ~(added \subseteq OnPage(panel.n))
  <2>1. /\ panel.selected \in SUBSET Blocks /\ added \in SUBSET Blocks
        /\ panel.selected \ {b} \in SUBSET Blocks /\ broken \in BOOLEAN
    BY <1>1 DEF Panels
  <2>2. \/ panel' = [panel EXCEPT !.selected = panel.selected \ {b}, !.preview = NoPreview]
        \/ panel' = [panel EXCEPT !.selected = added, !.preview = NoPreview, !.broken = broken]
    BY <1>1, <1>4 DEF ToggleBlock, Panels
  <2> HIDE DEF added, broken
  <2>3. panel' \in Panels /\ panel'.preview = NoPreview
    <3>1. ASSUME NEW S \in SUBSET Blocks,
                 panel' = [panel EXCEPT !.selected = S, !.preview = NoPreview]
          PROVE  panel' \in Panels /\ panel'.preview = NoPreview
      BY <1>1, <3>1, ChosenFacts
    <3>2. ASSUME NEW S \in SUBSET Blocks, NEW c \in BOOLEAN,
                 panel' = [panel EXCEPT !.selected = S, !.preview = NoPreview, !.broken = c]
          PROVE  panel' \in Panels /\ panel'.preview = NoPreview
      BY <1>1, <3>2, ChosenFacts, Zenon
    <3> QED
      BY <2>1, <2>2, <3>1, <3>2, Zenon
  <2> QED
    BY <2>3, <1>4, PanelStep DEF ToggleBlock
<1>5. ASSUME NEW blocks \in SUBSET Blocks, DragOver(blocks) PROVE SetupInv'
  <2>1. panel' \in Panels /\ panel'.preview = NoPreview
    BY <1>1, <1>5, ChosenFacts DEF DragOver
  <2> QED
    BY <2>1, <1>5, PanelStep DEF DragOver
<1>6. ASSUME NEW q \in QuestionIds \cup {0}, AskRemove(q) PROVE SetupInv'
  <2>1. /\ panel' \in Panels /\ panel'.preview = panel.preview /\ panel'.intent = panel.intent
        /\ panel'.broken = panel.broken
    BY <1>1, <1>6 DEF AskRemove, Panels
  <2> QED
    BY <2>1, <1>6, PanelStep DEF AskRemove
<1> QED
  BY <1>2, <1>3, <1>4, <1>5, <1>6

-----------------------------------------------------------------------------
(* Calls of the panel.                                                     *)

\* The operations the panel asks for.
LEMMA PlainOperation ==
  ASSUME NEW kind \in Kinds
  PROVE  /\ Operation(kind) \in Operations /\ Operation(kind).kind = kind
         /\ DOMAIN Operation(kind) = {"kind", "q", "n", "blocks", "order"}
<1>1. 0 \in 0..PageCount /\ {} \in SUBSET Blocks /\ <<>> \in Seq(QuestionIds)
  BY SetupAssumption
<1> QED
  BY <1>1 DEF Operation, Operations, Kinds

\* An operation that names a question.
LEMMA QuestionOperation ==
  ASSUME NEW kind \in Kinds, NEW q \in QuestionIds \cup {0}
  PROVE  LET o == [Operation(kind) EXCEPT !.q = q] IN o \in Operations /\ o.kind = kind
<1>1. 0 \in 0..PageCount /\ {} \in SUBSET Blocks /\ <<>> \in Seq(QuestionIds)
  BY SetupAssumption
<1> QED
  BY <1>1 DEF Operation, Operations, Kinds

\* An operation that names an order.
LEMMA OrderOperation ==
  ASSUME NEW kind \in Kinds, NEW order \in Seq(QuestionIds)
  PROVE  LET o == [Operation(kind) EXCEPT !.order = order] IN o \in Operations /\ o.kind = kind
<1>1. 0 \in 0..PageCount /\ {} \in SUBSET Blocks
  BY SetupAssumption
<1> QED
  BY <1>1 DEF Operation, Operations, Kinds

\* An operation that names a selection of text.
Selection(kind, q, n, blocks) == [Operation(kind) EXCEPT !.q = q, !.n = n, !.blocks = blocks]

LEMMA SelectionOperation ==
  ASSUME NEW kind \in Kinds, NEW q \in QuestionIds \cup {0}, NEW n \in 0..PageCount,
         NEW blocks \in SUBSET Blocks
  PROVE  /\ Selection(kind, q, n, blocks) \in Operations
         /\ Selection(kind, q, n, blocks).kind = kind
         /\ Selection(kind, q, n, blocks).blocks = blocks
<1>1. <<>> \in Seq(QuestionIds)
  OBVIOUS
<1> QED
  BY <1>1 DEF Selection, Operation, Operations, Kinds

\* A call made in the set-up carries the copy the student was looking at.
LEMMA CallFacts ==
  ASSUME GoodServer, FromServer(server, copy),
         NEW what \in {"preview", "mutate", "accept"}, NEW o \in Operations, NEW save \in BOOLEAN,
         what = "accept" <=> o.kind = "accept", what = "preview" <=> o.kind = "preview",
         o.kind # "any",
         o.kind \in {"add", "replace"} => o.blocks \in seen
  PROVE  /\ Call(what, o, save) \in MadeCalls
         /\ GoodCall(server, seen, Call(what, o, save))
<1>1. SetupOf(NoAssignment) \in Setups
  BY DEF SetupOf, NoAssignment, NewAssignment, Setups
<1>2. copy \in Setups /\ WasRead(server, copy.version, copy.questions)
  BY DEF FromServer
<1>3. Call(what, o, save) \in MadeCalls
  BY <1>1, <1>2 DEF Call, MadeCalls, Setups
<1>4. GoodCall(server, seen, Call(what, o, save))
  BY <1>2 DEF Call, GoodCall
<1> QED
  BY <1>3, <1>4

\* Making a call keeps the invariant, if a wording it would save was seen.
LEMMA IssueStep ==
  ASSUME SetupInv, InSetup(page),
         NEW what \in {"preview", "mutate", "accept"}, NEW o \in Operations, NEW save \in BOOLEAN,
         what = "accept" <=> o.kind = "accept", what = "preview" <=> o.kind = "preview",
         o.kind # "any",
         o.kind \in {"add", "replace"} => o.blocks \in seen,
         Issue(Call(what, o, save)), UNCHANGED <<server, page, copy, job, seen>>,
         panel' \in Panels, panel'.preview = panel.preview, panel'.intent = panel.intent,
         panel'.broken = panel.broken
  PROVE  SetupInv'
<1>1. GoodServer' /\ SavedWasSeen'
  BY DEF SetupInv, GoodServer, SavedWasSeen
<1>2. Entered /\ FromServer(server, copy)
  BY InSetupFacts
<1>3. GoodPage' /\ GoodJob'
  BY <1>2 DEF SetupInv, GoodPage, GoodJob, Entered
<1>4. GoodPanel'
  BY DEF SetupInv, GoodPanel, PreviewShown, Selecting, InPanel
<1>5. GoodCalls'
  <2> DEFINE c == Call(what, o, save)
  <2>1. c \in MadeCalls /\ GoodCall(server, seen, c)
    BY <1>2, CallFacts DEF SetupInv
  <2> HIDE DEF c
  <2>2. calls' = [calls EXCEPT ![Min(Unmade)] = c]
    BY DEF Issue, c
  <2> QED
    BY <2>1, <2>2 DEF SetupInv, GoodCalls
<1> QED
  BY <1>1, <1>3, <1>4, <1>5 DEF SetupInv

\* The flags of the panel have no part in the selection.
LEMMA PendingFacts ==
  ASSUME NEW pn \in Panels, NEW removing \in QuestionIds \cup {0}, NEW pending \in BOOLEAN
  PROVE  LET n == [pn EXCEPT !.pending = pending, !.removing = removing]
             m == [pn EXCEPT !.pending = pending]
         IN  /\ n \in Panels /\ n.preview = pn.preview /\ n.intent = pn.intent
             /\ n.broken = pn.broken
             /\ m \in Panels /\ m.preview = pn.preview /\ m.intent = pn.intent
             /\ m.broken = pn.broken
BY DEF Panels

\* What the student previews and saves.
LEMMA SelectedFacts ==
  ASSUME SetupInv, Selecting
  PROVE  /\ InSetup(page) /\ panel \in Panels
         /\ panel.intent.kind \in {"add", "replace"} /\ panel.intent.q \in QuestionIds \cup {0}
         /\ panel.n \in 0..PageCount /\ panel.selected \in SUBSET Blocks
         /\ panel.preview.blocks \in SUBSET Blocks
BY SetupAssumption DEF SetupInv, GoodPanel, Panels, Selecting, InPanel, Pages

\* The student asks to see the wording of the selection.
LEMMA ShowSelectionPreviewStep == SetupInv /\ ShowSelectionPreview => SetupInv'
<1> SUFFICES ASSUME SetupInv, ShowSelectionPreview PROVE SetupInv'
  OBVIOUS
<1> DEFINE o == [Operation("preview") EXCEPT !.q = panel.intent.q, !.n = panel.n,
                                            !.blocks = panel.selected]
<1>1. InSetup(page) /\ panel \in Panels /\ o \in Operations /\ o.kind = "preview"
  <2>1. Selecting
    BY DEF ShowSelectionPreview
  <2>2. "preview" \in Kinds
    BY DEF Kinds
  <2>3. /\ InSetup(page) /\ panel \in Panels /\ panel.intent.q \in QuestionIds \cup {0}
        /\ panel.n \in 0..PageCount /\ panel.selected \in SUBSET Blocks
    BY <2>1, SelectedFacts
  <2>4. o = Selection("preview", panel.intent.q, panel.n, panel.selected)
    BY DEF Selection
  <2> HIDE DEF o
  <2>5. o \in Operations /\ o.kind = "preview"
    BY <2>2, <2>3, <2>4, SelectionOperation
  <2> QED
    BY <2>3, <2>5
<1>2. Issue(Call("preview", o, FALSE)) /\ UNCHANGED <<server, page, copy, job, seen>>
  BY DEF ShowSelectionPreview
<1>3. panel' = [panel EXCEPT !.pending = TRUE]
  BY DEF ShowSelectionPreview
<1> HIDE DEF o
<1> QED
  BY <1>1, <1>2, <1>3, PendingFacts, IssueStep

\* The student saves it: only what was shown can be saved.
LEMMA SaveSelectionStep == SetupInv /\ SaveSelection => SetupInv'
<1> SUFFICES ASSUME SetupInv, SaveSelection PROVE SetupInv'
  OBVIOUS
<1> DEFINE o == SavedOperation(panel)
<1>1. InSetup(page) /\ panel \in Panels
  BY SelectedFacts DEF SaveSelection
<1>2. o \in Operations /\ o.kind \in {"add", "replace"} /\ o.blocks = panel.preview.blocks
  <2>1. Selecting
    BY DEF SaveSelection
  <2>2. panel.intent.kind \in Kinds
    BY <2>1, SelectedFacts DEF Kinds
  <2>3. /\ o \in Operations /\ o.kind = panel.intent.kind
        /\ o.blocks = panel.preview.blocks
    <3>1. /\ panel.intent.q \in QuestionIds \cup {0} /\ panel.n \in 0..PageCount
          /\ panel.preview.blocks \in SUBSET Blocks
      BY <2>1, SelectedFacts
    <3>2. o = Selection(panel.intent.kind, panel.intent.q, panel.n, panel.preview.blocks)
      BY DEF Selection, SavedOperation
    <3> HIDE DEF o
    <3> QED
      BY <2>2, <3>1, <3>2, SelectionOperation
  <2> QED
    BY <2>1, <2>3, SelectedFacts
<1>3. panel.preview.blocks \in seen
  BY DEF SetupInv, GoodPanel, PreviewShown, SaveSelection
<1>4. Issue(Call("mutate", o, TRUE)) /\ UNCHANGED <<server, page, copy, job, seen>>
  BY DEF SaveSelection
<1>5. panel' = [panel EXCEPT !.pending = TRUE]
  BY DEF SaveSelection
<1> HIDE DEF o
<1> QED
  BY <1>1, <1>2, <1>3, <1>4, <1>5, PendingFacts, IssueStep

\* runMutation, for the operations that save no wording.
LEMMA RunMutationStep ==
  ASSUME SetupInv, InSetup(page), NEW o \in Operations, o.kind \in {"remove", "reorder", "reset"},
         RunMutation(o)
  PROVE  SetupInv'
<1> DEFINE removing == IF o.kind = "remove" THEN 0 ELSE panel.removing
<1>1. removing \in QuestionIds \cup {0} /\ panel \in Panels
  BY PanelFacts DEF Panels
<1>2. panel' = [panel EXCEPT !.pending = TRUE, !.removing = removing]
  BY <1>1 DEF RunMutation, Panels
<1> HIDE DEF removing
<1>3. /\ panel' \in Panels /\ panel'.preview = panel.preview /\ panel'.intent = panel.intent
      /\ panel'.broken = panel.broken
  BY <1>1, <1>2, PendingFacts
<1>4. Issue(Call("mutate", o, FALSE)) /\ UNCHANGED <<server, page, copy, job, seen>>
  BY DEF RunMutation
<1> QED
  BY <1>3, <1>4, IssueStep

\* Up or down, removing, and back to what was detected.
LEMMA CorrectionStep ==
  ASSUME SetupInv,
         \/ \E i \in 1..Len(copy.questions) : Reorder(i)
         \/ RemoveQuestion \/ ResetToDetected
  PROVE  SetupInv'
<1>1. InSetup(page)
  BY DEF Reorder, RemoveQuestion, ResetToDetected, Editing, InPanel
<1>2. IsQuestions(copy.questions)
  BY <1>1, InSetupFacts
<1>3. ASSUME NEW i \in 1..Len(copy.questions), Reorder(i) PROVE SetupInv'
  <2> DEFINE s == IdSeq(copy.questions)
             t == Swapped(s, i)
             o == [Operation("reorder") EXCEPT !.order = t]
  <2>1. s \in Seq(QuestionIds) /\ DOMAIN s = 1..Len(copy.questions)
    BY <1>2, IdFacts
  <2>2. i \in DOMAIN copy.questions /\ i + 1 \in DOMAIN copy.questions
    BY <1>3 DEF Reorder
  <2>3. DOMAIN copy.questions = 1..Len(copy.questions)
    BY <1>2, DistinctIds
  <2>4. t \in Seq(QuestionIds)
    BY <2>1, <2>2, <2>3 DEF Swapped
  <2>5. o \in Operations /\ o.kind = "reorder"
    BY <2>4, OrderOperation DEF Kinds
  <2>6. RunMutation(o)
    BY <1>3 DEF Reorder
  <2> HIDE DEF o
  <2> QED
    BY <1>1, <2>5, <2>6, RunMutationStep
<1>4. CASE RemoveQuestion
  <2> DEFINE o == [Operation("remove") EXCEPT !.q = panel.removing]
  <2>1. panel.removing \in QuestionIds \cup {0}
    BY PanelFacts DEF Panels
  <2>2. o \in Operations /\ o.kind = "remove"
    BY <2>1, QuestionOperation DEF Kinds
  <2>3. RunMutation(o)
    BY <1>4 DEF RemoveQuestion
  <2> HIDE DEF o
  <2> QED
    BY <1>1, <2>2, <2>3, RunMutationStep
<1>5. CASE ResetToDetected
  <2>1. Operation("reset") \in Operations /\ Operation("reset").kind = "reset"
    BY PlainOperation DEF Kinds
  <2> QED
    BY <1>1, <1>5, <2>1, RunMutationStep DEF ResetToDetected
<1> QED
  BY <1>3, <1>4, <1>5

\* The student accepts the questions.
LEMMA AcceptStep == SetupInv /\ Accept => SetupInv'
<1> SUFFICES ASSUME SetupInv, Accept PROVE SetupInv'
  OBVIOUS
<1>1. InSetup(page) /\ panel \in Panels
  BY PanelFacts DEF Accept, InPanel
<1>2. Operation("accept") \in Operations /\ Operation("accept").kind = "accept"
  BY PlainOperation DEF Kinds
<1>3. /\ Issue(Call("accept", Operation("accept"), FALSE))
      /\ UNCHANGED <<server, page, copy, job, seen>>
      /\ panel' = [panel EXCEPT !.pending = TRUE]
  BY DEF Accept
<1> QED
  BY <1>1, <1>2, <1>3, PendingFacts, IssueStep

-----------------------------------------------------------------------------
(* The page's own steps, and the answers.                                  *)

\* A step of the set-up's page that leaves the server, what was read and what was
\* shown alone; the panel keeps its selection or is new.
LEMMA PageStep ==
  ASSUME SetupInv, UNCHANGED <<server, copy, calls, seen>>, GoodJob', IsContext(page'),
         (page'.at = page.at) \/ (InSetup(page) /\ InSetup(page')), job' = job,
         panel' \in Panels, panel'.preview = panel.preview, panel'.intent = panel.intent,
         panel'.broken = panel.broken
  PROVE  SetupInv'
<1>1. GoodServer' /\ SavedWasSeen'
  BY DEF SetupInv, GoodServer, SavedWasSeen
<1>2. GoodPage'
  <2>1. Entered' = Entered
    BY DEF Entered, InSetup
  <2> QED
    BY <2>1 DEF SetupInv, GoodPage, Entered, InSetup
<1>3. GoodCalls'
  BY DEF SetupInv, GoodCalls
<1>4. GoodPanel'
  <2>1. InSetup(page') = InSetup(page)
    BY DEF InSetup
  <2> QED
    BY <2>1 DEF SetupInv, GoodPanel, PreviewShown, Selecting, InPanel
<1> QED
  BY <1>1, <1>2, <1>3, <1>4 DEF SetupInv

\* The student opens the editing of questions, or leaves it.
LEMMA EnterOrLeaveEditStep == SetupInv /\ EnterOrLeaveEdit => SetupInv'
<1> SUFFICES ASSUME SetupInv, EnterOrLeaveEdit PROVE SetupInv'
  OBVIOUS
<1>1. InSetup(page) /\ IsContext(page) /\ panel \in Panels
  BY PanelFacts DEF EnterOrLeaveEdit, InPanel, SetupInv, GoodPage
<1>2. IsContext(page') /\ InSetup(page')
  BY <1>1, EditTurns DEF EnterOrLeaveEdit
<1>3. Fetching(page', panel) \in Pages \cup {0}
  BY <1>1 DEF Fetching, Panels
<1>4. /\ panel' \in Panels /\ panel'.preview = panel.preview /\ panel'.intent = panel.intent
      /\ panel'.broken = panel.broken
  BY <1>1, <1>3 DEF EnterOrLeaveEdit, Panels
<1>5. UNCHANGED <<server, copy, calls, seen>> /\ job' = job
  BY DEF EnterOrLeaveEdit
<1>6. GoodJob'
  BY <1>1, <1>5, InSetupFacts DEF GoodJob
<1> QED
  BY <1>1, <1>2, <1>4, <1>5, <1>6, PageStep

\* The text of a page arrives.
LEMMA TakeBlocksStep == SetupInv /\ TakeBlocks => SetupInv'
<1> SUFFICES ASSUME SetupInv, TakeBlocks PROVE SetupInv'
  OBVIOUS
<1> DEFINE pn == [panel EXCEPT !.known = panel.known \cup {panel.fetching}]
<1>1. pn \in Panels /\ pn.preview = panel.preview /\ pn.intent = panel.intent
      /\ pn.broken = panel.broken
  BY PanelFacts DEF Panels, TakeBlocks
<1>2. Show(pn) /\ UNCHANGED <<server, page, copy, job, calls, seen>>
  BY DEF TakeBlocks
<1> HIDE DEF pn
<1> QED
  BY <1>1, <1>2, ShowFacts, PanelStep

\* It does not arrive.
LEMMA LoseBlocksStep == SetupInv /\ LoseBlocks => SetupInv'
<1> SUFFICES ASSUME SetupInv, LoseBlocks PROVE SetupInv'
  OBVIOUS
<1>1. InSetup(page) /\ IsContext(page) /\ panel \in Panels
  BY PanelFacts DEF LoseBlocks, InPanel, SetupInv, GoodPage
<1>2. IsContext(page') /\ page'.at = page.at
  BY <1>1, FailureTurns DEF LoseBlocks
<1>3. /\ panel' \in Panels /\ panel'.preview = panel.preview /\ panel'.intent = panel.intent
      /\ panel'.broken = panel.broken
  BY <1>1 DEF LoseBlocks, Panels
<1>4. UNCHANGED <<server, copy, calls, seen>> /\ job' = job
  BY DEF LoseBlocks
<1>5. GoodJob'
  BY <1>1, <1>4, InSetupFacts DEF GoodJob
<1>6. (page'.at = page.at) \/ (InSetup(page) /\ InSetup(page'))
  BY <1>2
<1> QED
  BY <1>1, <1>2, <1>3, <1>4, <1>5, <1>6, PageStep

\* What every answer starts from: calls are made in the set-up only.
LEMMA CallsFacts ==
  ASSUME SetupInv, NEW i \in DOMAIN calls, calls[i] \notin {NoCall, Over}
  PROVE  /\ i \in 1..MaxCalls /\ calls[i] \in MadeCalls /\ GoodCall(server, seen, calls[i])
         /\ Entered /\ server.status = "ready" /\ job = NoJob /\ FromServer(server, copy)
<1>1. i \in 1..MaxCalls /\ calls[i] \in MadeCalls /\ GoodCall(server, seen, calls[i])
  BY DEF SetupInv, GoodCalls
<1>2. Entered
  BY DEF SetupInv, GoodPage
<1> QED
  BY <1>1, <1>2 DEF SetupInv, GoodPage

\* What a call becomes, an answer or nothing.
LEMMA AnswerTypes ==
  ASSUME NEW c \in MadeCalls, NEW a, NEW w
  PROVE  /\ Failed(c) \in MadeCalls /\ GoodCall(a, w, Failed(c)) /\ Failed(c).ans = "failed"
         /\ \A got \in Setups :
              c.what # "preview" => Reply(c, got) \in MadeCalls /\ Reply(c, got).got = got
         /\ \A got \in Setups : c.what = "preview" => Reply(c, got) \in MadeCalls
         /\ \A got : /\ Reply(c, got).ans = "ok" /\ Reply(c, got).what = c.what
                     /\ Reply(c, got).o.kind = IF c.what = "preview" THEN c.o.kind ELSE "any"
<1>1. /\ Operation("any") \in Operations /\ <<>> \in Seq(Wordings) /\ 0 \in Nat
      /\ FALSE \in BOOLEAN
  BY PlainOperation DEF Kinds
<1>2. Failed(c) \in MadeCalls /\ Failed(c).ans = "failed"
  BY <1>1 DEF Failed, MadeCalls
<1>3. ASSUME NEW got
      PROVE  /\ Reply(c, got).ans = "ok" /\ Reply(c, got).what = c.what
             /\ Reply(c, got).o.kind = IF c.what = "preview" THEN c.o.kind ELSE "any"
  BY DEF Reply, MadeCalls, Operation
<1>4. ASSUME NEW got \in Setups, c.what # "preview"
      PROVE  Reply(c, got) \in MadeCalls /\ Reply(c, got).got = got
  BY <1>1, <1>4 DEF Reply, MadeCalls
<1>5. ASSUME NEW got \in Setups, c.what = "preview"
      PROVE  Reply(c, got) \in MadeCalls
  BY <1>1, <1>5 DEF Reply, MadeCalls
<1> QED
  BY <1>2, <1>3, <1>4, <1>5 DEF GoodCall

\* What an operation leaves on the server.
LEMMA MutatedFacts ==
  ASSUME SetupInv, server.status = "ready", NEW o \in Operations, Applicable(server, o),
         o.kind \in {"add", "replace", "remove", "reorder", "reset", "accept"},
         o.kind \in {"add", "replace"} => o.blocks \in seen
  PROVE  LET b == Mutated(server, o)
         IN  /\ b \in Servers /\ b.status = "ready" /\ b.version = server.version + 1
             /\ IsQuestions(b.questions)
             /\ \A x \in Range(b.questions) : x.blocks \in seen \/ x \in Range(Found)
             /\ b.verified => o.kind = "accept" /\ b.questions = server.questions
<1> DEFINE b == Mutated(server, o)
<1>1. /\ server \in Servers /\ IsQuestions(server.questions)
      /\ server.version \in Nat /\ server.version + 1 \in Nat \ {0}
  BY DEF SetupInv, GoodServer, Servers
<1>2. CASE o.kind = "accept"
  <2>1. b = [server EXCEPT !.version = server.version + 1, !.verified = TRUE]
    BY <1>2 DEF Mutated
  <2> HIDE DEF b
  <2>2. /\ b \in Servers /\ b.status = "ready" /\ b.version = server.version + 1
        /\ b.questions = server.questions
    BY <1>1, <2>1 DEF Servers
  <2> QED
    BY <1>1, <1>2, <2>2 DEF SetupInv, SavedWasSeen, b
<1>3. CASE o.kind # "accept"
  <2> DEFINE t == Asked(server, o)
             c == (o.kind # "reset")
  <2>1. Makes(server.questions, o, t) /\ IsQuestions(t) /\ t \in Seq(Wordings)
    BY <1>1, <1>3, AskedFacts, DistinctIds DEF Makes
  <2>2. b = [server EXCEPT !.version = server.version + 1, !.verified = FALSE,
                           !.corrected = c, !.questions = t]
    BY <1>3 DEF Mutated
  <2>3. c \in BOOLEAN
    OBVIOUS
  <2> HIDE DEF t, c, b
  <2>4. /\ b \in Servers /\ b.status = "ready" /\ b.version = server.version + 1
        /\ b.questions = t /\ b.verified = FALSE
    BY <1>1, <2>1, <2>2, <2>3 DEF Servers
  <2>5. \A x \in Range(t) : x.blocks \in seen \/ x \in Range(Found)
    <3> SUFFICES ASSUME NEW i \in 1..Len(t) PROVE t[i].blocks \in seen \/ t[i] \in Range(Found)
      BY <2>1 DEF Range
    <3> QED
      BY <2>1 DEF Makes, SetupInv, SavedWasSeen
  <2> QED
    BY <2>1, <2>4, <2>5 DEF b
<1> QED
  BY <1>2, <1>3

\* A request the server handles.
Serves(a, c, b, d) ==
  /\ b = a \/ /\ c.what # "preview" /\ CurrentVersion(a, c.aver) /\ Applicable(a, c.o)
              /\ b = Mutated(a, c.o)
  /\ d = Failed(c) \/ d = Reply(c, SetupOf(b))

\* A call is handled on what the server has then.
LEMMA ServeFacts ==
  ASSUME NEW i \in DOMAIN calls, ServeCall(i)
  PROVE  /\ calls[i] \notin {NoCall, Over} /\ calls[i].ans = "none"
         /\ \E d : Serves(server, calls[i], server', d) /\ calls' = [calls EXCEPT ![i] = d]
         /\ UNCHANGED <<page, copy, job, panel, seen>>
<1> DEFINE c == calls[i]
<1>1. PICK h \in IF c.what = "preview" THEN PreviewReplies(server, c)
                 ELSE MutationReplies(server, c) :
        server' = h.a /\ calls' = [calls EXCEPT ![i] = h.c]
  BY DEF ServeCall
<1>2. CASE c.what = "preview"
  <2>1. h \in Refused(server, c) \cup Handled(server, c, Reply(c, SetupOf(server)))
    BY <1>1, <1>2 DEF PreviewReplies
  <2>2. h.a = server /\ h.c \in {Failed(c), Reply(c, SetupOf(server))}
    BY <2>1 DEF Refused, Handled
  <2> QED
    BY <1>1, <2>2 DEF Serves, ServeCall, Asking
<1>3. CASE c.what # "preview"
  <2> DEFINE m == Mutated(server, c.o)
  <2>1. \/ h \in Refused(server, c)
        \/ /\ CurrentVersion(server, c.aver) /\ Applicable(server, c.o)
           /\ h \in Handled(m, c, Reply(c, SetupOf(m)))
    BY <1>1, <1>3 DEF MutationReplies
  <2>2. \/ h.a = server /\ h.c = Failed(c)
        \/ /\ CurrentVersion(server, c.aver) /\ Applicable(server, c.o)
           /\ h.a = m /\ h.c \in {Failed(c), Reply(c, SetupOf(m))}
    BY <2>1 DEF Refused, Handled
  <2> QED
    BY <1>1, <1>3, <2>2 DEF Serves, ServeCall, Asking
<1> QED
  BY <1>2, <1>3

\* The calls after one of them turned into something good.
LEMMA CallsStep ==
  ASSUME GoodServer, GoodCalls, NEW b, b.version \in Nat,
         b = server \/ b.version > server.version,
         NEW w, seen \subseteq w, NEW i \in 1..MaxCalls,
         NEW d \in {Over} \cup MadeCalls, d \in MadeCalls => GoodCall(b, w, d),
         calls' = [calls EXCEPT ![i] = d]
  PROVE  /\ calls' \in [1..MaxCalls -> {NoCall, Over} \cup MadeCalls]
         /\ \A j \in 1..MaxCalls : calls'[j] \in MadeCalls => GoodCall(b, w, calls'[j])
<1>1. calls' \in [1..MaxCalls -> {NoCall, Over} \cup MadeCalls]
  BY DEF GoodCalls
<1>2. server.version \in Nat
  BY DEF GoodServer, Servers
<1>3. ASSUME NEW j \in 1..MaxCalls, calls'[j] \in MadeCalls PROVE GoodCall(b, w, calls'[j])
  <2>1. CASE j = i
    BY <1>3, <2>1 DEF GoodCalls
  <2>2. CASE j # i
    <3>1. calls'[j] = calls[j] /\ GoodCall(server, seen, calls[j]) /\ calls[j] \in MadeCalls
      BY <1>3, <2>2 DEF GoodCalls
    <3> QED
      BY <1>2, <3>1, StillGood
  <2> QED
    BY <2>1, <2>2
<1> QED
  BY <1>1, <1>3

\* The server handles a call: what it stores is a list of questions of a new version,
\* and every wording it saves was seen.
LEMMA ServeCallStep ==
  ASSUME SetupInv, NEW i \in DOMAIN calls, ServeCall(i)
  PROVE  SetupInv'
<1> DEFINE c == calls[i]
<1>1. /\ c \notin {NoCall, Over} /\ c.ans = "none"
      /\ UNCHANGED <<page, copy, job, panel, seen>>
  BY ServeFacts
<1>2. PICK d : Serves(server, c, server', d) /\ calls' = [calls EXCEPT ![i] = d]
  BY ServeFacts
<1>3. /\ i \in 1..MaxCalls /\ c \in MadeCalls /\ GoodCall(server, seen, c)
      /\ Entered /\ server.status = "ready" /\ job = NoJob /\ FromServer(server, copy)
  BY <1>1, CallsFacts
<1> HIDE DEF c
<1>4. /\ GoodServer' /\ SavedWasSeen' /\ server'.status = "ready"
      /\ server' = server \/ server'.version > server.version
  <2>1. CASE server' = server
    BY <2>1, <1>1, <1>3 DEF SetupInv, GoodServer, SavedWasSeen
  <2>2. CASE /\ c.what # "preview" /\ Applicable(server, c.o)
             /\ server' = Mutated(server, c.o)
    <3>1. c.o \in Operations /\ c.o.kind \in Kinds
      BY <1>3 DEF MadeCalls, Operations
    <3>2. c.o.kind \in {"add", "replace", "remove", "reorder", "reset", "accept"}
        BY <1>1, <1>3, <2>2, <3>1 DEF GoodCall, Kinds
    <3>3. c.o.kind \in {"add", "replace"} => c.o.blocks \in seen
      BY <1>1, <1>3 DEF GoodCall
    <3> QED
      <4>1. /\ server' \in Servers /\ server'.status = "ready"
            /\ server'.version = server.version + 1 /\ IsQuestions(server'.questions)
            /\ \A x \in Range(server'.questions) : x.blocks \in seen \/ x \in Range(Found)
        BY <1>3, <2>2, <3>1, <3>2, <3>3, MutatedFacts
      <4>2. server.version \in Nat /\ seen' = seen
        BY <1>1 DEF SetupInv, GoodServer, Servers
      <4>3. GoodServer' /\ SavedWasSeen'
        BY <4>1, <4>2 DEF GoodServer, SavedWasSeen
      <4> QED
        BY <4>1, <4>2, <4>3
  <2> QED
    BY <1>2, <2>1, <2>2 DEF Serves
<1>5. server.version \in Nat /\ server'.version \in Nat
  BY <1>4 DEF SetupInv, GoodServer, Servers
<1>6. GoodPage' /\ GoodJob' /\ GoodPanel'
  <2>1. FromServer(server', copy)
    BY <1>3, <1>4, <1>5, StillRead
  <2> QED
    BY <1>1, <1>3, <1>4, <2>1
    DEF SetupInv, GoodPage, GoodJob, GoodPanel, PreviewShown, Entered, Selecting, InPanel
<1>7. d \in MadeCalls /\ GoodCall(server', seen, d)
  <2>1. FromServer(server', SetupOf(server')) /\ SetupOf(server') \in Setups
    <3>1. /\ SetupOf(server') \in Setups
          /\ IsQuestions(server'.questions) /\ server'.version \in Nat
      BY <1>4 DEF GoodServer, Servers, SetupOf, Setups
    <3> QED
      BY <3>1 DEF FromServer, WasRead, SetupOf
  <2>2. CASE d = Failed(c)
    BY <1>3, <2>2, AnswerTypes
  <2>3. CASE d = Reply(c, SetupOf(server'))
    <3>1. /\ d \in MadeCalls /\ d.ans = "ok" /\ d.what = c.what
          /\ d.what # "preview" => d.got = SetupOf(server')
          /\ d.o.kind = IF c.what = "preview" THEN c.o.kind ELSE "any"
      BY <1>3, <2>1, <2>3, AnswerTypes
    <3>2. c.what # "any" /\ (c.what = "preview" <=> c.o.kind = "preview")
      BY <1>1, <1>3 DEF GoodCall
    <3> QED
      BY <2>1, <3>1, <3>2 DEF GoodCall
  <2> QED
    BY <1>2, <2>2, <2>3 DEF Serves
<1>8. GoodCalls'
  BY <1>1, <1>2, <1>3, <1>4, <1>5, <1>7, CallsStep DEF SetupInv, GoodCalls
<1> QED
  BY <1>4, <1>6, <1>8 DEF SetupInv

\* A call is lost before or after the server handled it.
LEMMA LoseCallStep ==
  ASSUME SetupInv, NEW i \in DOMAIN calls, LoseCall(i)
  PROVE  SetupInv'
<1>1. /\ calls[i] \notin {NoCall, Over} /\ calls' = [calls EXCEPT ![i] = Failed(calls[i])]
      /\ UNCHANGED <<server, page, copy, job, panel, seen>>
  BY DEF LoseCall, Asking
<1>2. i \in 1..MaxCalls /\ calls[i] \in MadeCalls /\ Entered
  BY <1>1, CallsFacts
<1>3. Failed(calls[i]) \in MadeCalls /\ GoodCall(server, seen, Failed(calls[i]))
  BY <1>2, AnswerTypes
<1>4. server.version \in Nat
  BY DEF SetupInv, GoodServer, Servers
<1>5. GoodCalls'
  BY <1>1, <1>2, <1>3, <1>4, CallsStep DEF SetupInv, GoodCalls
<1>6. GoodServer' /\ SavedWasSeen' /\ GoodPage' /\ GoodJob' /\ GoodPanel'
  BY <1>1, <1>2
  DEF SetupInv, GoodServer, SavedWasSeen, GoodPage, GoodJob, GoodPanel, PreviewShown, Entered,
      Selecting, InPanel
<1> QED
  BY <1>5, <1>6 DEF SetupInv

\* The panel takes an answer: the call is over, the page and its copy stand as they
\* stood or as the answer says, and a preview was shown if it can be saved.
LEMMA TakeStep ==
  ASSUME SetupInv, NEW i \in DOMAIN calls, calls[i] \notin {NoCall, Over}, Done(i),
         UNCHANGED <<server, job>>,
         IsContext(page'),
         (page'.at = page.at) \/ (InSetup(page) /\ page'.at = "conversation"),
         (copy' = copy) \/ FromServer(server, copy'), seen \subseteq seen',
         panel' \in Panels,
         PreviewShown'
  PROVE  SetupInv'
<1>1. i \in 1..MaxCalls /\ Entered /\ server.status = "ready" /\ job = NoJob
      /\ FromServer(server, copy)
  BY CallsFacts
<1>2. server.version \in Nat
  BY DEF SetupInv, GoodServer, Servers
<1>3. GoodCalls'
  BY <1>1, <1>2, CallsStep, CallKinds DEF SetupInv, GoodCalls, Done
<1>4. GoodServer' /\ SavedWasSeen'
  BY DEF SetupInv, GoodServer, SavedWasSeen
<1>5. Entered' /\ GoodPage' /\ GoodJob'
  BY <1>1 DEF SetupInv, GoodPage, GoodJob, Entered, InSetup
<1>6. GoodPanel'
  BY DEF SetupInv, GoodPanel
<1> QED
  BY <1>3, <1>4, <1>5, <1>6 DEF SetupInv

\* What the taking of an answer starts from.
LEMMA TakenFacts ==
  ASSUME SetupInv, NEW i \in DOMAIN calls, NEW ans, AnswerIs(i, ans)
  PROVE  /\ calls[i] \notin {NoCall, Over} /\ calls[i] \in MadeCalls /\ calls[i].ans = ans
         /\ GoodCall(server, seen, calls[i]) /\ IsContext(page) /\ panel \in Panels
BY CallsFacts DEF AnswerIs, SetupInv, GoodPage, GoodPanel

\* The page hears that a call failed.
LEMMA TakeRefusalStep ==
  ASSUME SetupInv, NEW i \in DOMAIN calls, TakeRefusal(i)
  PROVE  SetupInv'
<1>1. /\ calls[i] \notin {NoCall, Over} /\ IsContext(page) /\ panel \in Panels
  BY TakenFacts DEF TakeRefusal
<1>2. /\ panel' \in Panels /\ panel'.preview = panel.preview /\ panel'.intent = panel.intent
      /\ panel'.broken = panel.broken
  BY <1>1, PendingFacts DEF TakeRefusal
<1>3. Done(i) /\ UNCHANGED <<server, job>> /\ copy' = copy /\ seen' = seen
  BY DEF TakeRefusal
<1>4. IsContext(page') /\ page'.at = page.at
  BY <1>1, FailureTurns DEF TakeRefusal
<1>5. PreviewShown'
  BY <1>2, <1>3, <1>4 DEF SetupInv, GoodPanel, PreviewShown, Selecting, InPanel, InSetup
<1>6. /\ (page'.at = page.at) \/ (InSetup(page) /\ page'.at = "conversation")
      /\ (copy' = copy) \/ FromServer(server, copy')
      /\ seen \subseteq seen'
  BY <1>3, <1>4
<1> QED
  BY <1>1, <1>2, <1>3, <1>4, <1>5, <1>6, TakeStep

\* A preview arrives: from now on its wording has been seen.
LEMMA TakePreviewStep ==
  ASSUME SetupInv, NEW i \in DOMAIN calls, TakePreview(i)
  PROVE  SetupInv'
<1> DEFINE preview == [n |-> calls[i].o.n, blocks |-> calls[i].o.blocks]
<1>1. /\ calls[i] \notin {NoCall, Over} /\ IsContext(page) /\ panel \in Panels
      /\ calls[i].o \in Operations
  BY TakenFacts DEF TakePreview, MadeCalls
<1>2. preview \in [n : 0..PageCount, blocks : SUBSET Blocks]
  BY <1>1, OperationFacts
<1>3. /\ panel' = [panel EXCEPT !.pending = FALSE, !.preview = preview]
      /\ seen' = IF Selecting THEN seen \cup {preview.blocks} ELSE seen
      /\ Done(i) /\ UNCHANGED <<server, job>> /\ copy' = copy /\ page' = page
  BY DEF TakePreview
<1> HIDE DEF preview
<1>4. /\ panel' \in Panels /\ panel'.preview = preview /\ panel'.intent = panel.intent
      /\ panel'.broken = panel.broken
  BY <1>1, <1>2, <1>3 DEF Panels
<1>5. Selecting' = Selecting
  BY <1>3, <1>4 DEF Selecting, InPanel
<1>6. PreviewShown'
  BY <1>3, <1>4, <1>5 DEF PreviewShown
<1>7. /\ (page'.at = page.at) \/ (InSetup(page) /\ page'.at = "conversation")
      /\ (copy' = copy) \/ FromServer(server, copy')
      /\ seen \subseteq seen'
  BY <1>3
<1> QED
  BY <1>1, <1>3, <1>4, <1>6, <1>7, TakeStep

\* The answer to a correction arrives.
LEMMA TakeMutationStep ==
  ASSUME SetupInv, NEW i \in DOMAIN calls, TakeMutation(i)
  PROVE  SetupInv'
<1> DEFINE s == calls[i].got
<1>1. /\ calls[i] \notin {NoCall, Over} /\ IsContext(page) /\ panel \in Panels
      /\ FromServer(server, s)
  BY TakenFacts DEF TakeMutation, GoodCall
<1>2. /\ page' = QuestionSetupUpdated(page, s.version, IdSeq(s.questions), s.verified)
      /\ copy' = (IF InSetup(page) THEN s ELSE copy)
      /\ Done(i) /\ UNCHANGED <<server, job>> /\ seen' = seen
  BY DEF TakeMutation
<1>3. panel' = IF calls[i].save THEN [CancelledSelection(panel) EXCEPT !.pending = FALSE]
               ELSE [panel EXCEPT !.pending = FALSE]
  BY DEF TakeMutation
<1> HIDE DEF s
<1>4. IsContext(page') /\ page'.at = page.at
  BY <1>1, <1>2, ListTurns DEF FromServer, Setups
<1>5. /\ panel' \in Panels
      /\ \/ panel'.preview = NoPreview
         \/ /\ panel'.preview = panel.preview /\ panel'.intent = panel.intent
            /\ panel'.broken = panel.broken
  <2>1. CASE calls[i].save
    <3> DEFINE pn == CancelledSelection(panel)
    <3>1. pn \in Panels /\ pn.preview = NoPreview /\ panel' = [pn EXCEPT !.pending = FALSE]
      BY <1>1, <1>3, <2>1, CancelledFacts
    <3> HIDE DEF pn
    <3> QED
      BY <3>1, PendingFacts
  <2>2. CASE ~calls[i].save
    BY <1>1, <1>3, <2>2, PendingFacts
  <2> QED
    BY <2>1, <2>2
<1>6. PreviewShown'
  BY <1>2, <1>4, <1>5 DEF SetupInv, GoodPanel, PreviewShown, Selecting, InPanel, InSetup
<1>7. /\ (page'.at = page.at) \/ (InSetup(page) /\ page'.at = "conversation")
      /\ (copy' = copy) \/ FromServer(server, copy')
      /\ seen \subseteq seen'
  BY <1>1, <1>2, <1>4
<1> QED
  BY <1>1, <1>2, <1>4, <1>5, <1>6, <1>7, TakeStep

\* The answer to the acceptance arrives.
LEMMA TakeAcceptanceStep ==
  ASSUME SetupInv, NEW i \in DOMAIN calls, TakeAcceptance(i)
  PROVE  SetupInv'
<1> DEFINE s == calls[i].got
<1>1. /\ calls[i] \notin {NoCall, Over} /\ IsContext(page) /\ panel \in Panels
      /\ FromServer(server, s)
  BY TakenFacts DEF TakeAcceptance, GoodCall
<1>2. /\ page' = QuestionSetupAccepted(page, s.version, IdSeq(s.questions), s.verified)
      /\ copy' = (IF InSetup(page) THEN s ELSE copy)
      /\ panel' = [panel EXCEPT !.pending = FALSE]
      /\ Done(i) /\ UNCHANGED <<server, job>> /\ seen' = seen
  BY DEF TakeAcceptance
<1> HIDE DEF s
<1>3. IsContext(page') /\ page'.at = IF InSetup(page) THEN "conversation" ELSE page.at
  BY <1>1, <1>2, ListTurns DEF FromServer, Setups
<1>4. /\ panel' \in Panels /\ panel'.preview = panel.preview /\ panel'.intent = panel.intent
      /\ panel'.broken = panel.broken
  BY <1>1, <1>2, PendingFacts
<1>5. PreviewShown'
  BY <1>2, <1>3, <1>4 DEF SetupInv, GoodPanel, PreviewShown, Selecting, InPanel, InSetup
<1>6. /\ (page'.at = page.at) \/ (InSetup(page) /\ page'.at = "conversation")
      /\ (copy' = copy) \/ FromServer(server, copy')
      /\ seen \subseteq seen'
  BY <1>1, <1>2, <1>3
<1> QED
  BY <1>1, <1>2, <1>3, <1>4, <1>5, <1>6, TakeStep

-----------------------------------------------------------------------------
(* Upload and analysis.                                                    *)

\* Before the set-up nothing was read and no call was made.
LEMMA CheckFacts ==
  ASSUME SetupInv, ~Entered
  PROVE  /\ page.at \in {"upload", "checking", "rejected"} /\ IsContext(page)
         /\ copy = SetupOf(NoAssignment)
         /\ \A i \in 1..MaxCalls : calls[i] = NoCall
         /\ DOMAIN calls = 1..MaxCalls /\ ~Selecting
BY DEF SetupInv, GoodPage, GoodCalls, Entered, Selecting, InPanel, InSetup

\* A step before the set-up.
LEMMA CheckStep ==
  ASSUME SetupInv, ~Entered, UNCHANGED <<copy, panel, calls, seen>>,
         GoodServer', SavedWasSeen', IsContext(page'),
         page'.at \in {"upload", "checking", "rejected"}, GoodJob'
  PROVE  SetupInv'
<1>1. ~Entered' /\ ~Selecting'
  BY DEF Entered, Selecting, InPanel, InSetup
<1>2. GoodPage'
  BY <1>1 DEF SetupInv, GoodPage
<1>3. GoodCalls'
  BY CheckFacts, CallKinds DEF SetupInv, GoodCalls
<1>4. GoodPanel'
  BY <1>1 DEF SetupInv, GoodPanel, PreviewShown
<1> QED
  BY <1>2, <1>3, <1>4 DEF SetupInv

\* The student uploads a worksheet, or tries again.
LEMMA StartCheckStep == \A f \in Files : SetupInv /\ StartCheck(f) => SetupInv'
<1> SUFFICES ASSUME SetupInv, NEW f \in Files, StartCheck(f) PROVE SetupInv'
  OBVIOUS
<1>1. page.at \in {"upload", "rejected"}
  BY DEF StartCheck, UploadOffered, PanelOf, Intake
<1>2. ~Entered /\ UNCHANGED <<server, copy, panel, calls, seen>>
  BY <1>1 DEF StartCheck, Entered
<1>3. page' = ClearForAnalysis("checking") /\ "checking" \in States
  BY <1>1 DEF StartCheck, StartAnalysis, States
<1>4. IsContext(page') /\ page'.at = "checking"
  BY <1>3, EmptyPage
<1>5. job' \in [step : {"create", "poll", "setup"}, polls : 0..MaxPolls] /\ job'.step = "create"
  BY SetupAssumption DEF StartCheck, NoJob
<1>6. GoodJob'
  BY <1>4, <1>5 DEF GoodJob
<1>7. GoodServer' /\ SavedWasSeen'
  BY <1>2 DEF SetupInv, GoodServer, SavedWasSeen
<1> QED
  BY <1>2, <1>4, <1>6, <1>7, CheckStep

\* What a job under way means.
LEMMA JobFacts ==
  ASSUME SetupInv, job # NoJob
  PROVE  /\ page.at = "checking" /\ ~Entered /\ IsContext(page)
         /\ job \in [step : {"create", "poll", "setup"}, polls : 0..MaxPolls]
         /\ job.step = "setup" => server.status = "ready"
         /\ job.step = "poll" => server.status # "none"
BY DEF SetupInv, GoodJob, GoodPage, Entered

\* An assignment begins with no questions.
LEMMA EmptyServer ==
  /\ NewAssignment \in Servers /\ NoAssignment \in Servers
  /\ NewAssignment.questions = <<>> /\ NoAssignment.questions = <<>>
  /\ IsQuestions(<<>>) /\ Range(<<>>) = {}
<1>1. <<>> \in Seq(Wordings)
  OBVIOUS
<1>2. IsQuestions(<<>>)
  <2>1. Len(<<>>) = 0
    OBVIOUS
  <2>2. \A i, j \in 1..Len(<<>>) : <<>>[i].id = <<>>[j].id => i = j
    BY <2>1
  <2> QED
    BY <1>1, <2>2, QuestionsFacts, Zenon
<1>3. Range(<<>>) = {}
  BY DEF Range
<1> QED
  <2>1. NewAssignment \in Servers /\ NewAssignment.questions = <<>>
    BY <1>1 DEF NewAssignment, Servers
  <2>2. NoAssignment = [NewAssignment EXCEPT !.status = "none"]
    BY DEF NoAssignment
  <2>3. NoAssignment \in Servers /\ NoAssignment.questions = <<>>
    BY <2>1, <2>2 DEF Servers
  <2> QED
    BY <1>2, <1>3, <2>1, <2>3

\* The panel as it opens.
LEMMA NewPanelFacts == NewPanel \in Panels /\ NewPanel.preview = NoPreview
<1>1. /\ NoPreview \in [n : 0..PageCount, blocks : SUBSET Blocks] /\ 1 \in Pages
      /\ {} \in SUBSET Blocks /\ {} \in SUBSET Pages
  BY SetupAssumption DEF NoPreview, Pages
<1> QED
  BY <1>1 DEF NewPanel, Panels

\* The upload is stored, and its analysis begins.
LEMMA CreatedStep == SetupInv /\ Created => SetupInv'
<1> SUFFICES ASSUME SetupInv, Created PROVE SetupInv'
  OBVIOUS
<1>1. job # NoJob
  BY DEF Created, NoJob
<1>2. /\ server' = NewAssignment /\ UNCHANGED <<page, copy, panel, calls, seen>>
      /\ job' = [NoJob EXCEPT !.step = "poll"]
  BY DEF Created, CreateAssignment
<1>3. GoodServer' /\ SavedWasSeen'
  BY <1>2, EmptyServer DEF GoodServer, SavedWasSeen
<1>4. GoodJob'
  <2>1. /\ job' \in [step : {"create", "poll", "setup"}, polls : 0..MaxPolls]
        /\ job'.step = "poll"
    BY <1>2, SetupAssumption DEF NoJob
  <2> QED
    BY <1>1, <1>2, <2>1, JobFacts DEF GoodJob, NewAssignment
<1> QED
  BY <1>1, <1>2, <1>3, <1>4, JobFacts, CheckStep

\* The analysis finds the questions.
LEMMA AnalyzeStep == SetupInv /\ Analyze => SetupInv'
<1> SUFFICES ASSUME SetupInv, Analyze PROVE SetupInv'
  OBVIOUS
<1>1. ~Entered /\ UNCHANGED <<page, copy, job, panel, calls, seen>>
  BY DEF Analyze, SetupInv, GoodPage
<1>2. server \in Servers /\ IsQuestions(Found) /\ Found \in Seq(Wordings)
  BY SetupAssumption, DistinctIds DEF SetupInv, GoodServer
<1>3. \/ server' = [server EXCEPT !.status = "failed"]
      \/ server' = [server EXCEPT !.status = "ready", !.questions = Found]
  BY DEF Analyze
<1>4. server' \in Servers /\ server'.questions \in {server.questions, Found}
  BY <1>2, <1>3 DEF Servers
<1>5. GoodServer' /\ SavedWasSeen'
  BY <1>1, <1>2, <1>4 DEF SetupInv, GoodServer, SavedWasSeen
<1>6. server.status = "analyzing" /\ server'.status \in {"failed", "ready"}
  BY <1>2, <1>3 DEF Analyze, Servers
<1>7. GoodJob'
  BY <1>1, <1>6 DEF SetupInv, GoodJob
<1> QED
  BY <1>1, <1>5, <1>7, CheckFacts, CheckStep

\* The page takes the analysis for failed.
LEMMA RejectedStep ==
  ASSUME SetupInv, job # NoJob, Rejected, UNCHANGED <<server, copy, panel, calls, seen>>
  PROVE  SetupInv'
<1>1. IsContext(page') /\ page'.at = "rejected" /\ GoodJob'
  BY JobFacts, FailureTurns DEF Rejected, GoodJob
<1>2. GoodServer' /\ SavedWasSeen'
  BY DEF SetupInv, GoodServer, SavedWasSeen
<1> QED
  BY <1>1, <1>2, JobFacts, CheckStep

\* The page asks for the analysis again, until it ends or the page gives up.
LEMMA PollAnalysisStep == SetupInv /\ PollAnalysis => SetupInv'
<1> SUFFICES ASSUME SetupInv, PollAnalysis PROVE SetupInv'
  OBVIOUS
<1>1. job # NoJob /\ job.step = "poll" /\ UNCHANGED <<server, copy, panel, calls, seen>>
  BY DEF PollAnalysis, NoJob
<1>2. \/ Rejected
      \/ PollsLeft(job) /\ job' = Polled(job) /\ page' = page
      \/ server.status = "ready" /\ job' = [job EXCEPT !.step = "setup"] /\ page' = page
  <2>1. server.status \in {"none", "analyzing", "ready", "failed"}
    BY ServerFacts DEF SetupInv
  <2>2. server.status # "none"
    BY <1>1, JobFacts
  <2> QED
    BY <2>1, <2>2 DEF PollAnalysis
<1>3. CASE Rejected
  BY <1>1, <1>3, RejectedStep
<1>4. ASSUME page' = page, job' \in [step : {"create", "poll", "setup"}, polls : 0..MaxPolls],
             job'.step \in {"poll", "setup"}, job'.step = "setup" => server.status = "ready"
      PROVE  SetupInv'
  <2>1. GoodJob'
    BY <1>1, <1>4, JobFacts DEF GoodJob
  <2>2. GoodServer' /\ SavedWasSeen'
    BY <1>1 DEF SetupInv, GoodServer, SavedWasSeen
  <2> QED
    BY <1>1, <1>4, <2>1, <2>2, JobFacts, CheckStep
<1>5. CASE PollsLeft(job) /\ job' = Polled(job) /\ page' = page
  <2>1. job' \in [step : {"create", "poll", "setup"}, polls : 0..MaxPolls] /\ job'.step = "poll"
    BY <1>1, <1>5, JobFacts, SetupAssumption DEF PollsLeft, Polled
  <2> QED
    BY <1>4, <1>5, <2>1
<1>6. CASE server.status = "ready" /\ job' = [job EXCEPT !.step = "setup"] /\ page' = page
  <2>1. job' \in [step : {"create", "poll", "setup"}, polls : 0..MaxPolls] /\ job'.step = "setup"
    BY <1>1, <1>6, JobFacts
  <2> QED
    BY <1>4, <1>6, <2>1
<1> QED
  BY <1>2, <1>3, <1>5, <1>6

\* The set-up of a ready worksheet is loaded: the page enters it.
LEMMA LoadSetupStep == SetupInv /\ LoadSetup => SetupInv'
<1> SUFFICES ASSUME SetupInv, LoadSetup PROVE SetupInv'
  OBVIOUS
<1>1. job # NoJob /\ job.step = "setup"
  BY DEF LoadSetup, NoJob
<1>2. /\ page.at = "checking" /\ IsContext(page) /\ server.status = "ready"
      /\ ~Entered
  BY <1>1, JobFacts
<1>3. /\ server.version \in Nat /\ IsQuestions(server.questions) /\ server.verified \in BOOLEAN
      /\ FromServer(server, SetupOf(server))
  BY ServerFacts DEF SetupInv
<1>4. IsContext(page') /\ page'.at = "questionCheck"
  BY <1>2, <1>3, ReadyTurns DEF LoadSetup
<1>5. /\ job' = NoJob /\ copy' = SetupOf(server) /\ panel' = NewPanel
      /\ UNCHANGED <<server, calls, seen>>
  BY DEF LoadSetup
<1>6. GoodServer' /\ SavedWasSeen'
  BY <1>5 DEF SetupInv, GoodServer, SavedWasSeen
<1>7. GoodPage' /\ GoodJob'
  BY <1>2, <1>3, <1>4, <1>5 DEF GoodPage, GoodJob, Entered
<1>8. GoodPanel'
  BY <1>5, NewPanelFacts DEF GoodPanel, PreviewShown
<1>9. GoodCalls'
  BY <1>2, <1>5, CheckFacts, CallKinds DEF SetupInv, GoodCalls
<1> QED
  BY <1>6, <1>7, <1>8, <1>9 DEF SetupInv

\* A request of the check fails.
LEMMA CheckFailsStep == SetupInv /\ CheckFails => SetupInv'
BY RejectedStep DEF CheckFails

-----------------------------------------------------------------------------
(* The theorems about the set-up.                                          *)

\* There is nothing at first.
LEMMA InitSetupInv == Init => SetupInv
<1> SUFFICES ASSUME Init PROVE SetupInv
  OBVIOUS
<1>1. GoodServer /\ SavedWasSeen
  BY EmptyServer DEF Init, GoodServer, SavedWasSeen
<1>2. page = ClearForAnalysis("upload") /\ "upload" \in States
  <2>1. InitialContext = [InitialContext EXCEPT !.at = InitialContext.at]
    BY DEF InitialContext
  <2>2. InitialContext.at = "upload"
    BY DEF InitialContext
  <2> QED
    BY <2>1, <2>2, Zenon DEF Init, ClearForAnalysis, States
<1>3. IsContext(page) /\ page.at = "upload"
  BY <1>2, EmptyPage
<1>4. GoodPage /\ GoodJob
  BY <1>3 DEF Init, GoodPage, GoodJob, Entered
<1>5. GoodPanel
  BY NewPanelFacts DEF Init, GoodPanel, PreviewShown
<1>6. GoodCalls
  BY CallKinds DEF Init, GoodCalls
<1> QED
  BY <1>1, <1>4, <1>5, <1>6 DEF SetupInv

\* The steps of the student keep the invariant,
LEMMA PressStep == SetupInv /\ Press => SetupInv'
<1> SUFFICES ASSUME SetupInv, Press PROVE SetupInv'
  OBVIOUS
<1>1. CASE \E q \in QuestionIds : ChooseQuestion(q) \/ BeginSelection("replace", q)
  BY <1>1, ChooseQuestionStep, BeginSelectionStep
<1>2. CASE \E n \in Pages : TurnPage(n)
  BY <1>2, TurnPageStep
<1>3. CASE BeginSelection("add", 0)
  BY <1>3, BeginSelectionStep
<1>4. CASE \/ CancelSelection \/ ChangeSelection
           \/ \E b \in Blocks : ToggleBlock(b)
           \/ \E blocks \in SUBSET Blocks : DragOver(blocks)
           \/ \E q \in QuestionIds \cup {0} : AskRemove(q)
  BY <1>4, SelectionStep
<1>5. CASE \/ \E i \in 1..Len(copy.questions) : Reorder(i)
           \/ RemoveQuestion \/ ResetToDetected
  BY <1>5, CorrectionStep
<1>6. CASE ShowSelectionPreview \/ SaveSelection \/ Accept \/ EnterOrLeaveEdit
  BY <1>6, ShowSelectionPreviewStep, SaveSelectionStep, AcceptStep, EnterOrLeaveEditStep
<1> QED
  BY <1>1, <1>2, <1>3, <1>4, <1>5, <1>6 DEF Press

\* and every other step does.
LEMMA SetupStep == SetupInv /\ [Next]_vars => SetupInv'
<1> SUFFICES ASSUME SetupInv, [Next]_vars PROVE SetupInv'
  OBVIOUS
<1>1. CASE Check
  BY <1>1, StartCheckStep, CreatedStep, AnalyzeStep, LoadSetupStep, CheckFailsStep,
     PollAnalysisStep DEF Check
<1>2. CASE Press
  BY <1>2, PressStep
<1>3. CASE TakeBlocks \/ LoseBlocks
  BY <1>3, TakeBlocksStep, LoseBlocksStep
<1>4. CASE \E i \in DOMAIN calls : Answer(i)
  BY <1>4, ServeCallStep, LoseCallStep, TakeRefusalStep, TakePreviewStep, TakeMutationStep,
     TakeAcceptanceStep DEF Answer
<1>5. CASE UNCHANGED vars
  BY <1>5 DEF vars, SetupInv, GoodServer, GoodPage, GoodJob, GoodPanel, PreviewShown, GoodCalls,
     SavedWasSeen, Entered, Selecting, InPanel
<1> QED
  BY <1>1, <1>2, <1>3, <1>4, <1>5 DEF Next

\* The inductive invariant of the set-up.
THEOREM Invariance == Spec => []SetupInv
<1> QED
  BY InitSetupInv, SetupStep, PTL DEF Spec

\* A call under way is one of the API's exchanges.
LEMMA CallsExchange ==
  ASSUME SetupInv, NEW i \in DOMAIN calls, calls[i] \notin {NoCall, Over}
  PROVE  Exchange(calls[i])
<1> DEFINE c == calls[i]
<1>1. c \in MadeCalls /\ GoodCall(server, seen, c)
  BY CallsFacts
<1> HIDE DEF c
<1>2. ASSUME c.ans = "ok", c.what # "preview"
      PROVE  SetupBody(c.got)
  BY <1>1, <1>2 DEF GoodCall, FromServer, WasRead, Setups, SetupBody
<1>3. /\ c.ans \in {"none", "ok", "failed"} /\ c.what \in {"preview", "mutate", "accept", "any"}
      /\ c.o \in Operations
  BY <1>1 DEF MadeCalls
<1>4. /\ c.o.kind \in Kinds /\ c.o.q \in QuestionIds \cup {0} /\ c.o.n \in 0..PageCount
      /\ c.o.blocks \subseteq Blocks
  BY <1>3 DEF Operations
<1> QED
  BY <1>1, <1>2, <1>3, <1>4
     DEF Exchange, PreviewExchange, MutationExchange, GoodCall, WasRead, Kinds, c

\* Every variable has its shape, for any worksheet and any number of calls; every call
\* is one of the API's exchanges, and the page's copy of the set-up is of a version the
\* server has reached.
THEOREM SetupTypes == Spec => []TypeOK
<1>1. SetupInv => TypeOK
  <2> SUFFICES ASSUME SetupInv PROVE TypeOK
    OBVIOUS
  <2>1. IsContext(page)
    BY DEF SetupInv, GoodPage
  <2>2. /\ server.status \in {"none", "analyzing", "ready", "failed"}
        /\ server.verified \in BOOLEAN /\ server.version \in Nat \ {0}
        /\ Ids(server.questions) \subseteq QuestionIds
    BY ServerFacts, IdFacts DEF SetupInv
  <2>3. SetupBody(copy)
    <3>1. CASE Entered
      BY <3>1 DEF SetupInv, GoodPage, FromServer, WasRead, Setups, SetupBody
    <3>2. CASE ~Entered
      <4>1. /\ copy.version = 1 /\ copy.verified = FALSE /\ copy.corrected = FALSE
            /\ copy.questions = <<>>
        BY <3>2 DEF SetupInv, GoodPage, SetupOf, NoAssignment, NewAssignment
      <4>2. IsQuestions(<<>>) /\ 1 <= server.version
        BY <2>2 DEF IsQuestions, IdSeq, IsInjective
      <4> QED
        BY <4>1, <4>2 DEF SetupBody
    <3> QED
      BY <3>1, <3>2
  <2>4. /\ panel.selected \subseteq Blocks /\ panel.preview.blocks \subseteq Blocks
        /\ panel.n \in Pages /\ panel.fetching \in Pages \cup {0} /\ panel.known \subseteq Pages
        /\ {panel.pending, panel.broken} \subseteq BOOLEAN
    BY PanelFacts DEF Panels
  <2>5. job.polls <= MaxPolls
    BY SetupAssumption DEF SetupInv, GoodJob, NoJob
  <2>6. \A i \in DOMAIN calls : calls[i] \notin {NoCall, Over} => Exchange(calls[i])
    BY CallsExchange
  <2> QED
    BY <2>1, <2>2, <2>3, <2>4, <2>5, <2>6, Zenon DEF TypeOK
<1> QED
  BY <1>1, Invariance, PTL

\* "The student MUST see exact server-reconstructed wording before an add or
\* replace is saved": what the panel saves is the wording of a preview it has shown,
\* although pages are turned, other previews arrive and several calls are under way.
THEOREM NothingSavedUnseen == Spec => []SavedWasSeen
<1>1. SetupInv => SavedWasSeen
  BY DEF SetupInv
<1> QED
  BY <1>1, Invariance, PTL

\* "Looks right. Start" accepts the list the student was looking at: the request
\* names the version of that list, and the server has no other list under it.
THEOREM AcceptedAsShown == Spec => AcceptedIsShown
<1> DEFINE A == ~server.verified /\ server'.verified
                  => \E i \in DOMAIN calls :
                       /\ calls[i].what = "accept" /\ calls[i] # calls'[i]
                       /\ calls[i].shown = server.questions
<1>1. SetupInv /\ [Next]_vars => [A]_vars
  <2> SUFFICES ASSUME SetupInv, [Next]_vars, ~server.verified, server'.verified
               PROVE  \E i \in DOMAIN calls :
                        /\ calls[i].what = "accept" /\ calls[i] # calls'[i]
                        /\ calls[i].shown = server.questions
    OBVIOUS
  <2>1. server' # server
    OBVIOUS
  <2>2. \/ Created \/ Analyze \/ \E i \in DOMAIN calls : ServeCall(i)
    BY <2>1
    DEF Next, vars, Check, Press, Answer, StartCheck, LoadSetup, CheckFails, PollAnalysis,
        ChooseQuestion, BeginSelection, AskRemove, TurnPage, ToggleBlock, DragOver, Reorder,
        CancelSelection, ChangeSelection, ShowSelectionPreview, SaveSelection, RemoveQuestion,
        ResetToDetected, Accept, EnterOrLeaveEdit, RunMutation, TakeBlocks, LoseBlocks, LoseCall,
        TakeRefusal, TakePreview, TakeMutation, TakeAcceptance
  <2>3. ~Created
    BY DEF Created, CreateAssignment, NewAssignment
  <2>4. ~Analyze
    BY DEF Analyze, SetupInv, GoodServer, Servers
  <2>5. PICK i \in DOMAIN calls : ServeCall(i)
    BY <2>2, <2>3, <2>4
  <2> DEFINE c == calls[i]
  <2>6. PICK d : Serves(server, c, server', d) /\ calls' = [calls EXCEPT ![i] = d]
    BY <2>5, ServeFacts
  <2>7. /\ c \in MadeCalls /\ GoodCall(server, seen, c) /\ server.status = "ready"
        /\ c.ans = "none"
    BY <2>5, ServeFacts, CallsFacts
  <2>8. /\ c.what # "preview" /\ CurrentVersion(server, c.aver) /\ Applicable(server, c.o)
        /\ server' = Mutated(server, c.o)
    BY <2>1, <2>6 DEF Serves
  <2> HIDE DEF c
  <2>9. c.o \in Operations /\ c.o.kind \in Kinds
    BY <2>7 DEF MadeCalls, Operations
  <2>10. c.o.kind = "accept"
    BY <2>7, <2>8, <2>9, MutatedFacts DEF GoodCall, Kinds
  <2>11. c.what = "accept" /\ c.shown = server.questions
    BY <2>7, <2>8, <2>10 DEF GoodCall, WasRead, CurrentVersion
  <2>12. d.ans # "none"
    BY <2>6, <2>7, AnswerTypes DEF Serves
  <2> QED
    BY <2>6, <2>7, <2>11, <2>12 DEF c
<1> QED
  BY <1>1, Invariance, PTL DEF Spec, AcceptedIsShown

-----------------------------------------------------------------------------
(* The inductive invariant of the analysis.                                *)

\* Where a request holds a snapshot of the manifest.
Holding == {"analyze", "ir", "attach", "unattach", "mark"}

Phases == {"source", "manifest", "unsource", "idle"} \cup Holding

Typed ==
  /\ status \in {"NONE", "ANALYZING", "READY", "ANALYSIS_FAILED"}
  /\ process \in [Analysis!Processes -> [phase : Phases, fresh : BOOLEAN]]
  /\ \A p \in Polls : process[p].phase \in {"idle", "mark"}

\* The manifest is written once to start the analysis and once to end it, so that
\* a snapshot is the stored manifest exactly as long as the analysis goes on.
SnapshotsAreCurrent ==
  \A p \in Analysis!Processes : process[p].phase \in Holding =>
    /\ status # "NONE"
    /\ process[p].fresh <=> status = "ANALYZING"

\* The creating request stores the manifest.
NoManifestYet == process[Creator].phase \in {"source", "manifest"} => status = "NONE"

\* Where every storage call is acknowledged, the creating request knows what is
\* stored, and a worksheet that is ready has left nothing to clean up.
KnowsItsObjects ==
  ~lossy =>
    LET phase == process[Creator].phase
    IN  /\ phase \in {"manifest", "analyze", "ir", "attach"} => source
        /\ phase = "attach" => ir
        /\ phase = "unsource" => status = "NONE"
        /\ status = "READY" => source /\ ir /\ phase = "idle"

AnalysisInv ==
  /\ Typed
  /\ SnapshotsAreCurrent
  /\ NoManifestYet
  /\ KnowsItsObjects
  /\ AnswerIsTruthful

\* The request has just arrived, and nothing is stored.
LEMMA InitAnalysisInv ==
  ASSUME Analysis!Init
  PROVE  AnalysisInv
<1>1. Typed
  BY AnalysisAssumption DEF Analysis!Init, Typed, Phases, Analysis!Processes
<1> QED
  BY <1>1, AnalysisAssumption
  DEF Analysis!Init, AnalysisInv, SnapshotsAreCurrent, NoManifestYet, KnowsItsObjects,
      AnswerIsTruthful, Holding, Analysis!Processes

-----------------------------------------------------------------------------
(* How a step moves the requests.                                          *)

\* A request that goes on without writing keeps its snapshot.
LEMMA GoesFacts ==
  ASSUME Typed, NEW p \in Analysis!Processes, NEW phase \in Phases, Analysis!Goes(p, phase)
  PROVE  /\ process' \in [Analysis!Processes -> [phase : Phases, fresh : BOOLEAN]]
         /\ process'[p].phase = phase /\ process'[p].fresh = process[p].fresh
         /\ \A r \in Analysis!Processes \ {p} : process'[r] = process[r]
BY DEF Typed, Analysis!Goes

\* A write makes the snapshots of the others stale, and moves nobody else.
LEMMA WroteFacts ==
  ASSUME Typed, NEW p \in Analysis!Processes, NEW phase \in Phases, NEW acked \in BOOLEAN,
         Analysis!Wrote(p, phase, acked)
  PROVE  /\ process' \in [Analysis!Processes -> [phase : Phases, fresh : BOOLEAN]]
         /\ process'[p].phase = phase /\ process'[p].fresh = acked
         /\ \A r \in Analysis!Processes \ {p} :
              process'[r].phase = process[r].phase /\ ~process'[r].fresh
BY DEF Typed, Analysis!Wrote

\* A fresh snapshot is taken, by a poll or after a conflict.
LEMMA SnapshotFacts ==
  ASSUME Typed, NEW p \in Analysis!Processes,
         \/ process' = [process EXCEPT ![p].fresh = TRUE] /\ process[p].phase = "mark"
         \/ process' = [process EXCEPT ![p] = [phase |-> "mark", fresh |-> TRUE]]
  PROVE  /\ process' \in [Analysis!Processes -> [phase : Phases, fresh : BOOLEAN]]
         /\ process'[p].phase = "mark" /\ process'[p].fresh
         /\ \A r \in Analysis!Processes \ {p} : process'[r] = process[r]
<1>1. CASE process' = [process EXCEPT ![p].fresh = TRUE] /\ process[p].phase = "mark"
  BY <1>1 DEF Typed
<1>2. CASE process' = [process EXCEPT ![p] = [phase |-> "mark", fresh |-> TRUE]]
  BY <1>2 DEF Typed, Phases, Holding
<1> QED
  BY <1>1, <1>2

\* What an action owes the properties: the invariant, and that the status goes from
\* NONE to ANALYZING and from there to an end.
Advances ==
  \/ status' = status
  \/ status = "NONE" /\ status' = "ANALYZING"
  \/ status = "ANALYZING" /\ status' \in {"READY", "ANALYSIS_FAILED"}

Keeps == AnalysisInv' /\ Advances

-----------------------------------------------------------------------------
(* The creating request.                                                   *)

\* What every action of the creating request starts from.
LEMMA CreatorFacts ==
  ASSUME AnalysisInv
  PROVE  /\ Typed /\ Creator \in Analysis!Processes /\ Creator \notin Polls
         /\ \A p \in Analysis!Processes : p \in Polls \/ p = Creator
         /\ \A p \in Polls : p \in Analysis!Processes
BY AnalysisAssumption DEF AnalysisInv, Analysis!Processes

\* create_assignment stores the worksheet.
LEMMA StoreSourceStep == AnalysisInv /\ Analysis!StoreSource => Keeps
<1> SUFFICES ASSUME AnalysisInv, Analysis!StoreSource PROVE Keeps
  OBVIOUS
<1> USE CreatorFacts
<1>1. PICK phase \in {"manifest", "idle"} :
        /\ Analysis!Goes(Creator, phase)
        /\ phase = "manifest" => source' = TRUE
        /\ told' \in {told, "error"}
  BY DEF Analysis!StoreSource, Analysis!Answers
<1>2. /\ process' \in [Analysis!Processes -> [phase : Phases, fresh : BOOLEAN]]
      /\ process'[Creator].phase = phase
      /\ \A r \in Analysis!Processes \ {Creator} : process'[r] = process[r]
  BY <1>1, GoesFacts DEF Phases
<1>3. status = "NONE" /\ UNCHANGED <<status, ir, lossy>>
  BY DEF Analysis!StoreSource, AnalysisInv, NoManifestYet, Analysis!Creates, Analysis!In
<1> QED
  BY <1>1, <1>2, <1>3
  DEF Keeps, Advances, AnalysisInv, Typed, SnapshotsAreCurrent, NoManifestYet, KnowsItsObjects,
      AnswerIsTruthful, Holding

\* It stores the manifest; unacknowledged, the request takes it for not stored.
LEMMA StoreManifestStep == AnalysisInv /\ Analysis!StoreManifest => Keeps
<1> SUFFICES ASSUME AnalysisInv, Analysis!StoreManifest PROVE Keeps
  OBVIOUS
<1> USE CreatorFacts
<1>1. status = "NONE" /\ UNCHANGED <<source, ir, told, lossy>> /\ (~lossy => source)
  BY DEF Analysis!StoreManifest, AnalysisInv, NoManifestYet, KnowsItsObjects,
         Analysis!Creates, Analysis!In
<1>2. \A p \in Analysis!Processes \ {Creator} : process[p].phase \notin Holding
  BY <1>1 DEF AnalysisInv, SnapshotsAreCurrent
<1>3. PICK phase \in {"analyze", "unsource"} :
        \/ /\ Analysis!Wrote(Creator, phase, phase = "analyze") /\ status' = "ANALYZING"
           /\ phase = "analyze" \/ lossy
        \/ Analysis!Goes(Creator, phase) /\ phase = "unsource" /\ UNCHANGED status
  BY DEF Analysis!StoreManifest
<1>4. /\ process' \in [Analysis!Processes -> [phase : Phases, fresh : BOOLEAN]]
      /\ process'[Creator].phase = phase /\ (phase = "analyze" => process'[Creator].fresh)
      /\ \A r \in Analysis!Processes \ {Creator} : process'[r].phase = process[r].phase
  BY <1>3, GoesFacts, WroteFacts DEF Phases, Holding
<1> QED
  BY <1>1, <1>2, <1>3, <1>4
  DEF Keeps, Advances, AnalysisInv, Typed, SnapshotsAreCurrent, NoManifestYet, KnowsItsObjects,
      AnswerIsTruthful, Holding

\* A step in which the creating request goes on without a write, in the states
\* after the manifest was stored.
LEMMA CreatorGoes ==
  ASSUME AnalysisInv, NEW phase \in Holding \cup {"idle"}, Analysis!Goes(Creator, phase),
         process[Creator].phase \in Holding, UNCHANGED <<status, source, lossy>>,
         ~lossy => /\ phase \in {"analyze", "ir", "attach"} => source
                   /\ phase = "attach" => ir'
                   /\ status = "READY" => ir' /\ phase = "idle",
         told' \in {told, "error", "ANALYZING"}
  PROVE  Keeps
<1> USE CreatorFacts
<1>1. /\ process' \in [Analysis!Processes -> [phase : Phases, fresh : BOOLEAN]]
      /\ process'[Creator].phase = phase /\ process'[Creator].fresh = process[Creator].fresh
      /\ \A r \in Analysis!Processes \ {Creator} : process'[r] = process[r]
  BY GoesFacts DEF Phases, Holding
<1> QED
  BY <1>1
  DEF Keeps, Advances, AnalysisInv, Typed, SnapshotsAreCurrent, NoManifestYet, KnowsItsObjects,
      AnswerIsTruthful, Holding

\* Recording a failure is tried or given up.
LEMMA MarkOrFacts ==
  ASSUME NEW answer, Analysis!MarkOr(answer)
  PROVE  \E phase \in {"mark", "idle"} : Analysis!Goes(Creator, phase) /\ told' \in {told, answer}
BY DEF Analysis!MarkOr, Analysis!Answers

\* It analyses the worksheet.
LEMMA AnalyzesStep == AnalysisInv /\ Analysis!Analyze => Keeps
<1> SUFFICES ASSUME AnalysisInv, Analysis!Analyze PROVE Keeps
  OBVIOUS
<1>1. PICK phase \in {"ir", "mark", "idle"} :
        Analysis!Goes(Creator, phase) /\ told' \in {told, "ANALYZING"}
  BY MarkOrFacts DEF Analysis!Analyze
<1>2. /\ process[Creator].phase = "analyze" /\ UNCHANGED <<status, source, ir, lossy>>
      /\ ~lossy => source /\ status # "READY"
  BY DEF Analysis!Analyze, AnalysisInv, KnowsItsObjects, Analysis!Creates, Analysis!In
<1> QED
  BY <1>1, <1>2, CreatorGoes DEF Holding

\* It stores the analysis.
LEMMA StoreIRStep == AnalysisInv /\ Analysis!StoreIR => Keeps
<1> SUFFICES ASSUME AnalysisInv, Analysis!StoreIR PROVE Keeps
  OBVIOUS
<1>1. PICK phase \in {"attach", "mark", "idle"} :
        /\ Analysis!Goes(Creator, phase) /\ told' \in {told, "error"}
        /\ phase = "attach" => ir' = TRUE
  BY MarkOrFacts DEF Analysis!StoreIR
<1>2. /\ process[Creator].phase = "ir" /\ UNCHANGED <<status, source, lossy>>
      /\ ~lossy => source /\ status # "READY"
  BY DEF Analysis!StoreIR, AnalysisInv, KnowsItsObjects, Analysis!Creates, Analysis!In
<1> QED
  BY <1>1, <1>2, CreatorGoes DEF Holding

\* It takes the analysis back.
LEMMA DropIRStep == AnalysisInv /\ Analysis!DropIR => Keeps
<1> SUFFICES ASSUME AnalysisInv, Analysis!DropIR PROVE Keeps
  OBVIOUS
<1>1. PICK phase \in {"mark", "idle"} : Analysis!Goes(Creator, phase) /\ told' \in {told, "error"}
  BY MarkOrFacts DEF Analysis!DropIR
<1>2. /\ process[Creator].phase = "unattach" /\ UNCHANGED <<status, source, lossy>>
      /\ ~lossy => status # "READY"
  BY DEF Analysis!DropIR, AnalysisInv, KnowsItsObjects, Analysis!Creates, Analysis!In
<1> QED
  BY <1>1, <1>2, CreatorGoes DEF Holding

\* It deletes a worksheet that no manifest names, as far as it knows.
LEMMA DropSourceStep == AnalysisInv /\ Analysis!DropSource => Keeps
<1> SUFFICES ASSUME AnalysisInv, Analysis!DropSource PROVE Keeps
  OBVIOUS
<1> USE CreatorFacts
<1>1. /\ process[Creator].phase = "unsource" /\ Analysis!Goes(Creator, "idle") /\ told' = "error"
      /\ UNCHANGED <<status, ir, lossy>> /\ (~lossy => status = "NONE")
  BY DEF Analysis!DropSource, AnalysisInv, KnowsItsObjects, Analysis!Creates,
         Analysis!In, Analysis!Answers
<1>2. /\ process' \in [Analysis!Processes -> [phase : Phases, fresh : BOOLEAN]]
      /\ process'[Creator].phase = "idle"
      /\ \A r \in Analysis!Processes \ {Creator} : process'[r] = process[r]
  BY <1>1, GoesFacts DEF Phases
<1> QED
  BY <1>1, <1>2
  DEF Keeps, Advances, AnalysisInv, Typed, SnapshotsAreCurrent, NoManifestYet, KnowsItsObjects,
      AnswerIsTruthful, Holding

\* It attaches the analysis: the worksheet is ready.
LEMMA AttachStep == AnalysisInv /\ Analysis!Attach => Keeps
<1> SUFFICES ASSUME AnalysisInv, Analysis!Attach PROVE Keeps
  OBVIOUS
<1> USE CreatorFacts
<1>1. /\ process[Creator].phase = "attach" /\ UNCHANGED <<source, ir, lossy>>
      /\ ~lossy => source /\ ir /\ status # "READY"
  BY DEF Analysis!Attach, AnalysisInv, KnowsItsObjects, Analysis!Creates, Analysis!In
<1>2. CASE Analysis!Goes(Creator, "unattach") /\ UNCHANGED <<status, told>>
  BY <1>1, <1>2, CreatorGoes DEF Holding
<1>3. CASE /\ process[Creator].fresh /\ status' = "READY"
           /\ \/ Analysis!Wrote(Creator, "idle", TRUE) /\ Analysis!Answers("READY")
              \/ lossy /\ Analysis!Wrote(Creator, "unattach", FALSE) /\ UNCHANGED told
  <2>1. PICK phase \in {"idle", "unattach"} :
          /\ Analysis!Wrote(Creator, phase, phase = "idle")
          /\ phase = "idle" \/ lossy
          /\ told' \in {told, "READY"}
    BY <1>3 DEF Analysis!Answers
  <2>2. status = "ANALYZING"
    BY <1>1, <1>3 DEF AnalysisInv, SnapshotsAreCurrent, Holding
  <2>3. /\ process' \in [Analysis!Processes -> [phase : Phases, fresh : BOOLEAN]]
        /\ process'[Creator].phase = phase /\ (phase # "idle" => ~process'[Creator].fresh)
        /\ \A r \in Analysis!Processes \ {Creator} :
             process'[r].phase = process[r].phase /\ ~process'[r].fresh
    BY <2>1, WroteFacts DEF Phases, Holding
  <2> QED
    BY <1>1, <1>3, <2>1, <2>2, <2>3
    DEF Keeps, Advances, AnalysisInv, Typed, SnapshotsAreCurrent, NoManifestYet, KnowsItsObjects,
        AnswerIsTruthful, Holding
<1> QED
  BY <1>2, <1>3 DEF Analysis!Attach

-----------------------------------------------------------------------------
(* Every request.                                                          *)

\* _mark_analysis_failed records the failure.
LEMMA MarkFailedStep ==
  \A p \in Analysis!Processes : AnalysisInv /\ Analysis!MarkFailed(p) => Keeps
<1> SUFFICES ASSUME AnalysisInv, NEW p \in Analysis!Processes, Analysis!MarkFailed(p) PROVE Keeps
  OBVIOUS
<1> USE CreatorFacts
<1>1. PICK phase \in {"idle", "mark"} :
        /\ Analysis!Wrote(p, phase, phase = "idle")
        /\ told' \in {told, "ANALYSIS_FAILED"}
  BY DEF Analysis!MarkFailed, Analysis!Ends, Analysis!Answers
<1>2. /\ process[p].phase = "mark" /\ status = "ANALYZING" /\ status' = "ANALYSIS_FAILED"
      /\ UNCHANGED <<source, ir, lossy>>
  BY DEF Analysis!MarkFailed, AnalysisInv, SnapshotsAreCurrent, Analysis!In, Holding
<1>3. /\ process' \in [Analysis!Processes -> [phase : Phases, fresh : BOOLEAN]]
      /\ process'[p].phase = phase /\ (phase = "mark" => ~process'[p].fresh)
      /\ \A r \in Analysis!Processes \ {p} :
           process'[r].phase = process[r].phase /\ ~process'[r].fresh
  BY <1>1, WroteFacts DEF Phases, Holding
<1> QED
  BY <1>1, <1>2, <1>3
  DEF Keeps, Advances, AnalysisInv, Typed, SnapshotsAreCurrent, NoManifestYet, KnowsItsObjects,
      AnswerIsTruthful, Holding

\* It looks again after a conflict, and finds that the analysis has ended.
LEMMA MarkAgainStep == \A p \in Analysis!Processes : AnalysisInv /\ Analysis!MarkAgain(p) => Keeps
<1> SUFFICES ASSUME AnalysisInv, NEW p \in Analysis!Processes, Analysis!MarkAgain(p) PROVE Keeps
  OBVIOUS
<1> USE CreatorFacts
<1>1. process[p].phase = "mark" /\ status # "ANALYZING" /\ UNCHANGED <<status, source, ir, lossy>>
  BY DEF Analysis!MarkAgain, AnalysisInv, SnapshotsAreCurrent, Analysis!In, Holding
<1>2. Analysis!Goes(p, "idle") /\ told' \in {told, "error", status}
  BY <1>1 DEF Analysis!MarkAgain, Analysis!Ends, Analysis!Answers
<1>3. /\ process' \in [Analysis!Processes -> [phase : Phases, fresh : BOOLEAN]]
      /\ process'[p].phase = "idle"
      /\ \A r \in Analysis!Processes \ {p} : process'[r] = process[r]
  BY <1>2, GoesFacts DEF Phases
<1> QED
  BY <1>1, <1>2, <1>3
  DEF Keeps, Advances, AnalysisInv, Typed, SnapshotsAreCurrent, NoManifestYet, KnowsItsObjects,
      AnswerIsTruthful, Holding

\* get_assignment finds an analysis that is too old.
LEMMA PollStep == \A p \in Analysis!Processes : AnalysisInv /\ Analysis!Poll(p) => Keeps
<1> SUFFICES ASSUME AnalysisInv, NEW p \in Analysis!Processes, Analysis!Poll(p) PROVE Keeps
  OBVIOUS
<1> USE CreatorFacts
<1>1. p # Creator /\ status = "ANALYZING" /\ UNCHANGED <<status, source, ir, told, lossy>>
  BY DEF Analysis!Poll
<1>2. /\ process' \in [Analysis!Processes -> [phase : Phases, fresh : BOOLEAN]]
      /\ process'[p].phase = "mark" /\ process'[p].fresh
      /\ \A r \in Analysis!Processes \ {p} : process'[r] = process[r]
  BY SnapshotFacts DEF Analysis!Poll
<1> QED
  BY <1>1, <1>2
  DEF Keeps, Advances, AnalysisInv, Typed, SnapshotsAreCurrent, NoManifestYet, KnowsItsObjects,
      AnswerIsTruthful, Holding

\* A request stops.
LEMMA CrashStep == \A p \in Analysis!Processes : AnalysisInv /\ Analysis!Crash(p) => Keeps
<1> SUFFICES ASSUME AnalysisInv, NEW p \in Analysis!Processes, Analysis!Crash(p) PROVE Keeps
  OBVIOUS
<1> USE CreatorFacts
<1>1. Analysis!Goes(p, "idle") /\ UNCHANGED <<status, source, ir, told, lossy>>
  BY DEF Analysis!Crash
<1>2. /\ process' \in [Analysis!Processes -> [phase : Phases, fresh : BOOLEAN]]
      /\ process'[p].phase = "idle"
      /\ \A r \in Analysis!Processes \ {p} : process'[r] = process[r]
  BY <1>1, GoesFacts DEF Phases
<1> QED
  BY <1>1, <1>2
  DEF Keeps, Advances, AnalysisInv, Typed, SnapshotsAreCurrent, NoManifestYet, KnowsItsObjects,
      AnswerIsTruthful, Holding

\* Time passes, or nothing happens.
LEMMA QuietStep == AnalysisInv /\ (Analysis!Tick \/ UNCHANGED Analysis!vars) => Keeps
BY DEF Keeps, Advances, AnalysisInv, Typed, SnapshotsAreCurrent, NoManifestYet, KnowsItsObjects,
       AnswerIsTruthful, Analysis!Tick, Analysis!vars

\* Every step keeps the invariant and never changes an end.
THEOREM AnalysisStep == AnalysisInv /\ [Analysis!Next]_Analysis!vars => Keeps
BY StoreSourceStep, StoreManifestStep, DropSourceStep, AnalyzesStep, StoreIRStep, AttachStep,
   DropIRStep, MarkFailedStep, MarkAgainStep, PollStep, CrashStep, QuietStep
DEF Analysis!Next, Analysis!Creation

-----------------------------------------------------------------------------
(* The theorems about the analysis.                                        *)

\* The invariant holds of every history of requests, crashes and lost
\* acknowledgements.
THEOREM AnalysisInvariance == Analysis!Spec => []AnalysisInv
<1>1. AnalysisInv /\ [Analysis!Next]_Analysis!vars => AnalysisInv'
  BY AnalysisStep DEF Keeps, Advances
<1> QED
  BY InitAnalysisInv, <1>1, PTL DEF Analysis!Spec

\* The set-up page takes the whole analysis for one step (Created, Analyze): its
\* status is never seen to go another way.
THEOREM AnalysisAdvances == Analysis!Spec => [][Advances]_Analysis!vars
<1>1. AnalysisInv /\ [Analysis!Next]_Analysis!vars => [Advances]_Analysis!vars
  BY AnalysisStep DEF Keeps
<1> QED
  BY <1>1, AnalysisInvariance, PTL DEF Analysis!Spec

\* An analysis ends once: no late failure revokes a ready worksheet, no late result
\* revives a failed one (_finish_analysis, _mark_analysis_failed).
THEOREM AnEndIsFinal == Analysis!Spec => EndIsFinal
<1>1. AnalysisInv /\ [Analysis!Next]_Analysis!vars =>
        [status' # status => status \in {"NONE", "ANALYZING"}]_status
  BY AnalysisStep DEF Keeps, Advances
<1> QED
  BY <1>1, AnalysisInvariance, PTL DEF Analysis!Spec, EndIsFinal

\* What a student was told of the end is what every reload finds.
THEOREM AnswersAreTruthful == Analysis!Spec => []AnswerIsTruthful
<1>1. AnalysisInv => AnswerIsTruthful
  BY DEF AnalysisInv
<1> QED
  BY <1>1, AnalysisInvariance, PTL

\* A conflict while a failure is recorded means that the analysis has ended, so that
\* the four rounds of _mark_analysis_failed are never needed.
THEOREM NoSecondRound == Analysis!Spec => []ConflictMeansEnd
<1>1. AnalysisInv => ConflictMeansEnd
  BY DEF AnalysisInv, SnapshotsAreCurrent, ConflictMeansEnd, In, Holding, Processes,
         Analysis!Processes
<1> QED
  BY <1>1, AnalysisInvariance, PTL

\* While storage acknowledges what it does, a ready worksheet can be opened.
THEOREM ReadyCanBeOpened == Analysis!Spec => []ReadyIsUsableIfAcknowledged
<1>1. AnalysisInv => ReadyIsUsableIfAcknowledged
  BY DEF AnalysisInv, KnowsItsObjects, ReadyIsUsableIfAcknowledged, ReadyIsUsable
<1> QED
  BY <1>1, AnalysisInvariance, PTL
==============================================================================
