------------------------ MODULE ExportPipeline_proofs -------------------------
(***************************************************************************)
(* The safety of ExportPipeline, for any number of requests and versions   *)
(* and any timeouts: what a completed export and a lease are worth.        *)
(***************************************************************************)
EXTENDS ExportPipeline, FiniteSetTheorems, TLAPS

-----------------------------------------------------------------------------
(* Shapes.                                                                 *)

Refs   == [Kinds -> Generations \cup {0}]
Record == [status : Statuses, age : 0..RequestTimeout, ref : Refs]
Call   == [phase : Phases, v : Versions, elapsed : 0..RequestTimeout, fresh : BOOLEAN,
           tries : 0..Attempts, ref : Refs, made : SUBSET Kinds]

\* The numbers and the values of the initial state are of their types.
LEMMA ConstantFacts ==
  /\ RequestTimeout \in Nat \ {0} /\ WorkTimeout \in Nat /\ WorkTimeout < RequestTimeout
  /\ Attempts \in Nat \ {0} /\ MaxVersion \in Nat \ {0}
  /\ 1 \in Versions /\ NoObjects \in Refs /\ Idle \in Call /\ NoExport \in Record
<1>1. NoObjects \in Refs /\ 1 \in Versions
  BY ExportAssumption DEF NoObjects, Refs, Versions
<1> QED
  BY <1>1, ExportAssumption DEF Idle, Call, NoExport, Record, Phases, Statuses

\* What the types say, one variable at a time.
LEMMA TypeFacts ==
  TypeOK <=>
    /\ version \in Versions /\ lossy \in BOOLEAN
    /\ exports \in [Versions -> Record] /\ objects \in [Versions -> Refs]
    /\ worker \in [Workers -> Call]
BY DEF TypeOK, Record, Refs, Call

\* y is x later in the same attempt: the same version, time and objects.
SameAttempt(x, y) ==
  y.v = x.v /\ y.elapsed = x.elapsed /\ y.ref = x.ref /\ y.made = x.made

\* A request that lost its snapshot.
LEMMA Stalled ==
  ASSUME NEW x \in Call
  PROVE  LET y == [x EXCEPT !.fresh = FALSE]
         IN  /\ y \in Call /\ ~y.fresh
             /\ y.phase = x.phase /\ y.tries = x.tries /\ SameAttempt(x, y)
BY DEF Call, SameAttempt

\* A request that took a new one.
LEMMA Retried ==
  ASSUME NEW x \in Call, x.tries + 1 <= Attempts
  PROVE  LET y == [x EXCEPT !.fresh = TRUE, !.tries = @ + 1]
         IN  /\ y \in Call /\ y.fresh
             /\ y.phase = x.phase /\ y.tries = x.tries + 1 /\ SameAttempt(x, y)
<1> DEFINE u == [x EXCEPT !.fresh = TRUE]
           y == [u EXCEPT !.tries = x.tries + 1]
<1>1. [x EXCEPT !.fresh = TRUE, !.tries = @ + 1] = y
  BY DEF Call
<1>2. u \in Call /\ u.fresh /\ u.phase = x.phase /\ u.tries = x.tries /\ SameAttempt(x, u)
  BY DEF Call, SameAttempt
<1>3. x.tries + 1 \in 0..Attempts
  BY ConstantFacts DEF Call
<1> HIDE DEF u
<1>4. y \in Call /\ y.fresh = u.fresh /\ y.phase = u.phase /\ y.tries = x.tries + 1 /\ SameAttempt(u, y)
  BY <1>2, <1>3 DEF Call, SameAttempt
<1> QED
  BY <1>1, <1>2, <1>4 DEF SameAttempt

\* A request that moved on.
LEMMA Advanced ==
  ASSUME NEW x \in Call, NEW p \in Phases
  PROVE  LET y == [x EXCEPT !.phase = p]
         IN  /\ y \in Call /\ y.phase = p
             /\ y.fresh = x.fresh /\ y.tries = x.tries /\ SameAttempt(x, y)
BY DEF Call, SameAttempt

\* Recording a failure starts over, or there is no time left for it.
GivesUp(x, y) ==
  \/ x.elapsed >= RequestTimeout /\ y = Idle
  \/ /\ x.elapsed < RequestTimeout
     /\ y.phase = "fail" /\ y.tries = 0 /\ SameAttempt(x, y)
     /\ y.fresh <=> x.fresh /\ x.tries = 0

\* Giving up is to record the failure, or to stop.
LEMMA FailingFacts ==
  ASSUME NEW x \in Call
  PROVE  Failing(x) \in Call /\ GivesUp(x, Failing(x))
<1>1. CASE WithinRequest(x)
  <2>1. Failing(x) = [x EXCEPT !.phase = "fail", !.fresh = x.fresh /\ x.tries = 0, !.tries = 0]
    BY <1>1 DEF Failing
  <2>2. "fail" \in Phases /\ 0 \in 0..Attempts
    BY ConstantFacts DEF Phases
  <2>3. CASE x.fresh /\ x.tries = 0
    <3>1. Failing(x) = [x EXCEPT !.phase = "fail", !.fresh = TRUE, !.tries = 0]
      BY <2>1, <2>3, Zenon
    <3>2. /\ Failing(x) \in Call /\ Failing(x).phase = "fail" /\ Failing(x).tries = 0
          /\ SameAttempt(x, Failing(x)) /\ Failing(x).fresh = TRUE
      BY <2>2, <3>1 DEF Call, SameAttempt
    <3> QED
      BY <1>1, <2>3, <3>2 DEF GivesUp, WithinRequest
  <2>4. CASE ~(x.fresh /\ x.tries = 0)
    <3>1. Failing(x) = [x EXCEPT !.phase = "fail", !.fresh = FALSE, !.tries = 0]
      BY <2>1, <2>4
    <3>2. /\ Failing(x) \in Call /\ Failing(x).phase = "fail" /\ Failing(x).tries = 0
          /\ SameAttempt(x, Failing(x)) /\ Failing(x).fresh = FALSE
      BY <2>2, <3>1 DEF Call, SameAttempt
    <3> QED
      BY <1>1, <2>4, <3>2 DEF GivesUp, WithinRequest
  <2> QED
    BY <2>3, <2>4
<1>2. CASE ~WithinRequest(x)
  <2>1. x.elapsed >= RequestTimeout
    BY <1>2, ConstantFacts DEF WithinRequest, Call
  <2> QED
    BY <1>2, <2>1, ConstantFacts DEF Failing, GivesUp
<1> QED
  BY <1>1, <1>2

\* The next storage call is started, or there is no time left for it.
LEMMA ProceedFacts ==
  ASSUME NEW x \in Call, NEW p \in Phases
  PROVE  LET y == Proceed(x, p)
         IN  /\ y \in Call
             /\ \/ GivesUp(x, y)
                \/ /\ y.phase = p /\ y.fresh = x.fresh /\ y.tries = x.tries
                   /\ SameAttempt(x, y)
BY FailingFacts, Advanced DEF Proceed

\* A request learns the generation of one of its objects.
LEMMA WithObjectFacts ==
  ASSUME NEW x \in Call, NEW k \in Kinds, NEW g \in Generations \cup {0}, NEW created \in BOOLEAN
  PROVE  LET y == WithObject(x, k, g, created)
         IN  /\ y \in Call
             /\ y.phase = x.phase /\ y.v = x.v /\ y.elapsed = x.elapsed
             /\ y.fresh = x.fresh /\ y.tries = x.tries
             /\ y.ref = [x.ref EXCEPT ![k] = g]
<1> DEFINE u == [x EXCEPT !.ref[k] = g]
           m == IF created THEN x.made \cup {k} ELSE x.made
<1>1. WithObject(x, k, g, created) = [u EXCEPT !.made = m]
  BY DEF WithObject, Call
<1>2. /\ u \in Call /\ u.ref = [x.ref EXCEPT ![k] = g]
      /\ u.phase = x.phase /\ u.v = x.v /\ u.elapsed = x.elapsed
      /\ u.fresh = x.fresh /\ u.tries = x.tries
  BY DEF Call, Refs
<1>3. m \in SUBSET Kinds
  BY DEF Call
<1> HIDE DEF u, m
<1> QED
  BY <1>1, <1>2, <1>3 DEF Call

\* One element more.
LEMMA AddOne ==
  ASSUME NEW S, IsFiniteSet(S), NEW x
  PROVE  IsFiniteSet(S \cup {x}) /\ Cardinality(S \cup {x}) <= Cardinality(S) + 1
<1>1. Cardinality(S) \in Nat
  BY FS_CardinalityType
<1> QED
  BY <1>1, FS_AddElement

\* There is a generation nobody remembers (storage never gives one twice).
LEMMA NewGenerationFacts ==
  ASSUME TypeOK, NEW v \in Versions, NEW k \in Kinds
  PROVE  NewGeneration(v, k) \in Generations
<1> DEFINE f == [w \in Workers |-> worker[w].ref[k]]
           R == {f[w] : w \in Workers}
           T == R \cup {objects[v][k]}
           U == T \cup {exports[v].ref[k]}
<1>1. IsFiniteSet(R) /\ Cardinality(R) <= Cardinality(Workers)
  <2>1. f \in Surjection(Workers, R)
    BY DEF Surjection
  <2> HIDE DEF f, R
  <2> QED
    BY <2>1, GenerationsSuffice, FS_Surjection
<1>2. IsFiniteSet(T) /\ Cardinality(T) <= Cardinality(R) + 1
  BY <1>1, AddOne
<1>3. IsFiniteSet(U) /\ Cardinality(U) <= Cardinality(T) + 1
  BY <1>2, AddOne
<1>4. /\ Cardinality(Workers) \in Nat /\ Cardinality(R) \in Nat
      /\ Cardinality(T) \in Nat /\ Cardinality(U) \in Nat
  BY <1>1, <1>2, <1>3, GenerationsSuffice, FS_CardinalityType
<1>5. ~(Generations \subseteq U)
  <2> SUFFICES ASSUME Generations \subseteq U PROVE FALSE
    OBVIOUS
  <2>1. IsFiniteSet(Generations) /\ Cardinality(Generations) <= Cardinality(U)
    BY <1>3, FS_Subset
  <2>2. Cardinality(Generations) \in Nat
    BY <2>1, FS_CardinalityType
  <2>3. Cardinality(Workers) + 2 < Cardinality(Generations)
    BY <2>1, GenerationsSuffice
  <2> HIDE DEF R, T, U
  <2> QED
    BY <1>1, <1>2, <1>3, <1>4, <2>1, <2>2, <2>3
<1>6. PICK g \in Generations : g \notin U
  BY <1>5
<1>7. /\ g \notin {objects[v][k], exports[v].ref[k]}
      /\ \A w \in Workers : worker[w].v = v => worker[w].ref[k] # g
  BY <1>6
<1> QED
  BY <1>7 DEF NewGeneration

-----------------------------------------------------------------------------
(* The inductive invariant.                                                *)

\* The code gives up before it has tried that often.
TriesLeft == \A w \in Workers : worker[w].tries < Attempts

\* A request works on the version it has the lease of, from the write of the lease
\* to the record of its failure, as long as it is within its time.
Holding == {"pdf", "manifest", "complete", "fail"}
InTime(w) == worker[w].phase \in Holding /\ worker[w].elapsed < RequestTimeout

\* What a request that has not seen a conflict may still write over.
SnapshotsAreOpen ==
  \A w \in Workers : worker[w].fresh =>
    /\ worker[w].phase = "start" => CanStart(exports[worker[w].v])
    /\ worker[w].phase \in Holding => exports[worker[w].v].status # "COMPLETE"

\* A lease is exactly as old as the request that holds it, until somebody completes
\* the export.
LeaseIsAsOld ==
  \A w \in Workers : InTime(w) =>
    LET r == exports[worker[w].v]
    IN  r.status = "COMPLETE" \/ (r.status = "CREATING" /\ r.age = worker[w].elapsed)

\* A request that is late may still record its failure, but not over the lease of
\* another one.
MayFail(w) == worker[w].phase = "fail" /\ worker[w].fresh

OneLease ==
  \A w, u \in Workers :
    w # u /\ (InTime(w) \/ MayFail(w)) /\ InTime(u) => worker[w].v # worker[u].v

\* Where requests do not overlap, the objects a request has come by are those
\* in storage, and a clean-up is never of a complete export.
Alone == \A w, u \in Workers : w = u

Reached(k) == IF k = "pdf" THEN {"manifest", "complete"} ELSE {"complete"}

Owns(x, r, o) ==
  /\ \A k \in Kinds : x.phase \in Reached(k) => x.ref[k] = o[k]
  /\ x.phase \in {"start", "pdf", "manifest", "cleanup"} => r.status # "COMPLETE"

OwnObjects == \A w \in Workers : Owns(worker[w], exports[worker[w].v], objects[worker[w].v])

IInv ==
  /\ TypeOK
  /\ TriesLeft
  /\ SnapshotsAreOpen
  /\ ~lossy => LeaseIsAsOld /\ OneLease
  /\ Alone => OwnObjects /\ CompleteIsStored

\* Nothing is stored and nobody works.
LEMMA InitIInv == Init => IInv
<1> SUFFICES ASSUME Init PROVE IInv
  OBVIOUS
<1>1. TypeOK
  BY ConstantFacts, TypeFacts DEF Init
<1>2. /\ \A w \in Workers : /\ worker[w].phase = "idle" /\ ~worker[w].fresh
                            /\ worker[w].tries = 0
      /\ \A v \in Versions : exports[v].status = "NONE"
  BY DEF Init, Idle, NoExport
<1>3. TriesLeft /\ SnapshotsAreOpen
  BY <1>2, ConstantFacts DEF TriesLeft, SnapshotsAreOpen
<1>4. LeaseIsAsOld /\ OneLease
  BY <1>2 DEF LeaseIsAsOld, OneLease, InTime, MayFail, Holding
<1>5. OwnObjects /\ CompleteIsStored
  BY <1>2 DEF OwnObjects, Owns, Reached, CompleteIsStored, Kinds
<1> QED
  BY <1>1, <1>3, <1>4, <1>5 DEF IInv

\* What an action owes the properties: the invariant, and that a complete export
\* stays what it is.
Keeps ==
  /\ IInv'
  /\ \A v \in Versions : exports[v].status = "COMPLETE" => exports'[v] = exports[v]

-----------------------------------------------------------------------------
(* The two shapes of a request's step: without a manifest write, and with. *)

InTimeAs(y) == y.phase \in Holding /\ y.elapsed < RequestTimeout

\* The other requests go on, with no snapshot they did not have.
Others(w) ==
  \A u \in Workers \ {w} :
    /\ worker'[u] \in Call
    /\ worker'[u].fresh => worker[u].fresh
    /\ worker'[u].phase = worker[u].phase /\ worker'[u].tries = worker[u].tries
    /\ SameAttempt(worker[u], worker'[u])

\* One request's step leaves the others alone.
LEMMA BecomesFacts ==
  ASSUME TypeOK, NEW w \in Workers, NEW y \in Call, Becomes(w, y)
  PROVE  /\ worker' \in [Workers -> Call] /\ worker'[w] = y
         /\ \A u \in Workers \ {w} : worker'[u] = worker[u]
BY TypeFacts DEF Becomes

\* A manifest write makes the snapshots of the others stale, and does no more to them.
LEMMA WroteFacts ==
  ASSUME TypeOK, NEW w \in Workers, NEW y \in Call, Wrote(w, y)
  PROVE  /\ worker' \in [Workers -> Call] /\ worker'[w] = y
         /\ Others(w) /\ \A u \in Workers \ {w} : ~worker'[u].fresh
<1>1. \A u \in Workers \ {w} :
        worker[u] \in Call /\ worker'[u] = [worker[u] EXCEPT !.fresh = FALSE]
  BY TypeFacts DEF Wrote
<1>2. \A u \in Workers \ {w} :
        /\ worker'[u] \in Call /\ ~worker'[u].fresh
        /\ worker'[u].phase = worker[u].phase /\ worker'[u].tries = worker[u].tries
        /\ SameAttempt(worker[u], worker'[u])
  BY <1>1, Stalled
<1>3. worker'[w] = y /\ DOMAIN worker' = Workers /\ worker' = [u \in Workers |-> worker'[u]]
  BY DEF Wrote
<1>4. \A u \in Workers : worker'[u] \in Call
  BY <1>2, <1>3
<1> QED
  BY <1>2, <1>3, <1>4 DEF Others

\* Without a write of the manifest, the request may not gain a lease.
LEMMA QuietKeeps ==
  ASSUME IInv, NEW w \in Workers, NEW y \in Call, Becomes(w, y),
         UNCHANGED <<exports, lossy>>, version' \in Versions, objects' \in [Versions -> Refs],
         y.tries < Attempts,
         y.fresh => /\ y.phase = "start" => CanStart(exports[y.v])
                    /\ y.phase \in Holding => exports[y.v].status # "COMPLETE",
         InTimeAs(y) => InTime(w) /\ y.v = worker[w].v /\ y.elapsed = worker[w].elapsed,
         y.phase = "fail" /\ y.fresh => (InTime(w) \/ MayFail(w)) /\ y.v = worker[w].v,
         Alone => /\ Owns(y, exports[y.v], objects'[y.v])
                  /\ \A v \in Versions : exports[v].status = "COMPLETE" => objects'[v] = objects[v]
  PROVE  Keeps
<1> DEFINE x == worker[w]
<1>1. /\ worker' \in [Workers -> Call] /\ worker'[w] = y
      /\ \A u \in Workers \ {w} : worker'[u] = worker[u]
  BY BecomesFacts DEF IInv
<1>2. TypeOK'
  <2>1. version' \in Versions /\ lossy' \in BOOLEAN /\ exports' \in [Versions -> Record]
    BY TypeFacts DEF IInv
  <2> QED
    BY <1>1, <2>1 DEF TypeOK, Record, Refs, Call
<1>3. TriesLeft'
  BY <1>1 DEF IInv, TriesLeft
<1>4. SnapshotsAreOpen'
  BY <1>1 DEF IInv, SnapshotsAreOpen, CanStart, Stale
<1>5. ASSUME ~lossy PROVE LeaseIsAsOld' /\ OneLease'
  <2>1. LeaseIsAsOld /\ OneLease
    BY <1>5 DEF IInv
  <2>2. LeaseIsAsOld'
    BY <1>1, <2>1 DEF LeaseIsAsOld, InTime, InTimeAs
  <2>3. OneLease'
    BY <1>1, <2>1 DEF OneLease, InTime, MayFail, InTimeAs
  <2> QED
    BY <2>2, <2>3
<1>6. ASSUME Alone PROVE OwnObjects' /\ CompleteIsStored'
  <2>1. \A u \in Workers : u = w
    BY <1>6 DEF Alone
  <2> QED
    BY <1>1, <1>6, <2>1 DEF IInv, OwnObjects, CompleteIsStored
<1> QED
  BY <1>2, <1>3, <1>4, <1>5, <1>6 DEF Keeps, IInv, Alone

\* With a write, the request leaves a record that suits it and those still at work.
LEMMA WriteKeeps ==
  ASSUME IInv, NEW w \in Workers, NEW y \in Call, NEW r \in Record,
         Wrote(w, y), SetRecord(worker[w].v, r), UNCHANGED <<version, objects, lossy>>,
         worker[w].fresh, worker[w].phase \in {"start"} \cup Holding,
         y.tries < Attempts,
         y.fresh => y.phase # "start" /\ y.v = worker[w].v
                    /\ (y.phase \in Holding => r.status # "COMPLETE"),
         ~lossy => /\ y.phase \in Holding => /\ y.v = worker[w].v
                                             /\ r.status = "CREATING" /\ r.age = y.elapsed
                   /\ \/ \A u \in Workers \ {w} : InTime(u) => worker[u].v # worker[w].v
                      \/ r.status = "COMPLETE" /\ y.phase \notin Holding,
         Alone => /\ Owns(y, exports'[y.v], objects[y.v])
                  /\ r.status = "COMPLETE" => r.ref = objects[worker[w].v]
  PROVE  Keeps
<1> DEFINE v == worker[w].v
<1>1. /\ worker' \in [Workers -> Call] /\ worker'[w] = y /\ Others(w)
      /\ \A u \in Workers \ {w} : ~worker'[u].fresh
  BY WroteFacts DEF IInv
<1>2. /\ v \in Versions /\ exports' \in [Versions -> Record]
      /\ exports'[v] = r /\ \A n \in Versions \ {v} : exports'[n] = exports[n]
  BY TypeFacts DEF IInv, SetRecord, Call
<1>3. TypeOK'
  <2>1. version' \in Versions /\ lossy' \in BOOLEAN /\ objects' \in [Versions -> Refs]
    BY TypeFacts DEF IInv
  <2> QED
    BY <1>1, <1>2, <2>1 DEF TypeOK, Record, Refs, Call
<1>4. TriesLeft'
  BY <1>1 DEF IInv, TriesLeft, Others
<1>5. SnapshotsAreOpen'
  BY <1>1, <1>2 DEF SnapshotsAreOpen
<1>6. exports[v].status # "COMPLETE"
  BY DEF IInv, SnapshotsAreOpen, CanStart
<1>7. ASSUME ~lossy PROVE LeaseIsAsOld' /\ OneLease'
  <2>1. LeaseIsAsOld /\ OneLease
    BY <1>7 DEF IInv
  <2>2. \A u \in Workers \ {w} :
          (InTime(u)' <=> InTime(u)) /\ worker'[u].v = worker[u].v
          /\ worker'[u].elapsed = worker[u].elapsed /\ ~MayFail(u)'
    BY <1>1 DEF Others, InTime, MayFail, SameAttempt
  <2>3. LeaseIsAsOld'
    <3>1. ASSUME NEW u \in Workers \ {w}, InTime(u)'
          PROVE  LET q == exports'[worker'[u].v]
                 IN  q.status = "COMPLETE" \/ (q.status = "CREATING" /\ q.age = worker'[u].elapsed)
      <4>1. CASE worker[u].v = v
        BY <1>2, <1>7, <2>2, <3>1, <4>1
      <4>2. CASE worker[u].v # v
        <5>1. worker[u].v \in Versions
          BY TypeFacts DEF IInv, Call
        <5> QED
          BY <1>2, <2>1, <2>2, <3>1, <4>2, <5>1 DEF LeaseIsAsOld
      <4> QED
        BY <4>1, <4>2
    <3>2. ASSUME InTime(w)'
          PROVE  exports'[worker'[w].v].status = "CREATING"
                 /\ exports'[worker'[w].v].age = worker'[w].elapsed
      BY <1>1, <1>2, <1>7, <3>2 DEF InTime
    <3> QED
      BY <3>1, <3>2 DEF LeaseIsAsOld
  <2>4. OneLease'
    BY <1>1, <1>7, <2>1, <2>2 DEF OneLease, InTime, MayFail, Holding
  <2> QED
    BY <2>3, <2>4
<1>8. ASSUME Alone PROVE OwnObjects' /\ CompleteIsStored'
  <2>1. \A u \in Workers : u = w
    BY <1>8 DEF Alone
  <2>2. OwnObjects'
    BY <1>1, <1>8, <2>1 DEF OwnObjects
  <2>3. CompleteIsStored'
    BY <1>2, <1>8 DEF IInv, CompleteIsStored
  <2> QED
    BY <2>2, <2>3
<1> QED
  BY <1>2, <1>3, <1>4, <1>5, <1>6, <1>7, <1>8 DEF Keeps, IInv, Alone

-----------------------------------------------------------------------------
(* The actions.                                                            *)

\* What every action of a request starts from.
LEMMA CallFacts ==
  ASSUME IInv, NEW w \in Workers
  PROVE  /\ TypeOK /\ worker[w] \in Call /\ worker[w].v \in Versions
         /\ worker[w].tries \in Nat /\ worker[w].tries < Attempts
         /\ worker[w].elapsed \in 0..RequestTimeout
         /\ exports[worker[w].v] \in Record /\ objects[worker[w].v] \in Refs
         /\ version \in Versions /\ objects \in [Versions -> Refs]
<1>1. TypeOK /\ worker[w] \in Call
  BY TypeFacts DEF IInv
<1>2. worker[w].v \in Versions /\ worker[w].tries \in Nat /\ worker[w].elapsed \in 0..RequestTimeout
  BY <1>1, ConstantFacts DEF Call
<1> QED
  BY <1>1, <1>2, TypeFacts DEF IInv, TriesLeft

\* Stopping loses nothing.
LEMMA IdleKeeps ==
  ASSUME IInv, NEW w \in Workers, Becomes(w, Idle), UNCHANGED <<version, exports, objects, lossy>>
  PROVE  Keeps
<1>1. Idle.phase = "idle" /\ ~Idle.fresh /\ Idle.tries = 0
  BY DEF Idle
<1> QED
  BY <1>1, QuietKeeps, CallFacts, ConstantFacts DEF InTimeAs, Holding, Owns, Reached, Kinds

\* Nor does giving up in the middle of the work, whatever the call left behind.
LEMMA FailingKeeps ==
  ASSUME IInv, NEW w \in Workers, NEW y \in Call, GivesUp(worker[w], y), Becomes(w, y),
         worker[w].phase \in Holding,
         UNCHANGED <<exports, lossy, version>>, objects' \in [Versions -> Refs],
         Alone => \A v \in Versions : exports[v].status = "COMPLETE" => objects'[v] = objects[v]
  PROVE  Keeps
<1> USE CallFacts, ConstantFacts
<1>1. CASE y = Idle
  <2>1. Idle.phase = "idle" /\ ~Idle.fresh /\ Idle.tries = 0
    BY DEF Idle
  <2> QED
    BY <1>1, <2>1, QuietKeeps DEF InTimeAs, Holding, Owns, Reached, Kinds
<1>2. CASE y # Idle
  <2>1. /\ y.phase = "fail" /\ y.tries = 0 /\ SameAttempt(worker[w], y)
        /\ y.fresh => worker[w].fresh
        /\ worker[w].elapsed < RequestTimeout
    BY <1>2 DEF GivesUp
  <2>2. y.fresh => exports[y.v].status # "COMPLETE"
    BY <2>1 DEF IInv, SnapshotsAreOpen, SameAttempt
  <2>3. InTime(w) /\ y.v = worker[w].v /\ y.elapsed = worker[w].elapsed
    BY <2>1 DEF InTime, SameAttempt
  <2>4. \A o : Owns(y, exports[y.v], o)
    BY <2>1 DEF Owns, Reached, Kinds
  <2> QED
    BY <2>1, <2>2, <2>3, <2>4, QuietKeeps
<1> QED
  BY <1>1, <1>2

\* start_export takes its snapshot of a record it may start from.
LEMMA StartExportStep == \A w \in Workers : IInv /\ StartExport(w) => Keeps
<1> SUFFICES ASSUME IInv, NEW w \in Workers, StartExport(w) PROVE Keeps
  OBVIOUS
<1> DEFINE y == [Idle EXCEPT !.phase = "start", !.v = version, !.fresh = TRUE]
<1>1. /\ y \in Call /\ y.phase = "start" /\ y.v = version /\ y.fresh /\ y.tries = 0
  BY CallFacts, ConstantFacts DEF Call, Idle, Phases
<1>2. /\ CanStart(exports[version]) /\ Becomes(w, y) /\ UNCHANGED <<version, exports, objects, lossy>>
  BY DEF StartExport
<1>3. Owns(y, exports[y.v], objects'[y.v])
  BY <1>1, <1>2 DEF Owns, CanStart, Reached, Kinds
<1> HIDE DEF y
<1> QED
  BY <1>1, <1>2, <1>3, QuietKeeps, CallFacts, ConstantFacts DEF InTimeAs, Holding

\* A conflict ends the request before it has a lease.
LEMMA StartConflictStep == \A w \in Workers : IInv /\ StartConflict(w) => Keeps
BY IdleKeeps DEF StartConflict

\* A request stops where it stands.
LEMMA CrashStep == \A w \in Workers : IInv /\ Crash(w) => Keeps
BY IdleKeeps DEF Crash

\* The lease is written: nobody else can be within the time of another one.
LEMMA SaveStartStep == \A w \in Workers : IInv /\ SaveStart(w) => Keeps
<1> SUFFICES ASSUME IInv, NEW w \in Workers, SaveStart(w) PROVE Keeps
  OBVIOUS
<1> DEFINE x == worker[w]
           r == Lease(w)
<1> USE CallFacts, ConstantFacts
<1>1. /\ x.phase = "start" /\ x.fresh /\ SetRecord(x.v, r) /\ UNCHANGED <<version, objects, lossy>>
  BY DEF SaveStart, In
<1>2. PICK y : /\ Wrote(w, y)
               /\ y = Proceed(x, "pdf") \/ y = Idle
  BY DEF SaveStart
<1>3. /\ r \in Record /\ r.status = "CREATING" /\ r.age = x.elapsed /\ r.ref = exports[x.v].ref
  BY DEF Lease, Mine, Record, Statuses
<1>4. CanStart(exports[x.v])
  BY <1>1 DEF IInv, SnapshotsAreOpen
<1>5. ~lossy => \A u \in Workers \ {w} : InTime(u) => worker[u].v # x.v
  BY <1>4 DEF IInv, LeaseIsAsOld, CanStart, Stale, InTime
<1>6. /\ y \in Call /\ y.tries < Attempts
      /\ \/ y = Idle
         \/ y.phase \in {"pdf", "fail"} /\ SameAttempt(x, y)
  <2>1. CASE y = Proceed(x, "pdf")
    <3>1. "pdf" \in Phases /\ x \in Call
      BY DEF Phases
    <3>2. /\ y \in Call
          /\ \/ GivesUp(x, y)
             \/ y.phase = "pdf" /\ y.fresh = x.fresh /\ y.tries = x.tries /\ SameAttempt(x, y)
      BY <2>1, <3>1, ProceedFacts
    <3> QED
      BY <3>2 DEF GivesUp, Idle
  <2>2. CASE y = Idle
    BY <2>2 DEF Idle
  <2> QED
    BY <1>2, <2>1, <2>2
<1>7. \/ y.phase = "idle" /\ ~y.fresh
      \/ y.phase \in {"pdf", "fail"} /\ y.v = x.v /\ y.elapsed = x.elapsed
  BY <1>6 DEF Idle, SameAttempt
<1>8. exports'[x.v] = r
  BY <1>1, TypeFacts DEF SetRecord
<1>9. Alone => /\ Owns(y, exports'[y.v], objects[y.v])
               /\ r.status = "COMPLETE" => r.ref = objects[x.v]
  BY <1>3, <1>7, <1>8 DEF Owns, Reached, Kinds
<1>10. y.fresh => y.phase # "start" /\ y.v = x.v /\ (y.phase \in Holding => r.status # "COMPLETE")
  BY <1>3, <1>7
<1>11. ~lossy => /\ y.phase \in Holding => y.v = x.v /\ r.status = "CREATING" /\ r.age = y.elapsed
                 /\ \A u \in Workers \ {w} : InTime(u) => worker[u].v # x.v
  BY <1>3, <1>5, <1>7 DEF Holding
<1> HIDE DEF r
<1> QED
  BY <1>1, <1>2, <1>3, <1>6, <1>9, <1>10, <1>11, WriteKeeps

\* The generation of the object the request was working on is known, and is the one
\* in storage.
LEMMA WorkKeeps ==
  ASSUME IInv, NEW w \in Workers, NEW k \in Kinds, In(w, k), NEW g \in Generations,
         NEW created \in BOOLEAN,
         Becomes(w, Proceed(WithObject(worker[w], k, g, created), After(k))),
         UNCHANGED <<version, exports, lossy>>, objects' \in [Versions -> Refs],
         objects'[worker[w].v] = [objects[worker[w].v] EXCEPT ![k] = g],
         \A v \in Versions \ {worker[w].v} : objects'[v] = objects[v]
  PROVE  Keeps
<1> DEFINE x == worker[w]
           z == WithObject(x, k, g, created)
           y == Proceed(z, After(k))
<1> USE CallFacts, ConstantFacts
<1>1. x.phase = k /\ k \in {"pdf", "manifest"}
  BY DEF In, Kinds
<1>2. After(k) \in Phases /\ After(k) = IF k = "pdf" THEN "manifest" ELSE "complete"
  BY DEF After, Phases
<1>3. /\ z \in Call /\ z.phase = x.phase /\ z.v = x.v /\ z.elapsed = x.elapsed
      /\ z.fresh = x.fresh /\ z.tries = x.tries /\ z.ref = [x.ref EXCEPT ![k] = g]
  BY WithObjectFacts
<1> HIDE DEF z
<1>4. /\ y \in Call
      /\ \/ GivesUp(z, y)
         \/ y.phase = After(k) /\ y.fresh = z.fresh /\ y.tries = z.tries /\ SameAttempt(z, y)
  BY <1>2, <1>3, ProceedFacts
<1> HIDE DEF y
<1>5. /\ y.tries < Attempts
      /\ \/ y.phase = "idle" /\ ~y.fresh
         \/ /\ y.phase \in {"fail", After(k)} /\ y.v = x.v /\ y.elapsed = x.elapsed
            /\ y.ref = z.ref
            /\ y.fresh => x.fresh
            /\ y.phase = "fail" => x.elapsed < RequestTimeout
  BY <1>2, <1>3, <1>4 DEF GivesUp, Idle, SameAttempt
<1>6. /\ y.fresh => /\ y.phase = "start" => CanStart(exports[y.v])
                    /\ y.phase \in Holding => exports[y.v].status # "COMPLETE"
      /\ InTimeAs(y) => InTime(w) /\ y.v = x.v /\ y.elapsed = x.elapsed
      /\ y.phase = "fail" /\ y.fresh => InTime(w) /\ y.v = x.v
  BY <1>1, <1>2, <1>5 DEF IInv, SnapshotsAreOpen, InTimeAs, InTime, Holding
<1>7. ASSUME Alone
      PROVE  /\ Owns(y, exports[y.v], objects'[y.v])
             /\ \A v \in Versions : exports[v].status = "COMPLETE" => objects'[v] = objects[v]
  <2>1. Owns(x, exports[x.v], objects[x.v])
    BY <1>7 DEF IInv, OwnObjects
  <2>2. exports[x.v].status # "COMPLETE"
    BY <1>1, <2>1 DEF Owns
  <2>3. CASE y.phase = "idle" \/ y.phase = "fail"
    BY <2>2, <2>3 DEF Owns, Reached, Kinds
  <2>4. CASE y.phase = After(k) /\ y.v = x.v /\ y.ref = z.ref
    <3>1. \A j \in Kinds : j = k \/ (j = "pdf" /\ k = "manifest") => y.ref[j] = objects'[x.v][j]
      <4>1. x.ref \in Refs /\ objects[x.v] \in Refs
        BY DEF Call
      <4>2. k = "manifest" => x.ref["pdf"] = objects[x.v]["pdf"]
        BY <1>1, <2>1 DEF Owns, Reached, Kinds
      <4> QED
        BY <1>3, <2>4, <4>1, <4>2 DEF Refs
    <3>2. \A j \in Kinds : y.phase \in Reached(j) => y.ref[j] = objects'[y.v][j]
      BY <1>1, <1>2, <2>4, <3>1 DEF Reached, Kinds
    <3> QED
      BY <2>2, <2>4, <3>2 DEF Owns
  <2> QED
    BY <1>5, <2>2, <2>3, <2>4
<1>8. Becomes(w, y)
  BY DEF y, z
<1> HIDE DEF x
<1> QED
  BY <1>4, <1>5, <1>6, <1>7, <1>8, QuietKeeps DEF x

\* An object is stored where there was none.
LEMMA CreateObjectStep == \A w \in Workers, k \in Kinds : IInv /\ CreateObject(w, k) => Keeps
<1> SUFFICES ASSUME IInv, NEW w \in Workers, NEW k \in Kinds, CreateObject(w, k) PROVE Keeps
  OBVIOUS
<1> DEFINE x == worker[w]
           g == NewGeneration(x.v, k)
<1>1. x.v \in Versions /\ objects \in [Versions -> Refs] /\ g \in Generations /\ lossy \in BOOLEAN
  BY CallFacts, TypeFacts, NewGenerationFacts
<1> HIDE DEF g
<1>2. /\ In(w, k) /\ objects' = [objects EXCEPT ![x.v][k] = g]
      /\ UNCHANGED <<version, exports, lossy>>
  BY DEF CreateObject, Store, g
<1>3. PICK created \in BOOLEAN :
        Becomes(w, Proceed(WithObject(x, k, g, created), After(k)))
  BY <1>1 DEF CreateObject, g
<1>4. /\ objects' \in [Versions -> Refs] /\ objects'[x.v] = [objects[x.v] EXCEPT ![k] = g]
      /\ \A v \in Versions \ {x.v} : objects'[v] = objects[v]
  BY <1>1, <1>2 DEF Refs
<1> QED
  BY <1>1, <1>2, <1>3, <1>4, WorkKeeps

\* An object that is there is verified and taken over.
LEMMA VerifyObjectStep == \A w \in Workers, k \in Kinds : IInv /\ VerifyObject(w, k) => Keeps
<1> SUFFICES ASSUME IInv, NEW w \in Workers, NEW k \in Kinds, VerifyObject(w, k) PROVE Keeps
  OBVIOUS
<1> DEFINE x == worker[w]
           g == objects[x.v][k]
<1>1. x.v \in Versions /\ objects \in [Versions -> Refs]
  BY CallFacts
<1>2. /\ In(w, k) /\ g # 0 /\ UNCHANGED <<version, exports, objects, lossy>>
      /\ Becomes(w, Proceed(WithObject(x, k, g, FALSE), After(k)))
  BY DEF VerifyObject
<1>3. g \in Generations /\ objects[x.v] = [objects[x.v] EXCEPT ![k] = g]
  BY <1>1, <1>2 DEF Refs
<1> HIDE DEF g
<1> QED
  BY <1>1, <1>2, <1>3, WorkKeeps

\* A call failed; what it may have left in storage belongs to no complete export.
LEMMA WorkErrorStep == \A w \in Workers, k \in Kinds : IInv /\ WorkError(w, k) => Keeps
<1> SUFFICES ASSUME IInv, NEW w \in Workers, NEW k \in Kinds, WorkError(w, k) PROVE Keeps
  OBVIOUS
<1> DEFINE x == worker[w]
           g == NewGeneration(x.v, k)
<1>1. x \in Call /\ x.v \in Versions /\ objects \in [Versions -> Refs] /\ g \in Generations
  BY CallFacts, NewGenerationFacts
<1>2. x.phase = k /\ k \in Kinds /\ Becomes(w, Failing(x)) /\ UNCHANGED <<version, exports, lossy>>
  BY DEF WorkError, In
<1> HIDE DEF g
<1>3. objects' = objects \/ objects' = [objects EXCEPT ![x.v][k] = g]
  BY DEF WorkError, Store, g
<1>4. objects' \in [Versions -> Refs] /\ \A v \in Versions \ {x.v} : objects'[v] = objects[v]
  BY <1>1, <1>3 DEF Refs
<1>5. Alone => exports[x.v].status # "COMPLETE"
  BY <1>2 DEF IInv, OwnObjects, Owns, Kinds
<1>6. Failing(x) \in Call /\ GivesUp(x, Failing(x))
  BY <1>1, FailingFacts
<1> QED
  BY <1>2, <1>4, <1>5, <1>6, FailingKeeps DEF Kinds, Holding

\* The export is completed: the objects of the record are those in storage.
LEMMA CompleteStep == \A w \in Workers : IInv /\ Complete(w) => Keeps
<1> SUFFICES ASSUME IInv, NEW w \in Workers, Complete(w) PROVE Keeps
  OBVIOUS
<1> DEFINE x == worker[w]
           r == Completed(w)
<1> USE CallFacts, ConstantFacts
<1>1. /\ x.phase = "complete" /\ x.fresh /\ SetRecord(x.v, r) /\ UNCHANGED <<version, objects, lossy>>
  BY DEF Complete, In
<1>2. PICK y : /\ Wrote(w, y)
               /\ \/ y = Idle
                  \/ lossy /\ y \in {[x EXCEPT !.fresh = FALSE], [Failing(x) EXCEPT !.fresh = FALSE]}
  BY DEF Complete
<1>3. r \in Record /\ r.status = "COMPLETE" /\ r.ref = x.ref
  BY DEF Completed, Mine, Record, Statuses, Call
<1>4. /\ y \in Call /\ ~y.fresh /\ y.tries < Attempts
      /\ \/ y.phase = "idle"
         \/ lossy /\ y.phase = "fail"
         \/ lossy /\ y.phase = "complete" /\ SameAttempt(x, y)
  <2>1. CASE y = Idle
    BY <2>1 DEF Idle
  <2>2. CASE lossy /\ y = [x EXCEPT !.fresh = FALSE]
    BY <1>1, <2>2, Stalled
  <2>3. CASE lossy /\ y = [Failing(x) EXCEPT !.fresh = FALSE]
    <3>1. Failing(x) \in Call /\ GivesUp(x, Failing(x))
      BY FailingFacts
    <3>2. /\ y \in Call /\ ~y.fresh
          /\ y.phase = Failing(x).phase /\ y.tries = Failing(x).tries
      BY <2>3, <3>1, Stalled
    <3> QED
      BY <2>3, <3>1, <3>2 DEF GivesUp, Idle
  <2> QED
    BY <1>2, <2>1, <2>2, <2>3
<1>5. exports'[x.v] = r
  BY <1>1, TypeFacts DEF SetRecord
<1>6. ASSUME Alone PROVE Owns(y, exports'[y.v], objects[y.v]) /\ r.ref = objects[x.v]
  <2>1. \A k \in Kinds : x.ref[k] = objects[x.v][k]
    BY <1>1, <1>6 DEF IInv, OwnObjects, Owns, Reached, Kinds
  <2>2. x.ref \in Refs /\ objects[x.v] \in Refs
    BY DEF Call
  <2>3. x.ref = objects[x.v]
    BY <2>1, <2>2 DEF Refs
  <2>4. Owns(y, exports'[y.v], objects[y.v])
    BY <1>4, <2>1 DEF Owns, Reached, Kinds, SameAttempt
  <2> QED
    BY <1>3, <2>3, <2>4
<1>7. ~lossy => r.status = "COMPLETE" /\ y.phase \notin Holding
  BY <1>3, <1>4 DEF Holding
<1>8. x.phase \in {"start"} \cup Holding
  BY <1>1 DEF Holding
<1> HIDE DEF r
<1> QED
  BY <1>1, <1>2, <1>3, <1>4, <1>6, <1>7, <1>8, WriteKeeps

\* After a conflict: another try at a lease, the same end, or a failure.
LEMMA CompleteAgainStep == \A w \in Workers : IInv /\ CompleteAgain(w) => Keeps
<1> SUFFICES ASSUME IInv, NEW w \in Workers, CompleteAgain(w) PROVE Keeps
  OBVIOUS
<1> DEFINE x == worker[w]
           y == [x EXCEPT !.fresh = TRUE, !.tries = @ + 1]
<1> USE CallFacts, ConstantFacts
<1>1. x.phase = "complete" /\ ~x.fresh /\ UNCHANGED <<version, exports, objects, lossy>>
  BY DEF CompleteAgain, In
<1>2. \/ Becomes(w, Failing(x)) \/ Becomes(w, Failing([x EXCEPT !.fresh = FALSE]))
      \/ Becomes(w, Idle)
      \/ Becomes(w, y) /\ x.tries + 1 # Attempts /\ exports[x.v].status = "CREATING"
  BY DEF CompleteAgain, Mine
<1>3. [x EXCEPT !.fresh = FALSE] = x
  BY <1>1 DEF Call
<1>4. CASE Becomes(w, Failing(x))
  BY <1>1, <1>4, FailingFacts, FailingKeeps DEF Holding
<1>5. CASE Becomes(w, Idle)
  BY <1>1, <1>5, IdleKeeps
<1>6. CASE Becomes(w, y) /\ x.tries + 1 # Attempts /\ exports[x.v].status = "CREATING"
  <2>1. x.tries + 1 < Attempts /\ x.tries + 1 <= Attempts
    BY <1>6
  <2>2. /\ y \in Call /\ y.phase = "complete" /\ y.tries < Attempts
        /\ y.v = x.v /\ y.elapsed = x.elapsed /\ y.ref = x.ref
    BY <1>1, <2>1, Retried DEF SameAttempt
  <2>3. Becomes(w, y) /\ exports[y.v].status # "COMPLETE"
    BY <1>6, <2>2
  <2>4. Alone => Owns(y, exports[y.v], objects[y.v])
    BY <1>1, <2>2 DEF IInv, OwnObjects, Owns
  <2>5. InTimeAs(y) => InTime(w)
    BY <1>1, <2>2 DEF InTimeAs, InTime
  <2> HIDE DEF y
  <2> QED
    BY <1>1, <2>2, <2>3, <2>4, <2>5, QuietKeeps
<1> QED
  BY <1>2, <1>3, <1>4, <1>5, <1>6

\* An error in between is a failure of the export.
LEMMA CompleteErrorStep == \A w \in Workers : IInv /\ CompleteError(w) => Keeps
<1> SUFFICES ASSUME IInv, NEW w \in Workers, CompleteError(w) PROVE Keeps
  OBVIOUS
<1> QED
  BY CallFacts, FailingFacts, FailingKeeps DEF CompleteError, In, Holding

\* The failure is recorded, over nobody's lease.
LEMMA RecordFailureStep == \A w \in Workers : IInv /\ RecordFailure(w) => Keeps
<1> SUFFICES ASSUME IInv, NEW w \in Workers, RecordFailure(w) PROVE Keeps
  OBVIOUS
<1> DEFINE x == worker[w]
           r == Failed(w)
<1> USE CallFacts, ConstantFacts
<1>1. /\ x.phase = "fail" /\ x.fresh /\ SetRecord(x.v, r) /\ UNCHANGED <<version, objects, lossy>>
  BY DEF RecordFailure, In
<1>2. PICK y : /\ Wrote(w, y)
               /\ \/ y = Idle
                  \/ y = [x EXCEPT !.phase = "cleanup"]
                  \/ lossy /\ y = [x EXCEPT !.fresh = FALSE]
  BY DEF RecordFailure, Cleaning
<1>3. r \in Record /\ r.status = "FAILED"
  BY DEF Failed, Mine, Record, Statuses
<1>4. "cleanup" \in Phases
  BY DEF Phases
<1>5. /\ y \in Call /\ y.tries < Attempts
      /\ \/ y.phase = "idle" /\ ~y.fresh
         \/ y.phase = "cleanup" /\ y.v = x.v
         \/ lossy /\ y.phase = "fail" /\ ~y.fresh
  <2>1. CASE y = Idle
    <3>1. Idle.phase = "idle" /\ ~Idle.fresh /\ Idle.tries = 0
      BY DEF Idle
    <3> QED
      BY <2>1, <3>1
  <2>2. CASE y = [x EXCEPT !.phase = "cleanup"]
    BY <1>4, <2>2, Advanced DEF SameAttempt
  <2>3. CASE lossy /\ y = [x EXCEPT !.fresh = FALSE]
    BY <1>1, <2>3, Stalled
  <2> QED
    BY <1>2, <2>1, <2>2, <2>3
<1>6. exports'[x.v] = r
  BY <1>1, TypeFacts DEF SetRecord
<1>7. Owns(y, exports'[y.v], objects[y.v])
  BY <1>3, <1>5, <1>6 DEF Owns, Reached, Kinds
<1>8. ~lossy => \A u \in Workers \ {w} : InTime(u) => worker[u].v # x.v
  BY <1>1 DEF IInv, OneLease, MayFail
<1>9. x.phase \in {"start"} \cup Holding
  BY <1>1 DEF Holding
<1>10. /\ y.fresh => y.phase # "start" /\ y.v = x.v /\ (y.phase \in Holding => r.status # "COMPLETE")
       /\ ~lossy => y.phase \notin Holding
  BY <1>3, <1>5 DEF Holding
<1> HIDE DEF r
<1> QED
  BY <1>1, <1>2, <1>3, <1>5, <1>7, <1>8, <1>9, <1>10, WriteKeeps

\* After a conflict it is tried again, unless the export was completed meanwhile.
LEMMA RecordFailureAgainStep == \A w \in Workers : IInv /\ RecordFailureAgain(w) => Keeps
<1> SUFFICES ASSUME IInv, NEW w \in Workers, RecordFailureAgain(w) PROVE Keeps
  OBVIOUS
<1> DEFINE x == worker[w]
           y == [x EXCEPT !.fresh = TRUE, !.tries = @ + 1]
<1> USE CallFacts, ConstantFacts
<1>1. x.phase = "fail" /\ ~x.fresh /\ UNCHANGED <<version, exports, objects, lossy>>
  BY DEF RecordFailureAgain, In
<1>2. \/ Becomes(w, Idle)
      \/ /\ Becomes(w, y) /\ x.tries + 1 # Attempts /\ exports[x.v].status # "COMPLETE"
         /\ x.elapsed < RequestTimeout
  BY DEF RecordFailureAgain, Mine, WithinRequest
<1>3. CASE Becomes(w, Idle)
  BY <1>1, <1>3, IdleKeeps
<1>4. CASE /\ Becomes(w, y) /\ x.tries + 1 # Attempts /\ exports[x.v].status # "COMPLETE"
           /\ x.elapsed < RequestTimeout
  <2>1. x.tries + 1 < Attempts /\ x.tries + 1 <= Attempts
    BY <1>4
  <2>2. /\ y \in Call /\ y.phase = "fail" /\ y.tries < Attempts
        /\ y.v = x.v /\ y.elapsed = x.elapsed
    BY <1>1, <2>1, Retried DEF SameAttempt
  <2>3. InTime(w) /\ Becomes(w, y) /\ exports[y.v].status # "COMPLETE"
    BY <1>1, <1>4, <2>2 DEF InTime, Holding
  <2>4. Owns(y, exports[y.v], objects[y.v])
    BY <2>2 DEF Owns, Reached, Kinds
  <2> HIDE DEF y
  <2> QED
    BY <1>1, <2>2, <2>3, <2>4, QuietKeeps
<1> QED
  BY <1>2, <1>3, <1>4

\* An object of a failed export is deleted.
LEMMA CleanupStep == \A w \in Workers : IInv /\ Cleanup(w) => Keeps
<1> SUFFICES ASSUME IInv, NEW w \in Workers, Cleanup(w) PROVE Keeps
  OBVIOUS
<1> DEFINE x == worker[w]
<1> USE CallFacts, ConstantFacts
<1>1. x.phase = "cleanup" /\ UNCHANGED <<version, exports, lossy>>
  BY DEF Cleanup, In
<1>2. PICK k \in Kinds : objects' = objects \/ objects' = [objects EXCEPT ![x.v][k] = 0]
  BY DEF Cleanup, Kinds
<1>3. PICK m \in SUBSET Kinds : Becomes(w, Idle) \/ Becomes(w, [x EXCEPT !.made = m])
  BY DEF Cleanup, Call
<1>4. PICK y : Becomes(w, y) /\ (y = Idle \/ y = [x EXCEPT !.made = m])
  BY <1>3
<1>5. /\ y \in Call /\ y.tries < Attempts
      /\ y.phase = "idle" \/ (y.phase = "cleanup" /\ y.v = x.v)
  <2>1. CASE y = Idle
    <3>1. Idle.phase = "idle" /\ Idle.tries = 0
      BY DEF Idle
    <3> QED
      BY <2>1, <3>1
  <2>2. CASE y = [x EXCEPT !.made = m]
    BY <1>1, <2>2 DEF Call
  <2> QED
    BY <1>4, <2>1, <2>2
<1>6. objects' \in [Versions -> Refs] /\ \A v \in Versions \ {x.v} : objects'[v] = objects[v]
  BY <1>2 DEF Refs
<1>7. Alone => exports[x.v].status # "COMPLETE"
  BY <1>1 DEF IInv, OwnObjects, Owns
<1>8. Alone => Owns(y, exports[y.v], objects'[y.v])
  BY <1>5, <1>7 DEF Owns, Reached, Kinds
<1>9. y.phase \notin {"start"} \cup Holding
  BY <1>5 DEF Holding
<1> QED
  BY <1>1, <1>4, <1>5, <1>6, <1>7, <1>8, <1>9, QuietKeeps DEF InTimeAs, Holding

\* Answers take every request's snapshot away, and nothing else.
LEMMA AnswerRequestStep == IInv /\ AnswerRequest => Keeps
<1> SUFFICES ASSUME IInv, AnswerRequest PROVE Keeps
  OBVIOUS
<1>1. version' \in Versions /\ UNCHANGED <<exports, objects, lossy>>
  BY DEF AnswerRequest
<1>2. worker' \in [Workers -> Call]
      /\ \A u \in Workers : /\ ~worker'[u].fresh
                            /\ worker'[u].phase = worker[u].phase
                            /\ worker'[u].tries = worker[u].tries
                            /\ SameAttempt(worker[u], worker'[u])
  <2>1. \A u \in Workers : worker[u] \in Call /\ worker'[u] = [worker[u] EXCEPT !.fresh = FALSE]
    BY CallFacts DEF AnswerRequest
  <2>2. \A u \in Workers : /\ worker'[u] \in Call /\ ~worker'[u].fresh
                           /\ worker'[u].phase = worker[u].phase
                           /\ worker'[u].tries = worker[u].tries
                           /\ SameAttempt(worker[u], worker'[u])
    BY <2>1, Stalled
  <2>3. worker' = [u \in Workers |-> worker'[u]]
    BY DEF AnswerRequest
  <2> QED
    BY <2>2, <2>3
<1>3. TypeOK'
  <2>1. /\ lossy' \in BOOLEAN /\ exports' \in [Versions -> Record]
        /\ objects' \in [Versions -> Refs]
    BY <1>1, TypeFacts DEF IInv
  <2> QED
    BY <1>1, <1>2, <2>1 DEF TypeOK, Record, Refs, Call
<1>4. TriesLeft' /\ SnapshotsAreOpen'
  BY <1>2 DEF IInv, TriesLeft, SnapshotsAreOpen
<1>5. \A u \in Workers : (InTime(u)' <=> InTime(u)) /\ ~MayFail(u)'
                         /\ worker'[u].v = worker[u].v
                         /\ worker'[u].elapsed = worker[u].elapsed
  BY <1>2 DEF InTime, MayFail, SameAttempt
<1>6. ~lossy => LeaseIsAsOld' /\ OneLease'
  BY <1>1, <1>5 DEF IInv, LeaseIsAsOld, OneLease
<1>7. Alone => OwnObjects' /\ CompleteIsStored'
  BY <1>1, <1>2 DEF IInv, OwnObjects, Owns, CompleteIsStored, SameAttempt
<1> QED
  BY <1>1, <1>3, <1>4, <1>6, <1>7 DEF Keeps, IInv, Alone

\* The clock counts up to the limit the code compares with.
LEMMA LaterFacts ==
  ASSUME NEW n \in 0..RequestTimeout
  PROVE  /\ Later(n) \in 0..RequestTimeout
         /\ Later(n) < RequestTimeout => n < RequestTimeout
         /\ n >= RequestTimeout => Later(n) >= RequestTimeout
BY ConstantFacts DEF Later

\* Time makes requests late and their leases stale at once.
LEMMA TickStep == IInv /\ Tick => Keeps
<1> SUFFICES ASSUME IInv, Tick PROVE Keeps
  OBVIOUS
<1>1. UNCHANGED <<version, objects, lossy>>
  BY DEF Tick
<1>2. /\ exports' \in [Versions -> Record]
      /\ \A v \in Versions :
           /\ exports'[v].status = exports[v].status /\ exports'[v].ref = exports[v].ref
           /\ exports[v].status # "CREATING" => exports'[v] = exports[v]
           /\ exports[v].status = "CREATING" => exports'[v].age = Later(exports[v].age)
  <2>1. \A v \in Versions : exports[v] \in Record /\ Later(exports[v].age) \in 0..RequestTimeout
    BY TypeFacts, LaterFacts DEF IInv, Record
  <2>2. \A v \in Versions :
          exports'[v] = IF exports[v].status = "CREATING"
                        THEN [exports[v] EXCEPT !.age = Later(exports[v].age)] ELSE exports[v]
    BY <2>1 DEF Tick, Record
  <2>3. \A v \in Versions :
           /\ exports'[v] \in Record
           /\ exports'[v].status = exports[v].status /\ exports'[v].ref = exports[v].ref
           /\ exports[v].status # "CREATING" => exports'[v] = exports[v]
           /\ exports[v].status = "CREATING" => exports'[v].age = Later(exports[v].age)
    BY <2>1, <2>2 DEF Record
  <2>4. exports' = [v \in Versions |-> exports'[v]]
    BY DEF Tick
  <2> QED
    BY <2>3, <2>4
<1>3. /\ worker' \in [Workers -> Call]
      /\ \A u \in Workers :
           /\ worker'[u].phase = worker[u].phase /\ worker'[u].v = worker[u].v
           /\ worker'[u].tries = worker[u].tries /\ worker'[u].fresh = worker[u].fresh
           /\ worker'[u].ref = worker[u].ref
           /\ worker[u].phase # "idle" => worker'[u].elapsed = Later(worker[u].elapsed)
  <2>1. \A u \in Workers : worker[u] \in Call /\ Later(worker[u].elapsed) \in 0..RequestTimeout
    BY CallFacts, LaterFacts
  <2>2. \A u \in Workers :
          worker'[u] = IF worker[u].phase = "idle" THEN worker[u]
                       ELSE [worker[u] EXCEPT !.elapsed = Later(worker[u].elapsed)]
    BY <2>1 DEF Tick, In, Call
  <2>3. \A u \in Workers :
           /\ worker'[u] \in Call
           /\ worker'[u].phase = worker[u].phase /\ worker'[u].v = worker[u].v
           /\ worker'[u].tries = worker[u].tries /\ worker'[u].fresh = worker[u].fresh
           /\ worker'[u].ref = worker[u].ref
           /\ worker[u].phase # "idle" => worker'[u].elapsed = Later(worker[u].elapsed)
    BY <2>1, <2>2 DEF Call
  <2>4. worker' = [u \in Workers |-> worker'[u]]
    BY DEF Tick
  <2> QED
    BY <2>3, <2>4
<1>4. \A u \in Workers : worker[u].v \in Versions /\ worker[u].elapsed \in 0..RequestTimeout
  BY CallFacts
<1>5. TypeOK'
  <2>1. version' \in Versions /\ lossy' \in BOOLEAN /\ objects' \in [Versions -> Refs]
    BY <1>1, TypeFacts DEF IInv
  <2> QED
    BY <1>2, <1>3, <2>1 DEF TypeOK, Record, Refs, Call
<1>6. TriesLeft'
  BY <1>3 DEF IInv, TriesLeft
<1>7. \A v \in Versions : CanStart(exports[v]) => CanStart(exports'[v])
  <2>1. \A v \in Versions : exports[v].age \in 0..RequestTimeout
    BY TypeFacts DEF IInv, Record
  <2> QED
    BY <1>2, <2>1, LaterFacts DEF CanStart, Stale
<1>8. SnapshotsAreOpen'
  BY <1>2, <1>3, <1>4, <1>7 DEF IInv, SnapshotsAreOpen
<1>9. \A u \in Workers : /\ InTime(u)' => InTime(u) /\ worker'[u].elapsed = Later(worker[u].elapsed)
                         /\ MayFail(u)' => MayFail(u)
  BY <1>3, <1>4, LaterFacts DEF InTime, MayFail, Holding
<1>10. ~lossy => LeaseIsAsOld'
  BY <1>2, <1>3, <1>4, <1>9 DEF IInv, LeaseIsAsOld
<1>11. ~lossy => OneLease'
  BY <1>3, <1>9 DEF IInv, OneLease
<1>12. Alone => OwnObjects' /\ CompleteIsStored'
  BY <1>1, <1>2, <1>3, <1>4 DEF IInv, OwnObjects, Owns, CompleteIsStored
<1> QED
  BY <1>1, <1>2, <1>5, <1>6, <1>8, <1>10, <1>11, <1>12 DEF Keeps, IInv, Alone

\* Nothing happens.
LEMMA StutterStep == IInv /\ UNCHANGED vars => Keeps
<1> SUFFICES ASSUME IInv, UNCHANGED vars PROVE Keeps
  OBVIOUS
<1>1. UNCHANGED <<version, exports, objects, worker, lossy>>
  BY DEF vars
<1>2. TypeOK' /\ TriesLeft' /\ SnapshotsAreOpen'
  BY <1>1 DEF IInv, TypeOK, TriesLeft, SnapshotsAreOpen, CanStart, Stale
<1>3. ~lossy => LeaseIsAsOld' /\ OneLease'
  BY <1>1 DEF IInv, LeaseIsAsOld, OneLease, InTime, MayFail
<1>4. Alone => OwnObjects' /\ CompleteIsStored'
  BY <1>1 DEF IInv, OwnObjects, Owns, CompleteIsStored
<1> QED
  BY <1>1, <1>2, <1>3, <1>4 DEF Keeps, IInv, Alone

-----------------------------------------------------------------------------
(* The theorems.                                                           *)

\* Every step keeps the invariant, and what a complete export is.
LEMMA StepKeeps == IInv /\ [Next]_vars => Keeps
<1> SUFFICES ASSUME IInv, [Next]_vars PROVE Keeps
  OBVIOUS
<1>1. ASSUME NEW w \in Workers, Request(w) PROVE Keeps
  <2>1. CASE StartExport(w) \/ SaveStart(w) \/ StartConflict(w)
    BY <2>1, StartExportStep, SaveStartStep, StartConflictStep
  <2>2. CASE \E k \in Kinds : CreateObject(w, k) \/ VerifyObject(w, k) \/ WorkError(w, k)
    BY <2>2, CreateObjectStep, VerifyObjectStep, WorkErrorStep
  <2>3. CASE Complete(w) \/ CompleteAgain(w) \/ CompleteError(w)
    BY <2>3, CompleteStep, CompleteAgainStep, CompleteErrorStep
  <2>4. CASE RecordFailure(w) \/ RecordFailureAgain(w) \/ Cleanup(w)
    BY <2>4, RecordFailureStep, RecordFailureAgainStep, CleanupStep
  <2> QED
    BY <1>1, <2>1, <2>2, <2>3, <2>4 DEF Request
<1>2. ASSUME NEW w \in Workers, Crash(w) PROVE Keeps
  BY <1>2, CrashStep
<1> QED
  BY <1>1, <1>2, AnswerRequestStep, TickStep, StutterStep DEF Next

\* The inductive invariant holds in every state.
THEOREM Invariance == Spec => []IInv
<1>1. IInv /\ [Next]_vars => IInv'
  BY StepKeeps DEF Keeps
<1> QED
  BY InitIInv, <1>1, PTL DEF Spec

\* The types of an export's record, its objects and its requests.
THEOREM ExportTypes == Spec => []TypeOK
<1>1. IInv => TypeOK
  BY DEF IInv
<1> QED
  BY <1>1, Invariance, PTL

\* A complete export is never replaced or revoked: by a conditional write every
\* request has seen the record it changes, and none starts from a complete one.
THEOREM ExportsAreFinal == Spec => CompleteIsFinal
<1>1. IInv /\ [Next]_vars =>
        [\A v \in Versions : exports[v].status = "COMPLETE" => exports'[v] = exports[v]]_vars
  BY StepKeeps DEF Keeps
<1> QED
  BY <1>1, Invariance, PTL DEF Spec, CompleteIsFinal

\* Two requests within their time never work on the same version: the lease of one
\* is as old as itself, so that nobody else finds it stale.
THEOREM LeaseHolds == Spec => []LeaseIsExclusive
<1>1. IInv => LeaseIsExclusive
  <2> SUFFICES ASSUME IInv, ~lossy, NEW w \in Workers, NEW u \in Workers, w # u,
                      Working(w), Working(u)
               PROVE  worker[w].v # worker[u].v
    BY DEF LeaseIsExclusive
  <2>1. InTime(w) /\ InTime(u)
    BY DEF Working, InTime, Holding, WithinRequest
  <2> QED
    BY <2>1 DEF IInv, OneLease
<1> QED
  BY <1>1, Invariance, PTL

\* Where requests do not overlap, a complete export is in storage, whatever crashed,
\* failed or went unacknowledged.  (Where they do, the run export_race shows that one
\* request may delete what another one published.)
THEOREM PublishedIsStored == Alone => (Spec => []CompleteIsStored)
<1> SUFFICES ASSUME Alone PROVE Spec => []CompleteIsStored
  OBVIOUS
<1>1. IInv => CompleteIsStored
  BY DEF IInv
<1> QED
  BY <1>1, Invariance, PTL
=============================================================================
