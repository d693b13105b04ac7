--------------------------- MODULE ExportPipeline ---------------------------
(***************************************************************************)
(* create_export of backend/service.py: requests that turn one version of  *)
(* an assignment into a stored pdf and a stored export manifest.  A record *)
(* CREATING in the assignment manifest is the lease of the request that    *)
(* works on the version; it is taken over once it is older than the time a *)
(* request may take.  Storage calls of several requests interleave, may    *)
(* fail, may land without being acknowledged, and a request may die.       *)
(*                                                                         *)
(* Rendering is deterministic, so the bytes of a version are never told    *)
(* apart and an object is its storage generation (0 is no object).  A      *)
(* request's snapshot of the assignment manifest is the stored one as long *)
(* as nobody has written since: `fresh` says so, in place of the manifest  *)
(* generations that conditional writes compare.  The clocks of the server  *)
(* instances are assumed to agree: `elapsed` and `age` count ticks, up to  *)
(* the limit the code compares with.                                       *)
(***************************************************************************)
EXTENDS Integers, FiniteSets

CONSTANTS
  MaxVersion,      \* versions 1..MaxVersion of the assignment have answers
  Workers,         \* requests in progress at once
  Generations,     \* storage generations of the objects of one key
  WorkTimeout,     \* the part of a request's time that is not its reserve
  RequestTimeout,  \* request_timeout_seconds: a request's time, and a lease's
  Attempts         \* tries of a manifest write (4 in the code)

ASSUME ExportAssumption ==
  /\ MaxVersion \in Nat \ {0}
  /\ Generations \subseteq Nat \ {0}
  /\ WorkTimeout \in Nat \ {0}
  /\ RequestTimeout \in Nat
  /\ WorkTimeout < RequestTimeout
  /\ Attempts \in Nat \ {0}

\* Storage never runs out of generations: there is one more than all that an
\* object, its record and the requests can remember.
ASSUME GenerationsSuffice ==
  /\ IsFiniteSet(Workers)
  /\ IsFiniteSet(Generations) => Cardinality(Workers) + 2 < Cardinality(Generations)

VARIABLES
  version,  \* the public version of the assignment
  exports,  \* the export record of each version
  objects,  \* the stored generation of each object of each version, or 0
  worker,   \* what each request is doing
  lossy     \* whether storage calls may land unacknowledged; it never changes

vars == <<version, exports, objects, worker, lossy>>

Versions == 1..MaxVersion
Kinds == {"pdf", "manifest"}
NoObjects == [k \in Kinds |-> 0]

Statuses == {"NONE", "CREATING", "COMPLETE", "FAILED"}
NoExport == [status |-> "NONE", age |-> 0, ref |-> NoObjects]

\* `made` are the objects the request knows it created itself.
Phases == {"idle", "start", "pdf", "manifest", "complete", "fail", "cleanup"}
Idle == [phase |-> "idle", v |-> 1, elapsed |-> 0, fresh |-> FALSE, tries |-> 0,
         ref |-> NoObjects, made |-> {}]

Init ==
  /\ version = 1
  /\ exports = [v \in Versions |-> NoExport]
  /\ objects = [v \in Versions |-> NoObjects]
  /\ worker = [w \in Workers |-> Idle]
  /\ lossy \in BOOLEAN

-----------------------------------------------------------------------------
(* Shared parts of the steps of a request w.                               *)

In(w, p) == worker[w].phase = p
Mine(w) == exports[worker[w].v]

Becomes(w, x) == worker' = [worker EXCEPT ![w] = x]

\* Every manifest write makes the snapshots of all the others stale.
Wrote(w, x) ==
  worker' = [u \in Workers |-> IF u = w THEN x ELSE [worker[u] EXCEPT !.fresh = FALSE]]

SetRecord(v, r) == exports' = [exports EXCEPT ![v] = r]

WithinWork(x) == x.elapsed < WorkTimeout
WithinRequest(x) == x.elapsed < RequestTimeout

\* _record_export_failure starts over from the snapshot of the started export,
\* which is stale for good if any later snapshot was taken.
Failing(x) ==
  IF WithinRequest(x)
  THEN [x EXCEPT !.phase = "fail", !.fresh = x.fresh /\ x.tries = 0, !.tries = 0]
  ELSE Idle

\* The next storage call starts only within the working part of the budget.
Proceed(x, p) == IF WithinWork(x) THEN [x EXCEPT !.phase = p] ELSE Failing(x)

\* A generation storage has not used.  One that no object, record or request
\* remembers cannot be told from a new one.
NewGeneration(v, k) ==
  CHOOSE g \in Generations :
    /\ g \notin {objects[v][k], exports[v].ref[k]}
    /\ \A w \in Workers : worker[w].v = v => worker[w].ref[k] # g

-----------------------------------------------------------------------------
(* start_export and the write of its lease.                                *)

\* Mutants of Stale: taken over one tick early; never taken over.
StaleEarly(r) == r.age + 1 >= RequestTimeout
StaleNever(r) == r.age < 0

Stale(r) == r.age >= RequestTimeout

\* A complete export, and one another request is still working on, are
\* answered as they are.
CanStart(r) == r.status \in {"NONE", "FAILED"} \/ (r.status = "CREATING" /\ Stale(r))

StartExport(w) ==
  /\ In(w, "idle")
  /\ CanStart(exports[version])
  /\ Becomes(w, [Idle EXCEPT !.phase = "start", !.v = version, !.fresh = TRUE])
  /\ UNCHANGED <<version, exports, objects, lossy>>

\* The lease is as old as the request: created_at was read before the write.
Lease(w) == [Mine(w) EXCEPT !.status = "CREATING", !.age = worker[w].elapsed]

SaveStart(w) ==
  /\ In(w, "start")
  /\ worker[w].fresh
  /\ SetRecord(worker[w].v, Lease(w))
  /\ \/ Wrote(w, Proceed(worker[w], "pdf"))
     \/ lossy /\ Wrote(w, Idle)
  /\ UNCHANGED <<version, objects, lossy>>

\* The conflict is the client's answer: the service does not retry.
StartConflict(w) ==
  /\ In(w, "start")
  /\ ~worker[w].fresh
  /\ Becomes(w, Idle)
  /\ UNCHANGED <<version, exports, objects, lossy>>

-----------------------------------------------------------------------------
(* Reading, rendering and _create_or_verify, for the pdf and then for the  *)
(* export manifest.                                                        *)

After(k) == IF k = "pdf" THEN "manifest" ELSE "complete"

WithObject(x, k, g, created) ==
  [x EXCEPT !.ref[k] = g, !.made = IF created THEN @ \cup {k} ELSE @]

Store(v, k, g) == objects' = [objects EXCEPT ![v][k] = g]

\* Unacknowledged, the retried call meets the object it made and takes it for
\* one that was there before.
CreateObject(w, k) ==
  LET x == worker[w]
      g == NewGeneration(x.v, k)
  IN  /\ In(w, k)
      /\ objects[x.v][k] = 0
      /\ Store(x.v, k, g)
      /\ \E created \in {TRUE, ~lossy} :
           Becomes(w, Proceed(WithObject(x, k, g, created), After(k)))
      /\ UNCHANGED <<version, exports, lossy>>

VerifyObject(w, k) ==
  LET x == worker[w] IN
    /\ In(w, k)
    /\ objects[x.v][k] # 0
    /\ Becomes(w, Proceed(WithObject(x, k, objects[x.v][k], FALSE), After(k)))
    /\ UNCHANGED <<version, exports, objects, lossy>>

\* A failure of the source, the renderer or storage; the call may have landed.
WorkError(w, k) ==
  LET x == worker[w] IN
    /\ In(w, k)
    /\ Becomes(w, Failing(x))
    /\ \/ UNCHANGED objects
       \/ lossy /\ objects[x.v][k] = 0 /\ Store(x.v, k, NewGeneration(x.v, k))
    /\ UNCHANGED <<version, exports, lossy>>

-----------------------------------------------------------------------------
(* _complete_published_export.                                             *)

Completed(w) == [Mine(w) EXCEPT !.status = "COMPLETE", !.ref = worker[w].ref]

Complete(w) ==
  LET x == worker[w] IN
    /\ In(w, "complete")
    /\ x.fresh
    /\ SetRecord(x.v, Completed(w))
    /\ \/ Wrote(w, Idle)
       \/ lossy /\ \E y \in {[x EXCEPT !.fresh = FALSE], [Failing(x) EXCEPT !.fresh = FALSE]} :
                        Wrote(w, y)
    /\ UNCHANGED <<version, objects, lossy>>

\* After a conflict the request looks again; another one may hold the lease by
\* now, or have completed the export with the same objects.
CompleteAgain(w) ==
  LET x == worker[w] IN
    /\ In(w, "complete")
    /\ ~x.fresh
    /\ Becomes(w,
         IF x.tries + 1 = Attempts THEN Failing(x)
         ELSE IF Mine(w).status = "CREATING" THEN [x EXCEPT !.fresh = TRUE, !.tries = @ + 1]
         ELSE IF Mine(w).status = "COMPLETE" /\ Mine(w).ref = x.ref THEN Idle
         ELSE Failing([x EXCEPT !.fresh = FALSE]))
    /\ UNCHANGED <<version, exports, objects, lossy>>

CompleteError(w) ==
  /\ In(w, "complete")
  /\ Becomes(w, Failing(worker[w]))
  /\ UNCHANGED <<version, exports, objects, lossy>>

-----------------------------------------------------------------------------
(* _record_export_failure and _cleanup_publications.                       *)

Failed(w) == [Mine(w) EXCEPT !.status = "FAILED"]

Cleaning(x) ==
  IF x.made = {} \/ ~WithinRequest(x) THEN Idle ELSE [x EXCEPT !.phase = "cleanup"]

RecordFailure(w) ==
  LET x == worker[w] IN
    /\ In(w, "fail")
    /\ x.fresh
    /\ SetRecord(x.v, Failed(w))
    /\ \/ Wrote(w, Cleaning(x))
       \/ lossy /\ Wrote(w, [x EXCEPT !.fresh = FALSE])
    /\ UNCHANGED <<version, objects, lossy>>

\* Mutants of RecordFailureAgain: it never gives up; it fails a complete export;
\* it cleans up after a complete export.
RecordFailureForever(w) ==
  LET x == worker[w] IN
    /\ In(w, "fail")
    /\ ~x.fresh
    /\ Becomes(w, IF ~WithinRequest(x) \/ Mine(w).status = "COMPLETE" THEN Idle
                  ELSE [x EXCEPT !.fresh = TRUE, !.tries = @ + 1])
    /\ UNCHANGED <<version, exports, objects, lossy>>

RecordFailureAnyway(w) ==
  LET x == worker[w] IN
    /\ In(w, "fail")
    /\ ~x.fresh
    /\ Becomes(w, IF x.tries + 1 = Attempts \/ ~WithinRequest(x) THEN Idle
                  ELSE [x EXCEPT !.fresh = TRUE, !.tries = @ + 1])
    /\ UNCHANGED <<version, exports, objects, lossy>>

RecordFailureCleans(w) ==
  LET x == worker[w] IN
    /\ In(w, "fail")
    /\ ~x.fresh
    /\ Becomes(w, IF x.tries + 1 = Attempts \/ ~WithinRequest(x) THEN Idle
                  ELSE IF Mine(w).status = "COMPLETE" THEN Cleaning(x)
                  ELSE [x EXCEPT !.fresh = TRUE, !.tries = @ + 1])
    /\ UNCHANGED <<version, exports, objects, lossy>>

\* The objects of an export that was completed meanwhile are kept.
RecordFailureAgain(w) ==
  LET x == worker[w]
      givesUp == \/ x.tries + 1 = Attempts
                 \/ ~WithinRequest(x)
                 \/ Mine(w).status = "COMPLETE"
  IN  /\ In(w, "fail")
      /\ ~x.fresh
      /\ Becomes(w, IF givesUp THEN Idle ELSE [x EXCEPT !.fresh = TRUE, !.tries = @ + 1])
      /\ UNCHANGED <<version, exports, objects, lossy>>

\* Each object is deleted on condition of its generation, the last made first.
Cleanup(w) ==
  LET x == worker[w]
      k == IF "manifest" \in x.made THEN "manifest" ELSE "pdf"
      left == x.made \ {k}
  IN  /\ In(w, "cleanup")
      /\ objects' = IF objects[x.v][k] = x.ref[k]
                    THEN [objects EXCEPT ![x.v][k] = 0] ELSE objects
      /\ Becomes(w, IF left = {} THEN Idle ELSE [x EXCEPT !.made = left])
      /\ UNCHANGED <<version, exports, lossy>>

-----------------------------------------------------------------------------
(* The rest of the system.                                                 *)

\* The request ends where it stands: the process stops, or an error escapes the
\* recovery itself.  What its last call did to storage stays.
Crash(w) ==
  /\ ~In(w, "idle")
  /\ Becomes(w, Idle)
  /\ UNCHANGED <<version, exports, objects, lossy>>

\* An answer request writes the manifest; issue_review keeps the version.
AnswerRequest ==
  /\ version' \in {version, version + 1} \cap Versions
  /\ worker' = [u \in Workers |-> [worker[u] EXCEPT !.fresh = FALSE]]
  /\ UNCHANGED <<exports, objects, lossy>>

Later(n) == IF n < RequestTimeout THEN n + 1 ELSE n

Tick ==
  /\ exports' = [v \in Versions |->
       IF exports[v].status = "CREATING" THEN [exports[v] EXCEPT !.age = Later(@)]
                                         ELSE exports[v]]
  /\ worker' = [w \in Workers |->
       IF In(w, "idle") THEN worker[w] ELSE [worker[w] EXCEPT !.elapsed = Later(@)]]
  /\ UNCHANGED <<version, objects, lossy>>

Request(w) ==
  \/ StartExport(w) \/ SaveStart(w) \/ StartConflict(w)
  \/ \E k \in Kinds : CreateObject(w, k) \/ VerifyObject(w, k) \/ WorkError(w, k)
  \/ Complete(w) \/ CompleteAgain(w) \/ CompleteError(w)
  \/ RecordFailure(w) \/ RecordFailureAgain(w) \/ Cleanup(w)

Next == AnswerRequest \/ Tick \/ \E w \in Workers : Request(w) \/ Crash(w)

Spec == Init /\ [][Next]_vars

-----------------------------------------------------------------------------
TypeOK ==
  /\ version \in Versions
  /\ lossy \in BOOLEAN
  /\ exports \in [Versions -> [status : Statuses, age : 0..RequestTimeout,
                               ref : [Kinds -> Generations \cup {0}]]]
  /\ objects \in [Versions -> [Kinds -> Generations \cup {0}]]
  /\ worker \in [Workers -> [phase : Phases, v : Versions, elapsed : 0..RequestTimeout,
                             fresh : BOOLEAN, tries : 0..Attempts,
                             ref : [Kinds -> Generations \cup {0}], made : SUBSET Kinds]]

\* A completed export can be downloaded: both objects its record names are in
\* storage, the very generations that were published.
CompleteIsStored ==
  \A v \in Versions : exports[v].status = "COMPLETE" => exports[v].ref = objects[v]

\* A version's export, once complete, stays that export: a retry, a failure
\* recorded late or a lease taken over never replaces or revokes it.
CompleteIsFinal ==
  [][\A v \in Versions :
       exports[v].status = "COMPLETE" => exports'[v] = exports[v]]_vars

\* A lease outlasts the request that holds it: as long as writes are
\* acknowledged, two requests that are both within their time never work on
\* the same version.
Working(w) ==
  worker[w].phase \in {"pdf", "manifest", "complete"} /\ WithinRequest(worker[w])
LeaseIsExclusive ==
  ~lossy =>
    \A v, w \in Workers : v # w /\ Working(v) /\ Working(w) => worker[v].v # worker[w].v

-----------------------------------------------------------------------------
(* Progress: the clock runs, a request does not stop without a reason, and *)
(* a student who keeps asking is not cut off for ever, so that what can be *)
(* done again and again is done at last.                                   *)

Advances(w) == worker'[w].phase \in {"pdf", "manifest", "complete"}

Fairness ==
  /\ WF_vars(Tick)
  /\ \A w \in Workers :
       /\ WF_vars(Request(w))
       /\ SF_vars(SaveStart(w) /\ Advances(w))
       /\ \A k \in Kinds : SF_vars((CreateObject(w, k) \/ VerifyObject(w, k)) /\ Advances(w))
       /\ SF_vars(CompleteAgain(w) /\ Advances(w))
       /\ SF_vars(Complete(w))

FairSpec == Spec /\ Fairness

\* No crash, lost acknowledgement or abandoned lease leaves a version that
\* cannot be exported any more, unless the answers moved on to another one.
ExportCompletes ==
  \A v \in Versions :
    exports[v].status = "CREATING" ~> exports[v].status = "COMPLETE" \/ version # v
=============================================================================
