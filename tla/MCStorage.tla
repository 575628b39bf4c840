------------------------------ MODULE MCStorage ------------------------------
(***************************************************************************)
(* The datastores: tuples with their changelog, and the catalog of stores, *)
(* models and assertions, on every backend.  One of the two is at work in  *)
(* a behaviour, the other rests in an initial state.                       *)
(***************************************************************************)
EXTENDS Integers, Sequences, FiniteSets, TLC

CONSTANTS None, w1, w2, w3, n1, n2

VARIABLES
  part,
  load, clock, ids, rows, log, pc, call, answer, tx, faults, page, feed,
  setup, db, replica, nextId, cl, tsFlight, dbFlight, cached, versionReady, failures

tupleVars == <<load, clock, ids, rows, log, pc, call, answer, tx, faults, page, feed>>
catalogVars == <<setup, db, replica, nextId, cl, tsFlight, dbFlight, cached, versionReady, failures>>
vars == <<part, tupleVars, catalogVars>>

Backends == {"memory", "postgres", "mysql", "sqlite"}

(***************************************************************************)
(* Tuples.                                                                 *)
(***************************************************************************)
NoCond  == [name |-> "", ctx |-> "nil"]
Bare    == [name |-> "c", ctx |-> "nil"]
InHours == [name |-> "c", ctx |-> "hours"]
Conds == {NoCond, Bare, InHours}

Put(k) == [key |-> k, cond |-> NoCond]
Batch(ds, ws, m, d) == [deletes |-> ds, writes |-> ws, onMissing |-> m, onDuplicate |-> d]

Holding(S) == [k \in 1..3 |-> IF k \in S THEN NoCond ELSE None]
Writing(kd, held, xs, ys, retry, ps, fs, f) ==
  [kind |-> kd, held |-> held, batches |-> (w1 :> xs @@ w2 :> ys), retry |-> retry,
   pageSize |-> ps, feedSize |-> fs, faults |-> f]

(* Both writers move a tuple from one key to another, in opposite orders.  *)
Moves(kd) == Writing(kd, Holding({1, 3}),
                  <<Batch(<<1, 3>>, <<Put(2)>>, "error", "error")>>,
                  <<Batch(<<3>>, <<Put(2), Put(1)>>, "ignore", "ignore")>>, FALSE, 0, 0, 0)
Crossing(kd) == Writing(kd, Holding({}),
                  <<Batch(<<>>, <<Put(1), Put(2)>>, "error", "error"), Batch(<<2>>, <<>>, "error", "error")>>,
                  <<Batch(<<>>, <<Put(2), Put(1)>>, "error", "ignore")>>, FALSE, 0, 0, 1)
Replacing(kd) == Writing(kd, Holding({1}),
                  <<Batch(<<1>>, <<>>, "error", "error"), Batch(<<>>, <<[key |-> 1, cond |-> InHours]>>, "error", "error")>>,
                  <<Batch(<<1>>, <<Put(2)>>, "ignore", "ignore")>>, FALSE, 0, 0, 0)
(* One writer retries, with conditions; the other's requests are refused.  *)
Retrying(kd) == Writing(kd, Holding({}),
                  <<Batch(<<>>, <<Put(1), [key |-> 2, cond |-> Bare]>>, "error", "ignore")>>,
                  <<Batch(<<3>>, <<Put(3)>>, "error", "error"), Batch(<<>>, <<Put(3)>>, "error", "error"),
                    Batch(<<>>, <<[key |-> 3, cond |-> InHours]>>, "error", "ignore")>>, TRUE, 0, 0, 2)
Paged(kd) == Writing(kd, Holding({1, 2, 3}),
                  <<Batch(<<1>>, <<>>, "error", "error"), Batch(<<>>, <<Put(1)>>, "error", "error")>>,
                  <<Batch(<<2>>, <<>>, "error", "error")>>, FALSE, 1, 0, 0)
Followed(kd) == Writing(kd, Holding({3}),
                  <<Batch(<<>>, <<Put(1)>>, "error", "error")>>,
                  <<Batch(<<>>, <<Put(2)>>, "error", "error")>>, FALSE, 0, 1, 0)

Workloads == UNION {{Moves(kd), Crossing(kd), Replacing(kd), Retrying(kd), Paged(kd), Followed(kd)} : kd \in Backends}

(***************************************************************************)
(* The catalog: every backend (PostgreSQL with a secondary), with listings *)
(* beside writers, requests that look for the latest model beside one that *)
(* writes it, assertions over caches that evict, and readiness during a    *)
(* migration.                                                              *)
(***************************************************************************)
List == [op |-> "ListStores", ids |-> {}, name |-> None]
Create(n) == [op |-> "CreateStore", name |-> n]
Delete(i) == [op |-> "DeleteStore", store |-> i]
Get(i) == [op |-> "GetStore", store |-> i]
ListModels == [op |-> "ListModels"]
Model == [op |-> "WriteModel", valid |-> TRUE]
LatestBy(p) == [op |-> "Resolve", path |-> p, model |-> None]
ById(p, m) == [op |-> "Resolve", path |-> p, model |-> m]
Asserts(m) == [op |-> "WriteAssertions", model |-> m, value |-> n1]
Asserted(m) == [op |-> "ReadAssertions", model |-> m]
Ready == [op |-> "IsReady"]

Base(be) ==
  [backend |-> be, secondary |-> be = "postgres", names |-> <<n1, n1, n2>>, models |-> <<1, 2>>, nextId |-> 4,
   migrated |-> TRUE, evicts |-> FALSE, faults |-> 0, prog |-> w1 :> <<List>>]

With(be, prog) == [Base(be) EXCEPT !.prog = prog]

StoreLoads(be) ==
  {With(be, (w1 :> <<l>>) @@ (w2 :> <<Create(n1), Delete(1)>>)) :
     l \in {List, [List EXCEPT !.name = n1], [List EXCEPT !.ids = {1, 2}]}}
  \cup {[With(be, (w1 :> <<Create(n2), Delete(4), Get(4)>>) @@ (w2 :> <<Delete(1), Get(1)>>)) EXCEPT !.faults = 2]}

ModelLoads(be) ==
  {With(be, (w1 :> <<ListModels>>) @@ (w2 :> <<Model>>) @@ (w3 :> <<[Model EXCEPT !.valid = FALSE], Model>>)),
   With(be, (w1 :> <<LatestBy("v1"), LatestBy("v1")>>) @@ (w2 :> <<LatestBy("v2"), LatestBy("v1"), LatestBy("v2")>>)
             @@ (w3 :> <<Model, LatestBy("v1")>>)),
   [With(be, (w1 :> <<LatestBy("v1")>>) @@ (w2 :> <<LatestBy("v2"), LatestBy("v1")>>) @@ (w3 :> <<Model>>))
      EXCEPT !.faults = 1],
   [With(be, (w1 :> <<Asserts(1), Asserted(1)>>) @@ (w2 :> <<ById("v2", 1), Asserts(3)>>) @@ (w3 :> <<ById("v1", 1)>>))
      EXCEPT !.faults = 1, !.evicts = TRUE]}

ReadyLoads(be) ==
  {[With(be, (w1 :> <<Ready, Ready>>) @@ (w2 :> <<Ready>>)) EXCEPT !.migrated = FALSE, !.faults = 1]}

CatalogLoads == UNION {StoreLoads(be) \cup ModelLoads(be) \cup ReadyLoads(be) : be \in Backends}

T == INSTANCE TupleBackends WITH
       Writers <- {w1, w2}, NumKeys <- 3, MaxTuplesPerWrite <- 3, BatchSize <- 2, HorizonOffset <- 1,
       MaxClock <- 3, BusyRetries <- 1, Absent <- None
C == INSTANCE Catalog WITH
       Clients <- {w1, w2, w3}, Loads <- CatalogLoads, PageSize <- 1, MaxRetries <- 1, MaxId <- 6,
       load <- setup, faults <- failures

ASSUME T!BackendsAssumption

Init ==
  /\ part \in {"tuples", "catalog"}
  /\ IF part = "tuples" THEN setup = CHOOSE l \in CatalogLoads : TRUE
     ELSE load = CHOOSE l \in Workloads : TRUE
  /\ T!Init /\ C!Init

Run ==
  \/ part = "tuples" /\ T!Run /\ UNCHANGED <<part, catalogVars>>
  \/ part = "catalog" /\ C!Run /\ UNCHANGED <<part, tupleVars>>

Next ==
  \/ part = "tuples" /\ T!Next /\ UNCHANGED <<part, catalogVars>>
  \/ part = "catalog" /\ C!Next /\ UNCHANGED <<part, tupleVars>>

Spec == Init /\ [][Next]_vars /\ WF_vars(Run)

(***************************************************************************)
(* Properties.                                                             *)
(***************************************************************************)
\* Every datastore's Write is the atomic Write of the storage interface (TupleStore), the
\* row-by-row transactions of the SQL datastores included: a refinement.
WritesAtomically == T!WritesAtomically

\* A writer whose tuples no other writer names can believe its answer: ok means that the store
\* now holds what it asked for, a refusal that the call left no change behind.
AnswerTruthful == part = "tuples" => T!AnswerTruthful

\* The row locks, or SQLite's one writer, keep every row that a write has seen: a delete of a
\* selected row never misses it (ErrWriteConflictOnDelete), and under SQLite no insert meets
\* a row that came meanwhile.
RowsSeenStay == part = "tuples" => T!RowsSeenStay

\* Whoever follows the pages of Read, ListStores or ReadAuthorizationModels to the last sees
\* what was there from the first page to the last exactly once, whatever is written and deleted
\* meanwhile; with the offsets of the memory datastore, if nothing is deleted (added) meanwhile.
PagesExact ==
  /\ part = "tuples" => T!ScanComplete
  /\ part = "catalog" => C!ListingsExact

\* A client that follows the changelog gets no change twice, and skips one only under the SQL
\* datastores and only if its call overlapped with that of a change returned before it, beyond
\* what the horizon offset allows.
SkipsOnlyOverlapping == part = "tuples" => T!SkipsOnlyOverlapping

\* What the catalog has acknowledged holds: a deleted store is gone unless the secondary had
\* not heard of it, and a server that says it is ready reads from migrated databases only.
AcknowledgedHolds == part = "catalog" => C!DeleteSticks /\ C!ReadyMeansMigrated

\* The latest model a client is given never goes back on the same path, and is as new as the
\* latest when the lookup began that it shares.
LatestMonotone == C!LatestMonotone

\* Every call the server has received is answered: no transaction waits for locks and no
\* request for a shared lookup for ever.
StorageEnds == <>[](IF part = "tuples" THEN T!Ended ELSE C!Ended)
=============================================================================
