------------------------------ MODULE Catalog ------------------------------
(***************************************************************************)
(* Stores, authorization models and assertions: the handlers of the server *)
(* (pkg/server, pkg/server/commands) over the four backends, with the      *)
(* caches and the single-flight lookups a request goes through to find    *)
(* its model (typesystem/resolver.go, modelgraph/resolver.go,             *)
(* storagewrappers/model_caching.go), and a PostgreSQL read replica.      *)
(*                                                                         *)
(* An id is a ULID: a number that grows with the time it was made.  What   *)
(* a model or an assertion says is left out: a model never changes.        *)
(***************************************************************************)
EXTENDS Integers, Sequences, SequencesExt, FiniteSets, FiniteSetsExt

CONSTANTS None,
          Clients,
          Loads,        \* the workloads: see Init
          PageSize,     \* PaginationOptions.PageSize
          MaxRetries,   \* maxRetries of busyRetry
          MaxId         \* bound on the ids made

VARIABLES load,         \* the backend and what each client asks for, chosen once
          db,           \* the primary database
          replica,      \* the secondary one
          nextId,       \* ulid.Make
          cl,           \* the clients
          tsFlight,     \* lookupGroup of the typesystem resolver, by key
          dbFlight,     \* lookupGroup of cachedOpenFGADatastore
          cached,       \* the models in the model cache, the typesystem cache and the graph cache
          versionReady, \* Datastore.versionReady
          faults        \* failures the database may still have

vars == <<load, db, replica, nextId, cl, tsFlight, dbFlight, cached, versionReady, faults>>

Ids == 1..MaxId
Caches == {"model", "typesystem", "graph"}
Latest == 0             \* the key of FindLatestAuthorizationModel: no model has this id
Keys == Ids \cup {Latest}

NoFlight == [leader |-> None, waiters |-> {}]

NewClient(todo) ==
  [pc |-> "idle", todo |-> todo, id |-> None, token |-> None, began |-> {}, seen |-> <<>>, retries |-> 0,
   val |-> None, since |-> 0, acked |-> {}, blind |-> {}, ready |-> FALSE, read |-> None, got |-> {},
   last |-> [v1 |-> [rank |-> 0, since |-> 0], v2 |-> [rank |-> 0, since |-> 0]]]

Init ==
  /\ load \in Loads
  /\ db = [stores |-> {[id |-> i, name |-> load.names[i], deleted |-> FALSE] : i \in DOMAIN load.names},
           models |-> load.models, assertions |-> [m \in Ids |-> None], migrated |-> load.migrated]
  /\ replica = db
  /\ nextId = load.nextId
  /\ cl = [c \in Clients |-> NewClient(IF c \in DOMAIN load.prog THEN load.prog[c] ELSE <<>>)]
  /\ tsFlight = [k \in Keys |-> NoFlight]
  /\ dbFlight = NoFlight
  /\ cached = [k \in Caches |-> {}]
  /\ versionReady = FALSE
  /\ faults = IF load.backend = "memory" THEN 0 ELSE load.faults

\* What a client is doing, and the end of it.
Op(c) == Head(cl[c].todo)
Doing(c, op) == cl[c].todo # <<>> /\ Op(c).op = op
Answered(rec) ==
  [rec EXCEPT !.pc = "idle", !.todo = Tail(@), !.id = None, !.token = None, !.began = {}, !.seen = <<>>,
              !.retries = 0, !.val = None, !.since = 0]
Answer(c) == cl' = [cl EXCEPT ![c] = Answered(@)]

-----------------------------------------------------------------------------
(* The backends.  d is the database a statement runs on. *)

\* getPgxPool(MINIMIZE_LATENCY): reads go to the secondary where there is one.
getPgxPool == IF load.backend = "postgres" /\ load.secondary THEN replica ELSE db

Visible(d) == {s \in d.stores : ~s.deleted}
Ascending(S) == SetToSortSeq(S, LAMBDA a, b : a < b)
Descending(S) == SetToSortSeq(S, LAMBDA a, b : a > b)

\* SQL pages: one row more than the page is the continuation token.
SqlPage(rows) ==
  [page |-> SubSeq(rows, 1, Min({PageSize, Len(rows)})), token |-> IF Len(rows) > PageSize THEN rows[PageSize + 1] ELSE None]

\* Pages of the memory backend: the token is an offset.
MemoryPage(rows, token) ==
  LET from == IF token = None THEN 0 ELSE Min({token, Len(rows)})
      to == Min({Len(rows), from + PageSize})
  IN [page |-> SubSeq(rows, from + 1, to), token |-> IF to # Len(rows) THEN to ELSE None]

\* The options of ListStores: ids and a name, each only where given.
Selected(d, opts) ==
  {s.id : s \in {r \in Visible(d) : /\ opts.ids = {} \/ r.id \in opts.ids
                                    /\ opts.name = None \/ r.name = opts.name}}

\* Mutant: the row named by the token is left out.
MutSelectStores(d, opts, token) ==
  SqlPage(Ascending({i \in Selected(d, opts) : token = None \/ i > token}))

SelectStores(d, opts, token) ==
  SqlPage(Ascending({i \in Selected(d, opts) : token = None \/ i >= token}))

MemoryListStores(opts, token) == MemoryPage(Ascending(Selected(db, opts)), token)
PostgresListStores(opts, token) == SelectStores(getPgxPool, opts, token)
MysqlListStores(opts, token) == SelectStores(db, opts, token)
SqliteListStores(opts, token) == SelectStores(db, opts, token)

ListStores(opts, token) ==
  CASE load.backend = "memory" -> MemoryListStores(opts, token)
    [] load.backend = "postgres" -> PostgresListStores(opts, token)
    [] load.backend = "mysql" -> MysqlListStores(opts, token)
    [] load.backend = "sqlite" -> SqliteListStores(opts, token)

MemoryGetStore(i) == \E s \in db.stores : s.id = i
PostgresGetStore(i) == \E s \in Visible(getPgxPool) : s.id = i
MysqlGetStore(i) == \E s \in Visible(db) : s.id = i
SqliteGetStore(i) == \E s \in Visible(db) : s.id = i

GetStore(i) ==
  CASE load.backend = "memory" -> MemoryGetStore(i)
    [] load.backend = "postgres" -> PostgresGetStore(i)
    [] load.backend = "mysql" -> MysqlGetStore(i)
    [] load.backend = "sqlite" -> SqliteGetStore(i)

Row(i, name) == [id |-> i, name |-> name, deleted |-> FALSE]
MemoryCreateStore(s) == [db EXCEPT !.stores = @ \cup {s}]
PostgresCreateStore(s) == [db EXCEPT !.stores = @ \cup {s}]
MysqlCreateStore(s) == [db EXCEPT !.stores = @ \cup {s}]
SqliteCreateStore(s) == [db EXCEPT !.stores = @ \cup {s}]

CreateStore(s) ==
  CASE load.backend = "memory" -> MemoryCreateStore(s)
    [] load.backend = "postgres" -> PostgresCreateStore(s)
    [] load.backend = "mysql" -> MysqlCreateStore(s)
    [] load.backend = "sqlite" -> SqliteCreateStore(s)

MarkDeleted(i) == [db EXCEPT !.stores = {IF s.id = i THEN [s EXCEPT !.deleted = TRUE] ELSE s : s \in @}]
MemoryDeleteStore(i) == [db EXCEPT !.stores = {s \in @ : s.id # i}]
PostgresDeleteStore(i) == MarkDeleted(i)
MysqlDeleteStore(i) == MarkDeleted(i)
SqliteDeleteStore(i) == MarkDeleted(i)

DeleteStore(i) ==
  CASE load.backend = "memory" -> MemoryDeleteStore(i)
    [] load.backend = "postgres" -> PostgresDeleteStore(i)
    [] load.backend = "mysql" -> MysqlDeleteStore(i)
    [] load.backend = "sqlite" -> SqliteDeleteStore(i)

\* Models: the memory backend marks the last one written, the others take the greatest id.
MemoryFindLatest == IF db.models = <<>> THEN None ELSE Last(db.models)
Greatest(d) == IF d.models = <<>> THEN None ELSE Max(ToSet(d.models))
PostgresFindLatest == Greatest(getPgxPool)
SqlFindLatest == Greatest(db)
SqliteFindLatest == Greatest(db)

FindLatestAuthorizationModel ==
  CASE load.backend = "memory" -> MemoryFindLatest
    [] load.backend = "postgres" -> PostgresFindLatest
    [] load.backend = "mysql" -> SqlFindLatest
    [] load.backend = "sqlite" -> SqliteFindLatest

Stored(d, m) == IF m \in ToSet(d.models) THEN m ELSE None
MemoryReadModel(m) == Stored(db, m)
PostgresReadModel(m) == Stored(getPgxPool, m)
SqlReadModel(m) == Stored(db, m)
SqliteReadModel(m) == Stored(db, m)

ReadAuthorizationModel(m) ==
  CASE load.backend = "memory" -> MemoryReadModel(m)
    [] load.backend = "postgres" -> PostgresReadModel(m)
    [] load.backend = "mysql" -> SqlReadModel(m)
    [] load.backend = "sqlite" -> SqliteReadModel(m)

\* From newest to oldest.  PostgreSQL and MySQL read the ids of a page and then each model of
\* it: a model is never removed, so that is the page of the first statement.
SelectModels(d, token) == SqlPage(Descending({m \in ToSet(d.models) : token = None \/ m <= token}))
MemoryReadModels(token) == MemoryPage(Descending(ToSet(db.models)), token)
PostgresReadModels(token) == SelectModels(getPgxPool, token)
MysqlReadModels(token) == SelectModels(db, token)
SqliteReadModels(token) == SelectModels(db, token)

ReadAuthorizationModels(token) ==
  CASE load.backend = "memory" -> MemoryReadModels(token)
    [] load.backend = "postgres" -> PostgresReadModels(token)
    [] load.backend = "mysql" -> MysqlReadModels(token)
    [] load.backend = "sqlite" -> SqliteReadModels(token)

WriteModel(m) == [db EXCEPT !.models = Append(@, m)]
MemoryWriteModel(m) == WriteModel(m)
PostgresWriteModel(m) == WriteModel(m)
SqlWriteModel(m) == WriteModel(m)
SqliteWriteModel(m) == WriteModel(m)

WriteAuthorizationModel(m) ==
  CASE load.backend = "memory" -> MemoryWriteModel(m)
    [] load.backend = "postgres" -> PostgresWriteModel(m)
    [] load.backend = "mysql" -> SqlWriteModel(m)
    [] load.backend = "sqlite" -> SqliteWriteModel(m)

\* An upsert in every backend.
Upsert(m, v) == [db EXCEPT !.assertions[m] = v]
MemoryWriteAssertions(m, v) == Upsert(m, v)
PostgresWriteAssertions(m, v) == Upsert(m, v)
MysqlWriteAssertions(m, v) == Upsert(m, v)
SqliteWriteAssertions(m, v) == Upsert(m, v)

WriteAssertions(m, v) ==
  CASE load.backend = "memory" -> MemoryWriteAssertions(m, v)
    [] load.backend = "postgres" -> PostgresWriteAssertions(m, v)
    [] load.backend = "mysql" -> MysqlWriteAssertions(m, v)
    [] load.backend = "sqlite" -> SqliteWriteAssertions(m, v)

-----------------------------------------------------------------------------
(* Stores: pkg/server/stores.go and its commands *)

\* A write statement of client c: it happens, or the database fails.  SQLite reports a locked
\* database, which busyRetry tries again where it is used.
Statement(c, new, retried, done) ==
  \/ db' = new /\ cl' = [cl EXCEPT ![c] = Answered(done)] /\ UNCHANGED faults
  \/ /\ faults > 0 /\ faults' = faults - 1
     /\ UNCHANGED db
     /\ IF load.backend = "sqlite" /\ retried /\ cl[c].retries < MaxRetries
        THEN cl' = [cl EXCEPT ![c].retries = @ + 1]
        ELSE Answer(c)

\* A read of client c: rec is the client with its answer, or the database fails and the
\* request ends with the error.
Query(c, rec) ==
  \/ cl' = [cl EXCEPT ![c] = rec] /\ UNCHANGED faults
  \/ faults > 0 /\ faults' = faults - 1 /\ Answer(c)

\* CreateStoreCommand, WriteAuthorizationModelCommand: the id is made first.
MakeId(c) ==
  /\ Doing(c, "CreateStore") \/ Doing(c, "WriteModel")
  /\ cl[c].pc = "idle" /\ nextId <= MaxId
  /\ cl' = [cl EXCEPT ![c].pc = "insert", ![c].id = nextId]
  /\ nextId' = nextId + 1
  /\ UNCHANGED <<load, db, replica, tsFlight, dbFlight, cached, versionReady, faults>>

CreateStoreCommand(c) ==
  /\ Doing(c, "CreateStore") /\ cl[c].pc = "insert"
  /\ Statement(c, CreateStore(Row(cl[c].id, Op(c).name)), TRUE, cl[c])
  /\ UNCHANGED <<load, replica, nextId, tsFlight, dbFlight, cached, versionReady>>

\* DeleteStoreCommand: a store that is not found counts as deleted.
DeleteFinds(c) ==
  /\ Doing(c, "DeleteStore") /\ cl[c].pc = "idle"
  /\ Query(c, IF GetStore(Op(c).store) THEN [cl[c] EXCEPT !.pc = "delete"]
              ELSE Answered([cl[c] EXCEPT !.acked = @ \cup {Op(c).store}, !.blind = @ \cup {Op(c).store}]))
  /\ UNCHANGED <<load, db, replica, nextId, tsFlight, dbFlight, cached, versionReady>>

\* Mutant: the error of the statement is dropped.
MutDeleteStoreCommand(c) ==
  /\ Doing(c, "DeleteStore") /\ cl[c].pc = "delete"
  /\ \/ db' = DeleteStore(Op(c).store) /\ UNCHANGED faults
     \/ faults > 0 /\ faults' = faults - 1 /\ UNCHANGED db
  /\ cl' = [cl EXCEPT ![c] = Answered([@ EXCEPT !.acked = @ \cup {Op(c).store}])]
  /\ UNCHANGED <<load, replica, nextId, tsFlight, dbFlight, cached, versionReady>>

DeleteStoreCommand(c) ==
  /\ Doing(c, "DeleteStore") /\ cl[c].pc = "delete"
  /\ Statement(c, DeleteStore(Op(c).store), FALSE, [cl[c] EXCEPT !.acked = @ \cup {Op(c).store}])
  /\ UNCHANGED <<load, replica, nextId, tsFlight, dbFlight, cached, versionReady>>

\* One page of a listing: what was there at its beginning, what has been seen so far.
Page(c, all, page) ==
  LET began == IF cl[c].seen = <<>> /\ cl[c].token = None THEN all ELSE cl[c].began IN
  Query(c, [cl[c] EXCEPT !.began = began, !.seen = @ \o page.page, !.token = page.token,
                         !.pc = IF page.token = None THEN "listed" ELSE "idle"])

ListStoresQuery(c) ==
  /\ Doing(c, "ListStores") /\ cl[c].pc = "idle"
  /\ Page(c, Selected(getPgxPool, Op(c)), ListStores(Op(c), cl[c].token))
  /\ UNCHANGED <<load, db, replica, nextId, tsFlight, dbFlight, cached, versionReady>>

ReadAuthorizationModelsQuery(c) ==
  /\ Doing(c, "ListModels") /\ cl[c].pc = "idle"
  /\ Page(c, ToSet(getPgxPool.models), ReadAuthorizationModels(cl[c].token))
  /\ UNCHANGED <<load, db, replica, nextId, tsFlight, dbFlight, cached, versionReady>>

Listed(c) ==
  /\ cl[c].pc = "listed"
  /\ Answer(c)
  /\ UNCHANGED <<load, db, replica, nextId, tsFlight, dbFlight, cached, versionReady, faults>>

GetStoreQuery(c) ==
  /\ Doing(c, "GetStore") /\ cl[c].pc = "idle"
  /\ Query(c, Answered([cl[c] EXCEPT !.got = IF GetStore(Op(c).store) THEN @ \cup {Op(c).store} ELSE @]))
  /\ UNCHANGED <<load, db, replica, nextId, tsFlight, dbFlight, cached, versionReady>>

\* WriteAuthorizationModelCommand, after its limits and NewAndValidate (Typesystem).
WriteAuthorizationModelCommand(c) ==
  /\ Doing(c, "WriteModel") /\ cl[c].pc = "insert"
  /\ IF Op(c).valid
     THEN Statement(c, WriteAuthorizationModel(cl[c].id), TRUE, cl[c])
     ELSE Answer(c) /\ UNCHANGED <<db, faults>>
  /\ UNCHANGED <<load, replica, nextId, tsFlight, dbFlight, cached, versionReady>>

-----------------------------------------------------------------------------
(* The model of a request *)

Resolving(c) == cl[c].todo # <<>> /\ Op(c).op \in {"Resolve", "WriteAssertions", "ReadAssertions"}
Path(c) == IF Op(c).op = "Resolve" THEN Op(c).path ELSE "v1"
Key(c) == IF Op(c).model = None THEN Latest ELSE Op(c).model
CacheOf(c) == IF Path(c) = "v1" THEN "typesystem" ELSE "graph"

\* Models in the order in which they become the latest.
Rank(m) == IF m = None THEN 0 ELSE IF load.backend = "memory" THEN CHOOSE i \in DOMAIN db.models : db.models[i] = m ELSE m

\* MemoizedTypesystemResolverFunc (v1) up to the lookup: one lookup of a key at a time.
Resolve(c) ==
  /\ Resolving(c) /\ Path(c) = "v1" /\ cl[c].pc = "idle"
  /\ LET k == Key(c) IN
     IF k \in cached["typesystem"]
     THEN cl' = [cl EXCEPT ![c].pc = "resolved", ![c].val = k] /\ UNCHANGED tsFlight
     ELSE IF tsFlight[k].leader = None
     THEN /\ tsFlight' = [tsFlight EXCEPT ![k].leader = c]
          /\ cl' = [cl EXCEPT ![c].pc = "lookup"]
     ELSE /\ tsFlight' = [tsFlight EXCEPT ![k].waiters = @ \cup {c}]
          /\ cl' = [cl EXCEPT ![c].pc = "wait"]
  /\ UNCHANGED <<load, db, replica, nextId, dbFlight, cached, versionReady, faults>>

\* AuthorizationModelGraphResolver.Resolve (v2) up to the lookup, which it does not share.
ResolveGraph(c) ==
  /\ Resolving(c) /\ Path(c) = "v2" /\ cl[c].pc = "idle"
  /\ cl' = [cl EXCEPT ![c] = IF Key(c) \in cached["graph"] THEN [@ EXCEPT !.pc = "resolved", !.val = Key(c)]
                             ELSE [@ EXCEPT !.pc = "lookup"]]
  /\ UNCHANGED <<load, db, replica, nextId, tsFlight, dbFlight, cached, versionReady, faults>>

Found(c) == IF Path(c) = "v1" THEN "tsReturn" ELSE "resolved"

\* cachedOpenFGADatastore.FindLatestAuthorizationModel: one lookup at a time here, too.
JoinLookup(c) ==
  /\ cl[c].pc = "lookup" /\ Key(c) = Latest
  /\ IF dbFlight.leader = None
     THEN /\ dbFlight' = [dbFlight EXCEPT !.leader = c]
          /\ cl' = [cl EXCEPT ![c].pc = "query", ![c].since = Rank(FindLatestAuthorizationModel)]
     ELSE /\ dbFlight' = [dbFlight EXCEPT !.waiters = @ \cup {c}]
          /\ cl' = [cl EXCEPT ![c].pc = "wait"]
  /\ UNCHANGED <<load, db, replica, nextId, tsFlight, cached, versionReady, faults>>

\* Mutant: the latest model is taken from the cache.
MutFindLatest(c) ==
  /\ cl[c].pc = "query"
  /\ cl' = [cl EXCEPT ![c].pc = "dbReturn",
                      ![c].val = IF cached["typesystem"] # {} THEN Max(cached["typesystem"]) ELSE FindLatestAuthorizationModel]
  /\ UNCHANGED <<load, db, replica, nextId, tsFlight, dbFlight, cached, versionReady, faults>>

FindLatest(c) ==
  /\ cl[c].pc = "query"
  /\ \/ /\ cl' = [cl EXCEPT ![c].pc = "dbReturn", ![c].val = FindLatestAuthorizationModel]
        /\ UNCHANGED faults
     \/ /\ faults > 0 /\ faults' = faults - 1
        /\ cl' = [cl EXCEPT ![c].pc = "dbReturn", ![c].val = None]
  /\ UNCHANGED <<load, db, replica, nextId, tsFlight, dbFlight, cached, versionReady>>

\* The end of a lookup: all that wait for it have its answer, and the next one is a new one.
DbReturn(c) ==
  /\ cl[c].pc = "dbReturn"
  /\ cl' = [w \in Clients |->
              IF w = c \/ w \in dbFlight.waiters
              THEN [cl[w] EXCEPT !.pc = Found(w), !.val = cl[c].val, !.since = cl[c].since]
              ELSE cl[w]]
  /\ dbFlight' = NoFlight
  /\ UNCHANGED <<load, db, replica, nextId, tsFlight, cached, versionReady, faults>>

\* Mutant: only the client that made the lookup has its answer.
MutTsReturn(c) ==
  /\ cl[c].pc = "tsReturn"
  /\ cl' = [cl EXCEPT ![c].pc = "resolved"]
  /\ tsFlight' = [tsFlight EXCEPT ![Key(c)] = NoFlight]
  /\ UNCHANGED <<load, db, replica, nextId, dbFlight, cached, versionReady, faults>>

TsReturn(c) ==
  /\ cl[c].pc = "tsReturn"
  /\ cl' = [w \in Clients |->
              IF w = c \/ w \in tsFlight[Key(c)].waiters
              THEN [cl[w] EXCEPT !.pc = "resolved", !.val = cl[c].val, !.since = cl[c].since]
              ELSE cl[w]]
  /\ tsFlight' = [tsFlight EXCEPT ![Key(c)] = NoFlight]
  /\ UNCHANGED <<load, db, replica, nextId, dbFlight, cached, versionReady, faults>>

\* cachedOpenFGADatastore.ReadAuthorizationModel: a model that is found is kept.
ReadModel(c, then) ==
  LET m == Op(c).model IN
  \/ /\ m \in cached["model"] \/ ReadAuthorizationModel(m) # None
     /\ cached' = [cached EXCEPT !["model"] = @ \cup {m}]
     /\ cl' = [cl EXCEPT ![c].pc = then, ![c].val = m]
     /\ UNCHANGED faults
  \/ /\ m \notin cached["model"] /\ ReadAuthorizationModel(m) = None
     /\ cl' = [cl EXCEPT ![c].pc = then, ![c].val = None]
     /\ UNCHANGED <<cached, faults>>
  \/ /\ m \notin cached["model"] /\ faults > 0 /\ faults' = faults - 1
     /\ cl' = [cl EXCEPT ![c].pc = then, ![c].val = None]
     /\ UNCHANGED cached

LookupById(c) ==
  /\ cl[c].pc = "lookup" /\ Key(c) # Latest
  /\ ReadModel(c, Found(c))
  /\ UNCHANGED <<load, db, replica, nextId, tsFlight, dbFlight, versionReady>>

\* The resolvers keep what they resolved; a request that only needs its model is done.
Resolved(c) ==
  /\ cl[c].pc = "resolved"
  /\ LET m == cl[c].val IN
     /\ cached' = IF m = None THEN cached ELSE [cached EXCEPT ![CacheOf(c)] = @ \cup {m}]
     /\ cl' = [cl EXCEPT ![c] =
                 IF m = None THEN Answered(@)
                 ELSE IF Op(c).op # "Resolve" THEN [@ EXCEPT !.pc = "assert"]
                 ELSE IF Op(c).model # None THEN Answered(@)
                 ELSE Answered([@ EXCEPT !.last[Path(c)] = [rank |-> Rank(m), since |-> cl[c].since]])]
  /\ UNCHANGED <<load, db, replica, nextId, tsFlight, dbFlight, versionReady, faults>>

\* LRU eviction.
Evict ==
  /\ load.evicts
  /\ \E k \in Caches : \E m \in cached[k] : cached' = [cached EXCEPT ![k] = @ \ {m}]
  /\ UNCHANGED <<load, db, replica, nextId, cl, tsFlight, dbFlight, versionReady, faults>>

-----------------------------------------------------------------------------
(* Assertions *)

\* WriteAssertionsCommand reads the model again and writes; its limits are left out.
AssertionModel(c) ==
  /\ Doing(c, "WriteAssertions") /\ cl[c].pc = "assert"
  /\ ReadModel(c, "write")
  /\ UNCHANGED <<load, db, replica, nextId, tsFlight, dbFlight, versionReady>>

WriteAssertionsCommand(c) ==
  /\ Doing(c, "WriteAssertions") /\ cl[c].pc = "write"
  /\ IF cl[c].val = None THEN Answer(c) /\ UNCHANGED <<db, faults>>
     ELSE Statement(c, WriteAssertions(Op(c).model, Op(c).value), TRUE, cl[c])
  /\ UNCHANGED <<load, replica, nextId, tsFlight, dbFlight, cached, versionReady>>

MemoryReadAssertions(m) == db.assertions[m]
PostgresReadAssertions(m) == getPgxPool.assertions[m]
MysqlReadAssertions(m) == db.assertions[m]
SqliteReadAssertions(m) == db.assertions[m]

ReadAssertions(m) ==
  CASE load.backend = "memory" -> MemoryReadAssertions(m)
    [] load.backend = "postgres" -> PostgresReadAssertions(m)
    [] load.backend = "mysql" -> MysqlReadAssertions(m)
    [] load.backend = "sqlite" -> SqliteReadAssertions(m)

ReadAssertionsQuery(c) ==
  /\ Doing(c, "ReadAssertions") /\ cl[c].pc = "assert"
  /\ Query(c, Answered([cl[c] EXCEPT !.read = ReadAssertions(Op(c).model)]))
  /\ UNCHANGED <<load, db, replica, nextId, tsFlight, dbFlight, cached, versionReady>>

-----------------------------------------------------------------------------
(* IsReady *)

\* isDBReady: the revision is not looked at again once it was found ready.
DBReady(d) == versionReady \/ d.migrated

\* The primary (or the only) database.  An error of it ends the call and leaves versionReady.
IsReady(c) ==
  /\ Doing(c, "IsReady") /\ cl[c].pc = "idle"
  /\ \/ /\ load.backend = "postgres" /\ load.secondary
        /\ cl' = [cl EXCEPT ![c].pc = "secondary", ![c].val = DBReady(db)]
        /\ UNCHANGED <<versionReady, faults>>
     \/ /\ ~(load.backend = "postgres" /\ load.secondary)
        /\ versionReady' = (load.backend # "memory" /\ DBReady(db))
        /\ cl' = [cl EXCEPT ![c] = Answered([@ EXCEPT !.ready = load.backend = "memory" \/ DBReady(db)])]
        /\ UNCHANGED faults
     \/ /\ load.backend # "memory" /\ faults > 0 /\ faults' = faults - 1
        /\ cl' = [cl EXCEPT ![c] = Answered([@ EXCEPT !.ready = FALSE])]
        /\ UNCHANGED versionReady
  /\ UNCHANGED <<load, db, replica, nextId, tsFlight, dbFlight, cached>>

\* Mutant: the primary alone decides whether the revisions are looked at again.
MutIsReadySecondary(c) ==
  /\ Doing(c, "IsReady") /\ cl[c].pc = "secondary"
  /\ versionReady' = cl[c].val
  /\ cl' = [cl EXCEPT ![c] = Answered([@ EXCEPT !.ready = cl[c].val /\ DBReady(replica)])]
  /\ UNCHANGED <<load, db, replica, nextId, tsFlight, dbFlight, cached, faults>>

\* The secondary: an error of it counts as not ready.
IsReadySecondary(c) ==
  /\ Doing(c, "IsReady") /\ cl[c].pc = "secondary"
  /\ \/ /\ versionReady' = (cl[c].val /\ DBReady(replica))
        /\ UNCHANGED faults
     \/ /\ faults > 0 /\ faults' = faults - 1
        /\ versionReady' = FALSE
  /\ cl' = [cl EXCEPT ![c] = Answered([@ EXCEPT !.ready = versionReady'])]
  /\ UNCHANGED <<load, db, replica, nextId, tsFlight, dbFlight, cached>>

-----------------------------------------------------------------------------
\* The secondary catches up; a migration runs on the primary.
Replicate ==
  /\ load.secondary /\ replica # db
  /\ replica' = db
  /\ UNCHANGED <<load, db, nextId, cl, tsFlight, dbFlight, cached, versionReady, faults>>

Migrate ==
  /\ ~db.migrated
  /\ db' = [db EXCEPT !.migrated = TRUE]
  /\ UNCHANGED <<load, replica, nextId, cl, tsFlight, dbFlight, cached, versionReady, faults>>

Serve(c) ==
  \/ MakeId(c) \/ CreateStoreCommand(c) \/ DeleteFinds(c) \/ DeleteStoreCommand(c)
  \/ ListStoresQuery(c) \/ ReadAuthorizationModelsQuery(c) \/ Listed(c) \/ GetStoreQuery(c)
  \/ WriteAuthorizationModelCommand(c)
  \/ Resolve(c) \/ ResolveGraph(c) \/ JoinLookup(c) \/ FindLatest(c) \/ DbReturn(c) \/ TsReturn(c) \/ LookupById(c) \/ Resolved(c)
  \/ AssertionModel(c) \/ WriteAssertionsCommand(c) \/ ReadAssertionsQuery(c)
  \/ IsReady(c) \/ IsReadySecondary(c)

Next == (\E c \in Clients : Serve(c)) \/ Evict \/ Replicate \/ Migrate

Spec == Init /\ [][Next]_vars

\* Requests are served; every step of one is progress.
Run == \E c \in Clients : Serve(c)
FairSpec == Spec /\ WF_vars(Run)

-----------------------------------------------------------------------------
(* Properties *)

InOrder(s, before(_, _)) == \A i \in 1..Len(s) - 1 : before(s[i], s[i + 1])

\* A listing, page by page, shows what was there from its beginning to its end exactly once
\* and in the order promised, whatever is created and deleted meanwhile.  The offsets of the
\* memory backend keep that only while nothing is deleted (nothing is missed) or nothing is
\* added (nothing is repeated).
ListingsExact ==
  \A c \in Clients :
    cl[c].pc = "listed" =>
      LET now == IF Op(c).op = "ListStores" THEN Selected(getPgxPool, Op(c)) ELSE ToSet(getPgxPool.models)
          before(a, b) == IF Op(c).op = "ListStores" THEN a < b ELSE a > b
      IN /\ load.backend # "memory" \/ cl[c].began \subseteq now =>
              (cl[c].began \cap now) \subseteq ToSet(cl[c].seen)
         /\ load.backend # "memory" \/ now \subseteq cl[c].began => InOrder(cl[c].seen, before)

\* The latest model a client is given never goes back to an earlier one on the same path, and
\* is at least as new as the latest when the lookup began that it shares, however the two
\* levels of shared lookups, the caches and the replica interleave with new models.
LatestMonotone ==
  [][\A c \in Clients : \A p \in {"v1", "v2"} :
        /\ cl[c].last[p].rank <= cl'[c].last[p].rank
        /\ cl'[c].last[p].since <= cl'[c].last[p].rank]_vars

\* A store whose deletion was acknowledged is gone, except where the secondary had not heard
\* of the store when DeleteStoreCommand looked for it there: then nothing was deleted.
DeleteSticks ==
  \A c \in Clients : \A i \in cl[c].acked :
    (\E s \in Visible(db) : s.id = i) => i \in cl[c].blind /\ load.secondary

\* The server is ready only with every database it reads from migrated, although it stops
\* looking at the revisions once they were right.
ReadyMeansMigrated ==
  \A c \in Clients : cl[c].ready => load.backend = "memory" \/ (db.migrated /\ (load.secondary => replica.migrated))

\* Every request is answered, by the lookup it shares if not by its own.
Ended == \A c \in Clients : cl[c].todo = <<>>
=============================================================================
