---------------------------- MODULE TupleBackends ----------------------------
(***************************************************************************)
(* Writing tuples and reading them and their changelog back, page by page, *)
(* in the four datastores: pkg/storage/memory, postgres, mysql (which      *)
(* writes through sqlcommon.Write) and sqlite, called by the commands      *)
(* Write, Read and ReadChanges of pkg/server/commands.                     *)
(*                                                                         *)
(* Each SQL statement is one step, except the two that may wait for a row  *)
(* in the middle: SELECT ... FOR UPDATE and INSERT take one row at a time. *)
(* A tuple key is its position in the order of MakeTupleLockKeys.          *)
(***************************************************************************)
EXTENDS Integers, Sequences, FiniteSets, SequencesExt

CONSTANTS
  Writers,            \* requests that call Write, one batch after the other
  NumKeys,            \* the tuple keys are 1..NumKeys
  Conds,              \* conditions of a request: [name, ctx]
  Workloads,          \* what the writers write, see below
  MaxTuplesPerWrite,  \* maxTuplesPerWriteField
  BatchSize,          \* storage.DefaultMaxTuplesPerWrite: rows per statement
  HorizonOffset,      \* the changelog horizon offset, in ticks of the clock
  MaxClock,           \* bound: ticks of the clock, where a client follows the changelog
  BusyRetries,        \* maxRetries of busyRetry
  Absent

Keys  == 1..NumKeys
Kinds == {"memory", "postgres", "mysql", "sqlite"}

(* A workload: the datastore, what the store holds at the start, the       *)
(* batches of each writer, whether a writer retries what failed for an     *)
(* unknown reason, the page sizes of the two readers (0: nobody reads) and *)
(* a bound on cancelled calls, lost answers and retries.                   *)
Batches == [deletes : Seq(Keys), writes : Seq([key : Keys, cond : Conds]),
            onMissing : {"error", "ignore"}, onDuplicate : {"error", "ignore"}]

BackendsAssumption ==
  /\ NumKeys \in Nat /\ MaxTuplesPerWrite \in Nat /\ BatchSize \in Nat \ {0}
  /\ HorizonOffset \in Nat /\ MaxClock \in Nat /\ BusyRetries \in Nat
  /\ Absent \notin Conds
  /\ \A l \in Workloads : /\ l.kind \in Kinds /\ l.retry \in BOOLEAN /\ l.faults \in Nat
                          /\ l.held \in [Keys -> Conds \cup {Absent}]
                          /\ l.batches \in [Writers -> Seq(Batches)]
                          /\ l.pageSize \in Nat /\ l.feedSize \in Nat

VARIABLES
  load,     \* the workload, which never changes
  clock,
  ids,      \* entropy of the process: how many ULIDs it has made
  rows,     \* the committed rows of the tuple table: [cond, ulid], or Absent
  log,      \* the committed rows of the changelog, in the order of commit
  pc, call, answer,
  tx,       \* the transaction of each writer
  faults,
  page,     \* a client that reads all tuples, page by page
  feed      \* a client that follows the changelog, page by page

table  == <<rows, log, page>>
vars   == <<load, clock, ids, rows, log, pc, call, answer, tx, faults, page, feed>>

kind == load.kind
Request(w) == load.batches[w][call[w]]
RequestKeys(b) == ToSet(b.deletes) \cup {x.key : x \in ToSet(b.writes)}

(* A ULID is a time and what the monotonic entropy adds to it.             *)
Older(u, v) == u[1] < v[1] \/ (u[1] = v[1] /\ u[2] < v[2])
Present(k) == rows[k] # Absent
Live(r) == {<<k, r[k].ulid>> : k \in {k \in Keys : r[k] # Absent}}
InUlidOrder(S) == SetToSortSeq(S, LAMBDA x, y : Older(x[2], y[2]))

-----------------------------------------------------------------------------
(* Conditions: an empty context is stored as NULL, and read back as an     *)
(* empty context. The SQL datastores compare what they read back with the  *)
(* request's message, memory compares the printed contexts.                *)
Stored(c) == IF c.name = "" THEN c
             ELSE [c EXCEPT !.ctx = IF @ = "nil" THEN "empty" ELSE @]
SameCondition(held, asked) ==
  IF kind = "memory" THEN Stored(held) = Stored(asked) ELSE held = asked

(* What GetDeleteWriteChangelogItems makes of a batch and of the rows that *)
(* exist: an error, or the rows to delete and the rows to insert.          *)
MutVerdict(b, existing) ==
  IF b.onMissing = "error" /\ \E k \in ToSet(b.deletes) : existing[k] = Absent THEN "invalid"
  ELSE IF b.onDuplicate = "error" /\ \E x \in ToSet(b.writes) : existing[x.key] # Absent THEN "invalid"
  ELSE "ok"
Verdict(b, existing) ==
  IF b.onMissing = "error" /\ \E k \in ToSet(b.deletes) : existing[k] = Absent THEN "invalid"
  ELSE IF b.onDuplicate = "error" /\ \E x \in ToSet(b.writes) : existing[x.key] # Absent THEN "invalid"
  ELSE IF \E x \in ToSet(b.writes) : /\ existing[x.key] # Absent
                                     /\ ~SameCondition(existing[x.key], x.cond)
       THEN "conditionConflict"
       ELSE "ok"

ToDelete(b, existing) == SelectSeq(b.deletes, LAMBDA k : existing[k] # Absent)
MutToInsert(b, existing) == b.writes
ToInsert(b, existing) == SelectSeq(b.writes, LAMBDA x : existing[x.key] = Absent)

(* The changelog items, deletes first, each with an identifier of its own  *)
(* made of the time the call began.                                        *)
ChangeItems(now, ds, ws) ==
  [i \in 1..(Len(ds) + Len(ws)) |->
     IF i <= Len(ds)
     THEN [op |-> "delete", key |-> ds[i], cond |-> Absent, ulid |-> <<now, ids + i>>]
     ELSE [op |-> "write", key |-> ws[i - Len(ds)].key, cond |-> Stored(ws[i - Len(ds)].cond),
           ulid |-> <<now, ids + i>>]]

-----------------------------------------------------------------------------
Fresh == [now |-> 0, begun |-> 0, since |-> 0, retries |-> 0,
          keys |-> <<>>, wanted |-> <<>>, locks |-> {}, existing |-> [k \in Keys |-> Absent],
          deletes |-> <<>>, inserts |-> <<>>, items |-> <<>>,
          gone |-> {}, added |-> {}, logged |-> <<>>]

Init ==
  /\ load \in Workloads
  /\ clock = 1 /\ ids = NumKeys
  /\ rows = [k \in Keys |-> IF load.held[k] = Absent THEN Absent
                            ELSE [cond |-> Stored(load.held[k]), ulid |-> <<0, k>>]]
  /\ log = <<>>
  /\ pc = [w \in Writers |-> "idle"] /\ call = [w \in Writers |-> 1]
  /\ answer = [w \in Writers |-> "none"] /\ tx = [w \in Writers |-> Fresh]
  /\ faults = 0
  /\ page = [state |-> IF load.pageSize = 0 THEN "done" ELSE "new",
             from |-> <<>>, got |-> <<>>, always |-> {}, shrunk |-> FALSE]
  /\ feed = [from |-> <<0, NumKeys>>, got |-> <<>>]

(* What the changelog items do to the rows, and the items as they are      *)
(* committed: with the time of insertion, how much of the changelog there  *)
(* was when the call began, and the time of the commit.                    *)
Applied(items) ==
  [k \in Keys |->
     IF \E c \in ToSet(items) : c.key = k
     THEN LET c == CHOOSE c \in ToSet(items) : c.key = k
          IN  IF c.op = "delete" THEN Absent ELSE [cond |-> c.cond, ulid |-> c.ulid]
     ELSE rows[k]]
Dated(items, at) ==
  [i \in DOMAIN items |-> [op |-> items[i].op, key |-> items[i].key, cond |-> items[i].cond,
                           ulid |-> items[i].ulid, at |-> at]]
Committed(w, items) ==
  [i \in DOMAIN items |-> [op |-> items[i].op, key |-> items[i].key, cond |-> items[i].cond,
                           ulid |-> items[i].ulid, at |-> items[i].at,
                           since |-> tx[w].since, done |-> clock]]

(* The call ends, and its transaction, with the locks it holds.            *)
Answer(w, a) ==
  /\ pc' = [pc EXCEPT ![w] = "answered"]
  /\ answer' = [answer EXCEPT ![w] = a]
  /\ tx' = [tx EXCEPT ![w] = [Fresh EXCEPT !.since = tx[w].since]]
MutRollback(w, a) ==
  /\ pc' = [pc EXCEPT ![w] = "answered"]
  /\ answer' = [answer EXCEPT ![w] = a]
  /\ UNCHANGED <<table, ids, tx>>
Rollback(w, a) == Answer(w, a) /\ UNCHANGED <<table, ids>>
Goto(w, l, t) ==
  /\ pc' = [pc EXCEPT ![w] = l]
  /\ tx' = [tx EXCEPT ![w] = t]
  /\ UNCHANGED <<table, ids, answer>>

(* The next statement of a transaction: what is left of the one before, or *)
(* the next of the kinds there is work for, or l.                          *)
Statement(t, l) == IF t.wanted # <<>> THEN "lock" ELSE IF t.deletes # <<>> THEN "delete"
                   ELSE IF t.inserts # <<>> THEN "insert" ELSE IF t.items # <<>> THEN "changes" ELSE l
Proceed(w, l, t) == Goto(w, Statement(t, l), t)

(* New rows and changes become visible. A client in the middle of its      *)
(* pages remembers which tuples were there all along.                      *)
Publish(r, changes) ==
  /\ rows' = r
  /\ log' = log \o changes
  /\ page' = [page EXCEPT !.always = @ \cap Live(r),
                          !.shrunk = @ \/ (page.state = "on" /\ ~(Live(rows) \subseteq Live(r)))]

-----------------------------------------------------------------------------
(* The server receives a batch. WriteCommand refuses an empty batch, one   *)
(* that names a tuple twice and one that is too large; the SQL datastores  *)
(* read the clock before they have a transaction.                          *)
ValidBatch(b) ==
  LET n == Len(b.deletes) + Len(b.writes)
  IN  n > 0 /\ n = Cardinality(RequestKeys(b)) /\ n <= MaxTuplesPerWrite

Receive(w) ==
  /\ pc[w] = "idle" /\ call[w] <= Len(load.batches[w])
  /\ pc' = [pc EXCEPT ![w] = IF ValidBatch(Request(w)) THEN "begin" ELSE "answered"]
  /\ answer' = [answer EXCEPT ![w] = IF ValidBatch(Request(w)) THEN "none" ELSE "invalid"]
  /\ tx' = [tx EXCEPT ![w] = [Fresh EXCEPT !.now = clock, !.since = Len(log)]]
  /\ UNCHANGED <<table, ids>>

(* The memory datastore: one critical section, the clock read inside it,   *)
(* and the deletes recorded in the order of the rows.                      *)
MutMemoryWrite(w) ==
  /\ kind = "memory" /\ pc[w] = "begin"
  /\ LET b        == Request(w)
         existing == [k \in Keys |-> IF Present(k) THEN rows[k].cond ELSE Absent]
         items    == ChangeItems(tx[w].now, ToDelete(b, existing), ToInsert(b, existing))
     IN  IF Verdict(b, existing) # "ok" THEN Rollback(w, Verdict(b, existing))
         ELSE /\ Publish(Applied(items), Committed(w, Dated(items, tx[w].now)))
              /\ ids' = ids + Len(items)
              /\ Answer(w, "ok")
MemoryWrite(w) ==
  /\ kind = "memory" /\ pc[w] = "begin"
  /\ LET b        == Request(w)
         existing == [k \in Keys |-> IF Present(k) THEN rows[k].cond ELSE Absent]
         gone     == {x \in Live(rows) : x[1] \in ToSet(ToDelete(b, existing))}
         dels     == [i \in 1..Cardinality(gone) |-> InUlidOrder(gone)[i][1]]
         items    == ChangeItems(clock, dels, ToInsert(b, existing))
     IN  IF Verdict(b, existing) # "ok" THEN Rollback(w, Verdict(b, existing))
         ELSE /\ Publish(Applied(items), Committed(w, Dated(items, clock)))
              /\ ids' = ids + Len(items)
              /\ Answer(w, "ok")

-----------------------------------------------------------------------------
(* BEGIN. SQLite begins with BEGIN IMMEDIATE, which takes the write lock   *)
(* of the database or fails with SQLITE_BUSY, and is retried.              *)
MakeTupleLockKeys(b) == SetToSortSeq(RequestKeys(b), <)
Begun(w) == [tx[w] EXCEPT !.begun = clock, !.keys = MakeTupleLockKeys(Request(w))]

Begin(w) == pc[w] = "begin" /\ Goto(w, "select", Begun(w))

WriteLocked == \E v \in Writers : pc[v] \in {"select", "delete", "insert", "changes", "commit"}
BusyRetry(w) ==
  \/ tx[w].retries < BusyRetries /\ Goto(w, "begin", [tx[w] EXCEPT !.retries = @ + 1])
  \/ tx[w].retries = BusyRetries /\ Rollback(w, "error")
BeginImmediate(w) ==
  /\ pc[w] = "begin"
  /\ \/ ~WriteLocked /\ Goto(w, "select", Begun(w))
     \/ WriteLocked /\ BusyRetry(w)

(* SELECT ... FOR UPDATE of the next chunk of lock keys. PostgreSQL locks  *)
(* the rows of the statement's snapshot, in an order of its own choice;    *)
(* InnoDB walks the keys in index order and reads each row as it is when   *)
(* the lock is granted; SQLite has no row locks and needs none.            *)
Prefix(s) == SubSeq(s, 1, IF Len(s) < BatchSize THEN Len(s) ELSE BatchSize)
Suffix(s) == SubSeq(s, Len(Prefix(s)) + 1, Len(s))
Found(w) == {k \in ToSet(Prefix(tx[w].keys)) : Present(k)}

SelectSnapshot(w) ==
  /\ pc[w] = "select" /\ tx[w].keys # <<>>
  /\ \E order \in SetToSeqs({<<k, rows[k].ulid>> : k \in Found(w)}) :
       Proceed(w, "select", [tx[w] EXCEPT !.keys = Suffix(@), !.wanted = order])

SelectCurrent(w) ==
  /\ pc[w] = "select" /\ tx[w].keys # <<>>
  /\ LET chunk == Prefix(tx[w].keys) IN
     Proceed(w, "select", [tx[w] EXCEPT !.keys = Suffix(@),
                                        !.wanted = [i \in DOMAIN chunk |-> <<chunk[i], <<>>>>]])

SelectAtOnce(w) ==
  /\ pc[w] = "select" /\ tx[w].keys # <<>>
  /\ Goto(w, "select", [tx[w] EXCEPT !.keys = Suffix(@), !.existing =
       [k \in Keys |-> IF k \in Found(w) THEN rows[k].cond ELSE @[k]]])

(* Who keeps a transaction waiting: for the row it wants to lock, or for   *)
(* the fate of another transaction's row with the key it inserts.          *)
Blockers(w) ==
  {v \in Writers \ {w} :
     \/ /\ pc[w] = "lock"
        /\ Head(tx[w].wanted)[1] \in tx[v].locks \cup (IF kind = "mysql" THEN tx[v].added ELSE {})
     \/ /\ pc[w] = "insert"
        /\ Head(tx[w].inserts).key \in
             tx[v].added \cup (IF kind = "mysql" THEN tx[v].locks ELSE tx[v].gone)}

MutLockRow(w) ==
  /\ pc[w] = "lock" /\ Blockers(w) = {}
  /\ LET k    == Head(tx[w].wanted)[1]
         seen == Present(k) /\ (kind = "mysql" \/ rows[k].ulid = Head(tx[w].wanted)[2])
     IN  Proceed(w, "select", [tx[w] EXCEPT !.wanted = Tail(@),
                                 !.existing[k] = IF seen THEN rows[k].cond ELSE @])
LockRow(w) ==
  /\ pc[w] = "lock" /\ Blockers(w) = {}
  /\ LET k    == Head(tx[w].wanted)[1]
         seen == Present(k) /\ (kind = "mysql" \/ rows[k].ulid = Head(tx[w].wanted)[2])
     IN  Proceed(w, "select", [tx[w] EXCEPT !.wanted = Tail(@),
                                 !.locks = IF seen THEN @ \cup {k} ELSE @,
                                 !.existing[k] = IF seen THEN rows[k].cond ELSE @])

(* The statements that follow are made of the rows found.                  *)
Plan(w) ==
  /\ pc[w] = "select" /\ tx[w].keys = <<>>
  /\ LET b  == Request(w)
         e  == tx[w].existing
         is == ChangeItems(tx[w].now, ToDelete(b, e), ToInsert(b, e))
     IN  IF Verdict(b, e) # "ok" THEN Rollback(w, Verdict(b, e))
         ELSE LET t == [tx[w] EXCEPT !.deletes = ToDelete(b, e), !.inserts = ToInsert(b, e),
                                     !.items = is]
              IN  /\ pc' = [pc EXCEPT ![w] = Statement(t, "commit")]
                  /\ tx' = [tx EXCEPT ![w] = t]
                  /\ ids' = ids + Len(is)
                  /\ UNCHANGED <<table, answer>>

(* DELETE of a chunk of rows: all of them are there, or it is a conflict.  *)
DeleteRows(w) ==
  /\ pc[w] = "delete"
  /\ LET chunk == ToSet(Prefix(tx[w].deletes)) IN
     IF \A k \in chunk : Present(k)
     THEN Proceed(w, "commit", [tx[w] EXCEPT !.deletes = Suffix(@), !.gone = @ \cup chunk,
                                             !.locks = @ \cup chunk])
     ELSE Rollback(w, "conflictOnDelete")

(* INSERT, row by row in the order of the request: the unique index        *)
(* refuses a key that a committed row has.                                 *)
InsertRow(w) ==
  /\ pc[w] = "insert" /\ Blockers(w) = {}
  /\ LET k == Head(tx[w].inserts).key IN
     IF Present(k) THEN Rollback(w, "conflictOnInsert")
     ELSE Proceed(w, "commit", [tx[w] EXCEPT !.inserts = Tail(@), !.added = @ \cup {k}])

(* INSERT of a chunk of the changelog. NOW() of PostgreSQL is the time at  *)
(* which the transaction began, elsewhere it is the time of the statement. *)
InsertChanges(w, at) ==
  /\ pc[w] = "changes"
  /\ Proceed(w, "commit", [tx[w] EXCEPT !.items = Suffix(@),
                              !.logged = @ \o Dated(Prefix(tx[w].items), at)])

Commit(w) ==
  /\ pc[w] = "commit"
  /\ Publish(Applied(tx[w].logged), Committed(w, tx[w].logged))
  /\ Answer(w, "ok")
  /\ UNCHANGED ids

-----------------------------------------------------------------------------
(* The three SQL datastores. MySQL writes through sqlcommon.Write, the     *)
(* other two have the same statements in code of their own.                *)
PostgresDelete(w)  == DeleteRows(w)
PostgresInsert(w)  == InsertRow(w)
PostgresChanges(w) == InsertChanges(w, tx[w].begun)
PostgresWrite(w) ==
  /\ kind = "postgres"
  /\ \/ Begin(w) \/ SelectSnapshot(w) \/ LockRow(w) \/ Plan(w)
     \/ PostgresDelete(w) \/ PostgresInsert(w) \/ PostgresChanges(w) \/ Commit(w)

MySQLWrite(w) ==
  /\ kind = "mysql"
  /\ \/ Begin(w) \/ SelectCurrent(w) \/ LockRow(w) \/ Plan(w)
     \/ DeleteRows(w) \/ InsertRow(w) \/ InsertChanges(w, clock) \/ Commit(w)

SqlitePlan(w)    == Plan(w)
SqliteDelete(w)  == DeleteRows(w)
SqliteInsert(w)  == InsertRow(w)
SqliteChanges(w) == InsertChanges(w, clock)
SqliteWrite(w) ==
  /\ kind = "sqlite"
  /\ \/ BeginImmediate(w) \/ SelectAtOnce(w) \/ SqlitePlan(w)
     \/ SqliteDelete(w) \/ SqliteInsert(w) \/ SqliteChanges(w) \/ Commit(w)

InTransaction(w) == pc[w] \in {"select", "lock", "delete", "insert", "changes", "commit"}

(* The database finds transactions that wait for each other and aborts one *)
(* of them; the datastores hand the error on.                              *)
WaitsFor(w) ==
  LET Widened(S) == S \cup UNION {Blockers(v) : v \in S}
  IN  Widened(Widened(Blockers(w)))
DeadlockAbort(w) == InTransaction(w) /\ w \in WaitsFor(w) /\ Rollback(w, "error")

(* The request's context ends before a statement is sent, or the           *)
(* connection breaks: the transaction is rolled back. Or it breaks after   *)
(* COMMIT was sent, and the caller does not learn that it took effect.     *)
Cancel(w) ==
  /\ InTransaction(w) /\ faults < load.faults /\ faults' = faults + 1
  /\ Rollback(w, "error")

CommitUnknown(w) ==
  /\ pc[w] = "commit" /\ faults < load.faults /\ faults' = faults + 1
  /\ Publish(Applied(tx[w].logged), Committed(w, tx[w].logged))
  /\ Answer(w, "error")
  /\ UNCHANGED ids

(* The client goes on to its next batch, or sends the same one again.      *)
NextCall(w) ==
  /\ pc[w] = "answered"
  /\ pc' = [pc EXCEPT ![w] = "idle"]
  /\ call' = [call EXCEPT ![w] = @ + 1]
  /\ UNCHANGED <<table, ids, answer, tx, faults>>
Retry(w) ==
  /\ pc[w] = "answered" /\ answer[w] = "error" /\ load.retry
  /\ faults < load.faults /\ faults' = faults + 1
  /\ pc' = [pc EXCEPT ![w] = "idle"]
  /\ UNCHANGED <<table, ids, answer, tx, call>>

-----------------------------------------------------------------------------
(* Read with pages: SQL datastores continue at the ULID of the first tuple *)
(* not returned yet, memory at an offset into the tuples as they are now.  *)
AtMost(s, n) == SubSeq(s, 1, IF Len(s) < n THEN Len(s) ELSE n)

MutSqlReadPage ==
  LET left == InUlidOrder({x \in Live(rows) : page.from = <<>> \/ ~Older(x[2], page.from)})
  IN  [tuples |-> AtMost(left, load.pageSize),
       token  |-> IF Len(left) > load.pageSize THEN left[load.pageSize][2] ELSE <<>>]
SqlReadPage ==
  LET left == InUlidOrder({x \in Live(rows) : page.from = <<>> \/ ~Older(x[2], page.from)})
  IN  [tuples |-> AtMost(left, load.pageSize),
       token  |-> IF Len(left) > load.pageSize THEN left[load.pageSize + 1][2] ELSE <<>>]

MemoryReadPage ==
  LET all  == InUlidOrder(Live(rows))
      from == IF page.from = <<>> THEN 0 ELSE page.from[1]
      left == IF from <= Len(all) THEN SubSeq(all, from + 1, Len(all)) ELSE all
  IN  [tuples |-> AtMost(left, load.pageSize),
       token  |-> IF Len(left) > load.pageSize THEN <<from + load.pageSize>> ELSE <<>>]

ReadPage ==
  /\ page.state # "done"
  /\ LET r == IF kind = "memory" THEN MemoryReadPage ELSE SqlReadPage IN
     page' = [page EXCEPT !.state = IF r.token = <<>> THEN "done" ELSE "on",
                          !.from = r.token, !.got = @ \o r.tuples,
                          !.always = IF page.state = "new" THEN Live(rows) ELSE @]
  /\ UNCHANGED <<rows, log, ids, pc, answer, tx>>

(* ReadChanges: the changes behind the horizon and after the last ULID the *)
(* client got, in the order of their ULIDs. Memory walks the changelog and *)
(* stops at the first change in front of the horizon.                      *)
Horizon == clock - HorizonOffset

SqlReadChanges(seen) ==
  AtMost(SetToSortSeq({c \in ToSet(log) : c.ulid \in seen /\ Older(feed.from, c.ulid)},
                      LAMBDA c, d : Older(c.ulid, d.ulid)), load.feedSize)

PostgresReadChanges == SqlReadChanges({c.ulid : c \in {c \in ToSet(log) : c.at < Horizon}})
MySQLReadChanges    == SqlReadChanges({c.ulid : c \in {c \in ToSet(log) : c.at <= Horizon}})
SqliteReadChanges   == SqlReadChanges({c.ulid : c \in {c \in ToSet(log) : c.at <= Horizon}})

MemoryReadChanges ==
  LET ahead == {i \in DOMAIN log : log[i].at > Horizon}
      upTo  == IF ahead = {} THEN Len(log) ELSE (CHOOSE i \in ahead : \A j \in ahead : i <= j) - 1
  IN  AtMost(SelectSeq(SubSeq(log, 1, upTo), LAMBDA c : Older(feed.from, c.ulid)), load.feedSize)

ReadChanges ==
  /\ LET got == CASE kind = "memory"   -> MemoryReadChanges
                  [] kind = "postgres" -> PostgresReadChanges
                  [] kind = "mysql"    -> MySQLReadChanges
                  [] kind = "sqlite"   -> SqliteReadChanges IN
     /\ got # <<>>
     /\ feed' = [from |-> Last(got).ulid, got |-> feed.got \o got]
  /\ UNCHANGED <<rows, log, page, ids, pc, answer, tx>>

-----------------------------------------------------------------------------
Tick == /\ clock < MaxClock /\ load.feedSize > 0
        /\ clock' = clock + 1
        /\ UNCHANGED <<table, ids, pc, answer, tx, call, faults, feed>>

(* What the server and the database do once a request is there.            *)
Serve(w) ==
  /\ MemoryWrite(w) \/ PostgresWrite(w) \/ MySQLWrite(w) \/ SqliteWrite(w) \/ DeadlockAbort(w)
  /\ UNCHANGED <<call, faults>>
Client(w) == NextCall(w) \/ Retry(w) \/ (Receive(w) /\ UNCHANGED <<call, faults>>)
Fault(w) == (Cancel(w) \/ CommitUnknown(w)) /\ UNCHANGED call

Next == /\ UNCHANGED load
        /\ \/ Tick
           \/ /\ UNCHANGED clock
              /\ \/ (\E w \in Writers : Serve(w) \/ Client(w) \/ Fault(w)) /\ UNCHANGED feed
                 \/ ReadPage /\ UNCHANGED <<call, faults, feed>>
                 \/ load.feedSize > 0 /\ ReadChanges /\ UNCHANGED <<call, faults>>

Spec == Init /\ [][Next]_vars

(* The server works on every request it has, and databases on every        *)
(* statement; nothing is assumed of clients, of time and of faults.  Every *)
(* step is progress, so that this is fairness of each request.            *)
Run == (\E w \in Writers : Serve(w)) /\ UNCHANGED <<load, clock, feed>>
FairSpec == Spec /\ WF_vars(Run)

-----------------------------------------------------------------------------
(* Every datastore's Write is the atomic Write of the storage interface,   *)
(* the row-by-row transactions of the SQL datastores included.             *)
Store == INSTANCE TupleStore WITH
           tuples  <- [k \in Keys |-> IF Present(k) THEN rows[k].cond ELSE Absent],
           changes <- [i \in DOMAIN log |-> [op |-> log[i].op, key |-> log[i].key, cond |-> log[i].cond]],
           Conds   <- {Stored(c) : c \in Conds}
WritesAtomically == Store!Spec

(* A writer whose tuples no other writer names can believe its answer: ok  *)
(* means that the store now holds what it asked for, a refusal that the    *)
(* call left no change behind.                                             *)
Alone(w) == \A v \in Writers \ {w} : \A i \in DOMAIN load.batches[v] :
              RequestKeys(load.batches[v][i]) \cap RequestKeys(Request(w)) = {}
AnswerTruthful ==
  \A w \in Writers :
    pc[w] = "answered" /\ Alone(w) =>
      /\ answer[w] = "ok" =>
           /\ \A k \in ToSet(Request(w).deletes) : ~Present(k)
           /\ \A x \in ToSet(Request(w).writes) : Present(x.key) /\ rows[x.key].cond = Stored(x.cond)
      /\ answer[w] \notin {"ok", "error"} =>
           \A i \in (tx[w].since + 1)..Len(log) : log[i].key \notin RequestKeys(Request(w))

(* The row locks, or SQLite's one writer, keep every row that a write has  *)
(* seen: ErrWriteConflictOnDelete is never returned, and under SQLite      *)
(* neither is ErrWriteConflictOnInsert.                                    *)
RowsSeenStay ==
  \A w \in Writers : /\ answer[w] # "conflictOnDelete"
                     /\ kind = "sqlite" => answer[w] # "conflictOnInsert"

(* A client that follows the pages of Read to the last gets every tuple    *)
(* that was there from the first page on, and none twice; with the memory  *)
(* datastore, whose tokens are offsets, if no tuple is deleted meanwhile.  *)
ScanComplete ==
  page.state = "done" /\ load.pageSize > 0 /\ (kind = "memory" => ~page.shrunk) =>
    page.always \subseteq ToSet(page.got) /\ IsInjective(page.got)

(* A client that follows the changelog gets no change twice and skips none *)
(* under the memory datastore. Under the others it may skip one: ULIDs are *)
(* made of the time at which a call began, so that a change can come to    *)
(* light behind one already returned. Their calls overlapped then, and     *)
(* the horizon was of no help because the change was inserted later than   *)
(* the one returned, or committed later than the horizon allows.           *)
Skipped(c) == ~Older(feed.from, c.ulid) /\ c \notin ToSet(feed.got)
SkipsOnlyOverlapping ==
  /\ IsInjective(feed.got)
  /\ \A c \in ToSet(log) : Skipped(c) =>
       /\ kind # "memory"
       /\ \E i \in (c.since + 1)..Len(log) :
            /\ log[i] \in ToSet(feed.got) /\ Older(c.ulid, log[i].ulid)
            /\ c.at > log[i].at \/ c.done >= log[i].at + HorizonOffset

(* Every call the server has received is answered: a transaction waits for *)
(* locks, but never for ever.                                              *)
Ended == \A w \in Writers : pc[w] \in {"idle", "answered"}
=============================================================================
