----------------------------- MODULE Iterators -----------------------------
(***************************************************************************)
(* The iterator stack every read of the engine goes through: the leaves   *)
(* the datastores hand out (rows of a database, an in-memory slice, a     *)
(* static slice, an error), and the wrappers pkg/storage/tuple_iterators  *)
(* and internal/iterator put around them (combined, ordered, filtered,    *)
(* conditions-filtered, concatenated, merged, validated, fed by a         *)
(* channel).  A stack is a tree of records, one record per Go value, and  *)
(* the state of the module is one stack and the client that calls it.     *)
(*                                                                         *)
(* A tuple is [obj, cond]: obj is what the mapper and the comparators see *)
(* (the object), cond what the condition filter finds: "yes", "no" or     *)
(* "err"; typed is the verdict of the type-system filter.  A call returns *)
(* the stack it leaves, a value and an error.                             *)
(***************************************************************************)
EXTENDS Integers, Sequences, SequencesExt, FiniteSets

CONSTANTS None,      \* the nil pointer
          Stacks,    \* the stacks the engine builds, each in its first state
          MaxCalls,  \* bound: calls of one client
          MaxFaults  \* bound: calls the database or the context fails

VARIABLES stack,    \* the stack now
          first,    \* the stack as it was built
          out,      \* the values Next has returned, in order
          last,     \* the last call and what it answered
          calls, faults

vars == <<stack, first, out, last, calls, faults>>

\* The answers of a call.
Yield(it, v) == [it |-> it, val |-> v, err |-> "ok"]

Fail(it, e) == [it |-> it, val |-> None, err |-> e]

\* storage.ErrIteratorDone and the two context errors.
IterIsDoneOrCancelled(e) == e \in {"done", "ctx"}

\* The circumstances of a call: a live context, a cancelled one, or a live one while the
\* database fails, or sends a row that does not scan or whose condition does not decode.
Contexts == {"live", "cancelled", "dbdown", "badrow"}

-----------------------------------------------------------------------------
(* The leaves. *)

NewStaticIterator(items) == [kind |-> "static", items |-> items]

StaticIteratorNext(it, ctx) ==
  IF ctx = "cancelled" THEN Fail(it, "ctx")
  ELSE IF it.items = <<>> THEN Fail(it, "done")
  ELSE Yield([it EXCEPT !.items = Tail(@)], Head(it.items))

StaticIteratorHead(it, ctx) ==
  IF ctx = "cancelled" THEN Fail(it, "ctx")
  ELSE IF it.items = <<>> THEN Fail(it, "done")
  ELSE Yield(it, Head(it.items))

StaticIteratorStop(it) == [it EXCEPT !.items = <<>>]

\* The in-memory datastore's iterator differs in Stop, which does nothing.
NewMemoryIterator(items) == [kind |-> "memory", items |-> items]

MemoryIteratorNext(it, ctx) ==
  IF ctx = "cancelled" THEN Fail(it, "ctx")
  ELSE IF it.items = <<>> THEN Fail(it, "done")
  ELSE Yield([it EXCEPT !.items = Tail(@)], Head(it.items))

MemoryIteratorHead(it, ctx) ==
  IF ctx = "cancelled" THEN Fail(it, "ctx")
  ELSE IF it.items = <<>> THEN Fail(it, "done")
  ELSE Yield(it, Head(it.items))

MemoryIteratorStop(it) == it

\* Rows of a database: the query is sent by the first call (rows = None until
\* then), a row Head has scanned waits in firstRow, closed rows yield no more, and rows
\* the database lost on the way (lost) report that error from then on.
NewSQLTupleIterator(table) ==
  [kind |-> "sql", table |-> table, rows |-> None, firstRow |-> None, closed |-> FALSE,
   lost |-> FALSE]

fetchBuffer(it, ctx) ==
  IF it.rows # None THEN Yield(it, None)
  ELSE IF ctx = "dbdown" THEN Fail(it, "db")
  ELSE Yield([it EXCEPT !.rows = it.table], None)

MutScanRow(it, ctx) ==  \* Mutant: rows.Err is not asked when rows.Next says no.
  IF it.closed \/ ctx = "dbdown" \/ it.rows = <<>> THEN Fail(it, "done")
  ELSE IF ctx = "badrow" THEN Fail([it EXCEPT !.rows = Tail(@)], "db")
  ELSE Yield([it EXCEPT !.rows = Tail(@)], Head(it.rows))

\* rows.Next, rows.Err, Scan and the decoding of the condition: the next row, the end, or
\* an error; a row that fails to scan or to decode has been read all the same.
scanRow(it, ctx) ==
  IF it.lost THEN Fail(it, "db")
  ELSE IF it.closed THEN Fail(it, "done")
  ELSE IF ctx = "dbdown" THEN Fail([it EXCEPT !.lost = TRUE], "db")
  ELSE IF it.rows = <<>> THEN Fail(it, "done")
  ELSE IF ctx = "badrow" THEN Fail([it EXCEPT !.rows = Tail(@)], "db")
  ELSE Yield([it EXCEPT !.rows = Tail(@)], Head(it.rows))

SQLTupleIteratorNext(it, ctx) ==
  IF ctx = "cancelled" THEN Fail(it, "ctx")
  ELSE LET f == fetchBuffer(it, ctx) IN
       IF f.err # "ok" THEN f
       ELSE IF f.it.firstRow # None
            THEN Yield([f.it EXCEPT !.firstRow = None], f.it.firstRow)
       ELSE scanRow(f.it, ctx)

MutSQLHead(it, ctx) ==  \* Mutant: the scanned row is not kept for Next.
  LET f == fetchBuffer(it, ctx) IN
  IF f.err # "ok" THEN f ELSE scanRow(f.it, ctx)

SQLTupleIteratorHead(it, ctx) ==
  IF ctx = "cancelled" THEN Fail(it, "ctx")
  ELSE LET f == fetchBuffer(it, ctx)
           Scanned(r) == IF r.err # "ok" THEN r
                         ELSE [r EXCEPT !.it.firstRow = r.val]
       IN IF f.err # "ok" THEN f
          ELSE IF f.it.firstRow # None THEN Yield(f.it, f.it.firstRow)
          ELSE Scanned(scanRow(f.it, ctx))

SQLTupleIteratorStop(it) == IF it.rows # None THEN [it EXCEPT !.closed = TRUE] ELSE it

\* The SQLite datastore has its own copy of the iterator, over its own columns.
NewSqliteIterator(table) == [NewSQLTupleIterator(table) EXCEPT !.kind = "sqlite"]

SqliteIteratorNext(it, ctx) == SQLTupleIteratorNext(it, ctx)

SqliteIteratorHead(it, ctx) == SQLTupleIteratorHead(it, ctx)

SqliteIteratorStop(it) == SQLTupleIteratorStop(it)

\* An iterator that only reports the error it was built with.
NewErrorIterator == [kind |-> "error"]

ErrorIteratorNext(it) == Fail(it, "broken")

-----------------------------------------------------------------------------
(* The wrappers.  Next and Head of a wrapper call Next, Head and Stop of  *)
(* what they wrap, so the three are mutually recursive.                   *)

RECURSIVE NextOf(_, _), HeadOf(_, _), StopOf(_)

\* What a wrapper makes of the answer r of a call to the iterator it wraps.
Calling(it, r, Then(_, _)) == Then(r, [it EXCEPT !.iter = r.it])

\* tupleKeyIterator: strips the tuple to its key; the tree under it is used as it is.
NewTupleKeyIterator(iter) == [kind |-> "key", iter |-> iter]

tupleKeyIteratorCall(it, r) == [r EXCEPT !.it = [it EXCEPT !.iter = r.it]]

\* filteredTupleKeyIterator: skips what the type system no longer allows.
NewFilteredTupleKeyIterator(iter) == [kind |-> "filtered", iter |-> iter]

RECURSIVE filteredTupleKeyIteratorNext(_, _)
filteredTupleKeyIteratorNext(it, ctx) ==
  LET Got(r, after) == IF r.err # "ok" THEN Fail(after, r.err)
                       ELSE IF r.val.typed THEN Yield(after, r.val)
                       ELSE filteredTupleKeyIteratorNext(after, ctx)
  IN Calling(it, NextOf(it.iter, ctx), Got)

RECURSIVE filteredTupleKeyIteratorHead(_, _)
filteredTupleKeyIteratorHead(it, ctx) ==
  LET Skipped(r, past) == IF r.err # "ok" THEN Fail(past, r.err)
                          ELSE filteredTupleKeyIteratorHead(past, ctx)
      Seen(r, after) == IF r.err # "ok" THEN Fail(after, r.err)
                        ELSE IF r.val.typed THEN Yield(after, r.val)
                        ELSE Calling(it, NextOf(r.it, ctx), Skipped)
  IN Calling(it, HeadOf(it.iter, ctx), Seen)

\* ConditionsFilteredTupleKeyIterator: a condition that fails to evaluate counts as
\* false; the last such error is reported at the end if no tuple ever passed.
NewConditionsFilteredTupleKeyIterator(iter) ==
  [kind |-> "conditions", iter |-> iter, lastError |-> FALSE, onceValid |-> FALSE]

RECURSIVE ConditionsFilteredNext(_, _)
ConditionsFilteredNext(it, ctx) ==
  LET Got(r, after) ==
        IF r.err = "done"
        THEN IF it.onceValid \/ ~it.lastError THEN Fail(after, "done")
             ELSE Fail([after EXCEPT !.lastError = FALSE], "condition")
        ELSE IF r.err # "ok" THEN Fail(after, r.err)
        ELSE IF r.val.cond = "yes" THEN Yield([after EXCEPT !.onceValid = TRUE], r.val)
        ELSE ConditionsFilteredNext([after EXCEPT !.lastError = @ \/ r.val.cond = "err"], ctx)
  IN Calling(it, NextOf(it.iter, ctx), Got)

RECURSIVE ConditionsFilteredHead(_, _)
MutConditionsHead(it, ctx) ==  \* Mutant: Head skips a tuple without keeping its error.
  LET Skipped(r, past) == ConditionsFilteredHead(past, ctx)
      Seen(r, after) == IF r.err # "ok" THEN Fail(after, r.err)
                        ELSE IF r.val.cond = "yes"
                        THEN Yield([after EXCEPT !.onceValid = TRUE], r.val)
                        ELSE Calling(it, NextOf(r.it, ctx), Skipped)
  IN Calling(it, HeadOf(it.iter, ctx), Seen)

ConditionsFilteredHead(it, ctx) ==
  LET Skipped(r, past) == IF r.err # "ok" THEN Fail(past, r.err)
                          ELSE ConditionsFilteredHead(past, ctx)
      Seen(r, after) ==
        IF r.err = "done"
        THEN Fail(after, IF it.onceValid \/ ~it.lastError THEN "done" ELSE "condition")
        ELSE IF r.err # "ok" THEN Fail(after, r.err)
        ELSE IF r.val.cond = "yes" THEN Yield([after EXCEPT !.onceValid = TRUE], r.val)
        ELSE Calling([it EXCEPT !.lastError = @ \/ r.val.cond = "err"], NextOf(r.it, ctx), Skipped)
  IN Calling(it, HeadOf(it.iter, ctx), Seen)

\* internal/iterator.filter: both filters in one wrapper, and no Head.
NewFilteredIterator(iter) ==
  [kind |-> "filter", iter |-> iter, lastErr |-> FALSE, onceValid |-> FALSE]

RECURSIVE filterNext(_, _)
filterNext(it, ctx) ==
  LET Got(r, after) ==
        IF r.err = "done"
        THEN IF it.onceValid \/ ~it.lastErr THEN Fail(after, "done")
             ELSE Fail([after EXCEPT !.lastErr = FALSE], "condition")
        ELSE IF r.err # "ok" THEN Fail(after, r.err)
        ELSE IF r.val.typed /\ r.val.cond = "yes"
             THEN Yield([after EXCEPT !.onceValid = TRUE], r.val)
        ELSE filterNext([after EXCEPT !.lastErr = @ \/ (r.val.typed /\ r.val.cond = "err")], ctx)
  IN Calling(it, NextOf(it.iter, ctx), Got)

\* internal/iterator.Validate: the validator's error is the answer of the call.
NewValidate(base) == [kind |-> "validate", iter |-> base]

RECURSIVE validatingIteratorNext(_, _)
validatingIteratorNext(it, ctx) ==
  LET Got(r, after) == IF r.err # "ok" THEN Fail(after, r.err)
                       ELSE IF r.val.cond = "err" THEN Fail(after, "condition")
                       ELSE IF r.val.cond = "yes" THEN Yield(after, r.val)
                       ELSE validatingIteratorNext(after, ctx)
  IN Calling(it, NextOf(it.iter, ctx), Got)

RECURSIVE validatingIteratorHead(_, _)
validatingIteratorHead(it, ctx) ==
  LET Skipped(r, past) == IF r.err # "ok" THEN Fail(past, r.err)
                          ELSE validatingIteratorHead(past, ctx)
      Seen(r, after) == IF r.err # "ok" THEN Fail(after, r.err)
                        ELSE IF r.val.cond = "err" THEN Fail(after, "condition")
                        ELSE IF r.val.cond = "yes" THEN Yield(after, r.val)
                        ELSE Calling(it, NextOf(r.it, ctx), Skipped)
  IN Calling(it, HeadOf(it.iter, ctx), Seen)

\* combinedIterator: one source after the other, a finished source stopped and dropped
\* (dropped remembers, for the model only, what the stack let go of).
NewCombinedIterator(iters) == 
  [kind |-> "combined", pending |-> iters, once |-> FALSE, dropped |-> <<>>]

RECURSIVE combinedIteratorNext(_, _)
MutCombinedNext(it, ctx) ==  \* Mutant: a finished source is dropped without Stop.
  LET Got(r) == IF r.err = "done"
                THEN combinedIteratorNext([it EXCEPT !.pending = Tail(@),
                                    !.dropped = Append(@, r.it)], ctx)
                ELSE [r EXCEPT !.it = [it EXCEPT !.pending[1] = r.it]]
  IN IF it.pending = <<>> THEN Fail(it, "done") ELSE Got(NextOf(Head(it.pending), ctx))

combinedIteratorNext(it, ctx) ==
  LET Got(r) == IF r.err = "done"
                THEN combinedIteratorNext([it EXCEPT !.pending = Tail(@),
                                    !.dropped = Append(@, StopOf(r.it))], ctx)
                ELSE [r EXCEPT !.it = [it EXCEPT !.pending[1] = r.it]]
  IN IF it.pending = <<>> THEN Fail(it, "done") ELSE Got(NextOf(Head(it.pending), ctx))

RECURSIVE combinedIteratorHead(_, _)
combinedIteratorHead(it, ctx) ==
  LET Got(r) == IF r.err = "done"
                THEN combinedIteratorHead([it EXCEPT !.pending = Tail(@),
                                    !.dropped = Append(@, StopOf(r.it))], ctx)
                ELSE [r EXCEPT !.it = [it EXCEPT !.pending[1] = r.it]]
  IN IF it.pending = <<>> THEN Fail(it, "done") ELSE Got(HeadOf(Head(it.pending), ctx))

combinedIteratorStop(it) ==
  IF it.once THEN it
  ELSE [it EXCEPT !.once = TRUE,
                  !.pending = [i \in DOMAIN it.pending |-> StopOf(it.pending[i])]]

\* OrderedCombinedIterator: a merge of sorted sources that returns one tuple per object.
NewOrderedCombinedIterator(iters) ==
  [kind |-> "ordered", pending |-> iters, lastHead |-> None, lastYielded |-> None,
   once |-> FALSE, dropped |-> <<>>]

\* The loop that discards the tuples of a source whose object was yielded already.
RECURSIVE discardDuplicates(_, _, _, _)
discardDuplicates(iter, val, obj, ctx) ==
  LET Seen(h) == IF h.err # "ok" THEN h ELSE discardDuplicates(h.it, h.val, obj, ctx)
      Got(n) == IF n.err # "ok" THEN n ELSE Seen(HeadOf(n.it, ctx))
  IN IF val.obj # obj THEN Yield(iter, val) ELSE Got(NextOf(iter, ctx))

\* head: the index of the source with the least object, the sources past index i
\* still to be looked at, least the least tuple found so far.
RECURSIVE orderedHeadFrom(_, _, _, _, _)
orderedHeadFrom(it, i, minIdx, least, ctx) ==
  LET yielded == it.lastYielded
      Compared(d, after) ==
        IF d.err = "done"
        THEN orderedHeadFrom([it EXCEPT !.pending[i] = None, !.dropped = Append(@, StopOf(d.it))],
                             i + 1, minIdx, least, ctx)
        ELSE IF d.err # "ok" THEN [it |-> after, idx |-> 0, err |-> d.err]
        ELSE IF least = None \/ least.obj > d.val.obj
        THEN orderedHeadFrom(after, i + 1, i, d.val, ctx)
        ELSE orderedHeadFrom(after, i + 1, minIdx, least, ctx)
      Kept(d) == Compared(d, [it EXCEPT !.pending[i] = d.it])
      Seen(h) == IF h.err # "ok" \/ yielded = None THEN Kept(h)
                 ELSE IF h.val.obj < yielded.obj
                 THEN [it |-> [it EXCEPT !.pending[i] = h.it], idx |-> 0, err |-> "unordered"]
                 ELSE Kept(discardDuplicates(h.it, h.val, yielded.obj, ctx))
  IN IF i > Len(it.pending)
     THEN [it |-> it, idx |-> minIdx, err |-> IF minIdx = 0 THEN "done" ELSE "ok"]
     ELSE Seen(HeadOf(it.pending[i], ctx))

clearPendingThatAreNil(it) ==
  [it EXCEPT !.pending = SelectSeq(@, LAMBDA p : p # None)]

orderedHead(it, ctx) == orderedHeadFrom(clearPendingThatAreNil(it), 1, 0, None, ctx)

OrderedCombinedIteratorNext(it, ctx) ==
  LET Taken(r, after) == IF r.err # "ok" THEN Fail(after, r.err)
                         ELSE Yield([after EXCEPT !.lastYielded = r.val], r.val)
      Got(h, r) == Taken(r, [h.it EXCEPT !.pending[h.idx] = r.it, !.lastHead = None])
      Least(h) == IF h.err # "ok" THEN Fail(h.it, h.err)
                  ELSE Got(h, NextOf(h.it.pending[h.idx], ctx))
  IN Least(orderedHead(it, ctx))

OrderedCombinedIteratorHead(it, ctx) ==
  LET Seen(h, r) == [r EXCEPT !.it = [h.it EXCEPT !.pending[h.idx] = r.it, !.lastHead = r.val]]
      Least(h) == IF h.err # "ok" THEN Fail(h.it, h.err)
                  ELSE Seen(h, HeadOf(h.it.pending[h.idx], ctx))
  IN IF it.lastHead # None THEN Yield(it, it.lastHead) ELSE Least(orderedHead(it, ctx))

OrderedCombinedIteratorStop(it) ==
  IF it.once THEN it
  ELSE LET c == clearPendingThatAreNil(it) IN
       [c EXCEPT !.once = TRUE, !.pending = [i \in DOMAIN c.pending |-> StopOf(c.pending[i])]]

\* concatIterator: iter1, then iter2; any other error ends it.
NewConcat(iter1, iter2) ==
  [kind |-> "concat", current |-> iter1, next |-> iter2, done |-> FALSE, once |-> FALSE,
   dropped |-> <<>>]

concatIteratorNext(it, ctx) ==
  LET Second(r, n) == [n EXCEPT !.it = [it EXCEPT !.current = n.it, !.next = None,
                                                  !.dropped = Append(@, StopOf(r.it))]]
      Got(r, after) ==
        IF r.err = "done" /\ it.next # None THEN Second(r, NextOf(it.next, ctx))
        ELSE IF r.err # "ok" THEN Fail([after EXCEPT !.done = TRUE], r.err)
        ELSE Yield(after, r.val)
      First(r) == Got(r, [it EXCEPT !.current = r.it])
  IN IF it.done THEN Fail(it, "done") ELSE First(NextOf(it.current, ctx))

concatIteratorStop(it) ==
  IF it.once THEN it
  ELSE [it EXCEPT !.once = TRUE, !.done = TRUE, !.current = StopOf(it.current),
                  !.next = IF it.next = None THEN None ELSE StopOf(it.next)]

\* MergedIterator: a merge of two sorted sources, equal values returned once.  A value
\* waits in each of current1 and current2; an error in fetching the one after it is
\* returned with the value, which the callers then ignore.
NewMerge(iter1, iter2, compareFn) ==
  [kind |-> "merge", compareFn |-> compareFn, iter |-> <<iter1, iter2>>, current |-> <<None, None>>,
   hasNext |-> <<FALSE, FALSE>>, initialized |-> FALSE]

\* Fetches the value of source i that comes after the waiting one.
mergeAdvance(it, i, ctx) ==
  LET Kept(r, after) ==
        [it |-> IF r.err = "done" THEN [after EXCEPT !.hasNext[i] = FALSE]
                ELSE IF r.err = "ok" THEN [after EXCEPT !.hasNext[i] = TRUE, !.current[i] = r.val]
                ELSE after,
         err |-> IF r.err = "done" THEN "ok" ELSE r.err]
      Got(r) == Kept(r, [it EXCEPT !.iter[i] = r.it])
  IN Got(NextOf(it.iter[i], ctx))

\* Both, the second only when the first did not fail.
mergeBoth(it, ctx) ==
  LET Then(a) == IF a.err # "ok" THEN a ELSE mergeAdvance(a.it, 2, ctx)
  IN Then(mergeAdvance(it, 1, ctx))

mergeInitialize(it, ctx) ==
  IF it.initialized THEN [it |-> it, err |-> "ok"]
  ELSE mergeBoth([it EXCEPT !.initialized = TRUE], ctx)

returnFromIter(val, a) == [it |-> a.it, val |-> val, err |-> a.err]

\* The comparison of the bottom-up strategy, the one caller of Merge: never 0.
compareObjects(a, b) == IF a.obj < b.obj THEN -1 ELSE 1

mergeCompare(it) ==
  LET a == it.current[1] b == it.current[2] IN
  IF it.compareFn = "strict" THEN compareObjects(a, b) ELSE a.obj - b.obj

MergedIteratorNext(it, ctx) ==
  LET Take(m, i) == returnFromIter(m.current[i], mergeAdvance(m, i, ctx))
      Merge(m) ==
        IF ~m.hasNext[1] /\ ~m.hasNext[2] THEN Fail(m, "done")
        ELSE IF ~m.hasNext[2] \/ (m.hasNext[1] /\ mergeCompare(m) < 0) THEN Take(m, 1)
        ELSE IF ~m.hasNext[1] \/ mergeCompare(m) > 0 THEN Take(m, 2)
        ELSE returnFromIter(m.current[1], mergeBoth(m, ctx))
      Ready(init) == IF init.err # "ok" THEN Fail(init.it, init.err) ELSE Merge(init.it)
  IN Ready(mergeInitialize(it, ctx))

MergedIteratorStop(it) == [it EXCEPT !.iter = [i \in {1, 2} |-> StopOf(@[i])]]

\* channelIterator over a channel whose producer has sent source (iterators, or None for
\* an error) and closed it.  A source that is done, or whose context is cancelled, is
\* stopped and the next one is taken.  A receive from a closed channel is always ready, and
\* so is ctx.Done() of a cancelled context: then the select takes the one that hurry says.
FromChannel(source, hurry) ==
  [kind |-> "channel", source |-> source, current |-> None, stopped |-> FALSE,
   hurry |-> hurry, dropped |-> <<>>]

\* One turn of the receive loop: the iterator with a current source, or what it answers.
channelReceive(it, ctx) ==
  IF ctx = "cancelled" /\ it.hurry THEN Fail(it, "ctx")
  ELSE IF it.source = <<>> THEN Fail(it, "done")
  ELSE IF Head(it.source) = None THEN Fail([it EXCEPT !.source = Tail(@)], "broken")
  ELSE Yield([it EXCEPT !.source = Tail(@), !.current = Head(it.source)], None)

RECURSIVE channelIteratorNext(_, _)
channelIteratorNext(it, ctx) ==
  LET Received(c) == IF c.err # "ok" THEN c ELSE channelIteratorNext(c.it, ctx)
      Got(r) == IF IterIsDoneOrCancelled(r.err)
                THEN channelIteratorNext([it EXCEPT !.current = None,
                                    !.dropped = Append(@, StopOf(r.it))], ctx)
                ELSE [r EXCEPT !.it = [it EXCEPT !.current = r.it]]
  IN IF it.stopped THEN Fail(it, "done")
     ELSE IF it.current = None THEN Received(channelReceive(it, ctx))
     ELSE Got(NextOf(it.current, ctx))

RECURSIVE channelIteratorHead(_, _)
channelIteratorHead(it, ctx) ==
  LET Received(c) == IF c.err # "ok" THEN c ELSE channelIteratorHead(c.it, ctx)
      Got(r) == IF IterIsDoneOrCancelled(r.err)
                THEN channelIteratorHead([it EXCEPT !.current = None,
                                    !.dropped = Append(@, StopOf(r.it))], ctx)
                ELSE [r EXCEPT !.it = [it EXCEPT !.current = r.it]]
  IN IF it.stopped THEN Fail(it, "done")
     ELSE IF it.current = None THEN Received(channelReceive(it, ctx))
     ELSE Got(HeadOf(it.current, ctx))

\* Stop drains the channel: every iterator still in it is stopped.
channelIteratorStop(it) ==
  IF it.stopped THEN it
  ELSE LET inside == SelectSeq(it.source, LAMBDA m : m # None)
               \o (IF it.current = None THEN <<>> ELSE <<it.current>>)
       IN [it EXCEPT !.stopped = TRUE, !.current = None, !.source = <<>>,
                     !.dropped = @ \o [i \in DOMAIN inside |-> StopOf(inside[i])]]

-----------------------------------------------------------------------------
(* The calls of the interface, by the type of the receiver. *)

NextOf(it, ctx) ==
  CASE it.kind = "static" -> StaticIteratorNext(it, ctx)
    [] it.kind = "memory" -> MemoryIteratorNext(it, ctx)
    [] it.kind = "sql" -> SQLTupleIteratorNext(it, ctx)
    [] it.kind = "sqlite" -> SqliteIteratorNext(it, ctx)
    [] it.kind = "error" -> ErrorIteratorNext(it)
    [] it.kind = "key" -> tupleKeyIteratorCall(it, NextOf(it.iter, ctx))
    [] it.kind = "filtered" -> filteredTupleKeyIteratorNext(it, ctx)
    [] it.kind = "conditions" -> ConditionsFilteredNext(it, ctx)
    [] it.kind = "filter" -> filterNext(it, ctx)
    [] it.kind = "validate" -> validatingIteratorNext(it, ctx)
    [] it.kind = "combined" -> combinedIteratorNext(it, ctx)
    [] it.kind = "ordered" -> OrderedCombinedIteratorNext(it, ctx)
    [] it.kind = "concat" -> concatIteratorNext(it, ctx)
    [] it.kind = "merge" -> MergedIteratorNext(it, ctx)
    [] it.kind = "channel" -> channelIteratorNext(it, ctx)

HeadOf(it, ctx) ==
  CASE it.kind = "static" -> StaticIteratorHead(it, ctx)
    [] it.kind = "memory" -> MemoryIteratorHead(it, ctx)
    [] it.kind = "sql" -> SQLTupleIteratorHead(it, ctx)
    [] it.kind = "sqlite" -> SqliteIteratorHead(it, ctx)
    [] it.kind = "error" -> ErrorIteratorNext(it)
    [] it.kind = "key" -> tupleKeyIteratorCall(it, HeadOf(it.iter, ctx))
    [] it.kind = "filtered" -> filteredTupleKeyIteratorHead(it, ctx)
    [] it.kind = "conditions" -> ConditionsFilteredHead(it, ctx)
    [] it.kind = "validate" -> validatingIteratorHead(it, ctx)
    [] it.kind = "combined" -> combinedIteratorHead(it, ctx)
    [] it.kind = "ordered" -> OrderedCombinedIteratorHead(it, ctx)
    [] it.kind = "channel" -> channelIteratorHead(it, ctx)
    [] it.kind \in {"filter", "concat", "merge"} -> Fail(it, "unsupported")

StopOf(it) ==
  CASE it.kind = "static" -> StaticIteratorStop(it)
    [] it.kind = "sql" -> SQLTupleIteratorStop(it)
    [] it.kind = "sqlite" -> SqliteIteratorStop(it)
    [] it.kind = "memory" -> MemoryIteratorStop(it)
    [] it.kind = "error" -> it
    [] it.kind \in {"key", "filtered", "conditions", "filter", "validate"} ->
         [it EXCEPT !.iter = StopOf(@)]
    [] it.kind = "combined" -> combinedIteratorStop(it)
    [] it.kind = "ordered" -> OrderedCombinedIteratorStop(it)
    [] it.kind = "concat" -> concatIteratorStop(it)
    [] it.kind = "merge" -> MergedIteratorStop(it)
    [] it.kind = "channel" -> channelIteratorStop(it)

-----------------------------------------------------------------------------
(* The client: a caller that mixes Next and Head, gives up after an error *)
(* and stops the stack when it has had enough.                            *)

Init ==
  /\ first \in Stacks
  /\ stack = first
  /\ out = <<>>
  /\ last = [op |-> "new", val |-> None, err |-> "ok"]
  /\ calls = 0
  /\ faults = 0

\* The context of one call; a failing one is taken from the bound.
InContext(ctx) ==
  /\ calls < MaxCalls
  /\ calls' = calls + 1
  /\ ctx # "live" => faults < MaxFaults
  /\ faults' = IF ctx = "live" THEN faults ELSE faults + 1

Reading == last.op # "Stop" /\ last.err \in {"ok", "done"}

CallNext(ctx) ==
  /\ Reading
  /\ InContext(ctx)
  /\ LET r == NextOf(stack, ctx) IN
     /\ stack' = r.it
     /\ last' = [op |-> "Next", val |-> r.val, err |-> r.err]
     /\ out' = IF r.err = "ok" THEN Append(out, r.val) ELSE out
  /\ UNCHANGED first

CallHead(ctx) ==
  /\ Reading
  /\ InContext(ctx)
  /\ LET r == HeadOf(stack, ctx) IN
     /\ r.err # "unsupported"
     /\ stack' = r.it
     /\ last' = [op |-> "Head", val |-> r.val, err |-> r.err]
  /\ UNCHANGED <<first, out>>

CallStop ==
  /\ last.op # "Stop"
  /\ stack' = StopOf(stack)
  /\ last' = [op |-> "Stop", val |-> None, err |-> "ok"]
  /\ UNCHANGED <<first, out, calls, faults>>

Next == \/ \E ctx \in Contexts : CallNext(ctx) \/ CallHead(ctx)
        \/ CallStop

Spec == Init /\ [][Next]_vars

-----------------------------------------------------------------------------
(* What a stack stands for, by recursion on how it was built. *)

\* The tuples of some sources, one per object, the earliest source first.
OnePerObject(sources) ==
  LET objs == {t.obj : t \in UNION {ToSet(sources[i]) : i \in DOMAIN sources}}
      Of(o) == SelectSeq(FlattenSeq(sources), LAMBDA t : t.obj = o)[1]
      order == SetToSortSeq(objs, <)
  IN [i \in DOMAIN order |-> Of(order[i])]

\* The merge of two sorted sequences: on equal objects b goes first under the strict
\* comparison, and one of a pair is dropped under a comparison that can answer 0.
RECURSIVE Merged(_, _, _)
Merged(a, b, compareFn) ==
  IF a = <<>> THEN b
  ELSE IF b = <<>> THEN a
  ELSE IF Head(a).obj < Head(b).obj THEN <<Head(a)>> \o Merged(Tail(a), b, compareFn)
  ELSE IF Head(a).obj > Head(b).obj \/ compareFn = "strict"
       THEN <<Head(b)>> \o Merged(a, Tail(b), compareFn)
  ELSE <<Head(a)>> \o Merged(Tail(a), Tail(b), compareFn)

RECURSIVE Values(_)
Values(it) ==
  CASE it.kind \in {"static", "memory"} -> it.items
    [] it.kind \in {"sql", "sqlite"} -> it.table
    [] it.kind = "error" -> <<>>
    [] it.kind = "key" -> Values(it.iter)
    [] it.kind = "filtered" -> SelectSeq(Values(it.iter), LAMBDA t : t.typed)
    [] it.kind \in {"conditions", "validate"} ->
         SelectSeq(Values(it.iter), LAMBDA t : t.cond = "yes")
    [] it.kind = "filter" ->
         SelectSeq(Values(it.iter), LAMBDA t : t.typed /\ t.cond = "yes")
    [] it.kind = "combined" -> FlattenSeq([i \in DOMAIN it.pending |-> Values(it.pending[i])])
    [] it.kind = "ordered" -> OnePerObject([i \in DOMAIN it.pending |-> Values(it.pending[i])])
    [] it.kind = "concat" -> Values(it.current) \o Values(it.next)
    [] it.kind = "merge" -> Merged(Values(it.iter[1]), Values(it.iter[2]), it.compareFn)
    [] it.kind = "channel" ->
         FlattenSeq([i \in DOMAIN it.source |->
                       IF it.source[i] = None THEN <<>> ELSE Values(it.source[i])])

\* Whether draining the stack must report an error: a source that cannot be read, a
\* tuple the validator fails on, or only conditions that failed to evaluate.
RECURSIVE Broken(_)
Broken(it) ==
  LET seen == Values(it.iter) IN
  CASE it.kind \in {"static", "memory", "sql", "sqlite"} -> FALSE
    [] it.kind = "error" -> TRUE
    [] it.kind \in {"key", "filtered"} -> Broken(it.iter)
    [] it.kind = "validate" -> Broken(it.iter) \/ \E t \in ToSet(seen) : t.cond = "err"
    [] it.kind = "conditions" ->
         \/ Broken(it.iter)
         \/ Values(it) = <<>> /\ \E t \in ToSet(seen) : t.cond = "err"
    [] it.kind = "filter" ->
         \/ Broken(it.iter)
         \/ Values(it) = <<>> /\ \E t \in ToSet(seen) : t.typed /\ t.cond = "err"
    [] it.kind \in {"combined", "ordered"} -> \E i \in DOMAIN it.pending : Broken(it.pending[i])
    [] it.kind = "concat" -> Broken(it.current) \/ Broken(it.next)
    [] it.kind = "merge" -> Broken(it.iter[1]) \/ Broken(it.iter[2])
    [] it.kind = "channel" ->
         \E i \in DOMAIN it.source : it.source[i] = None \/ Broken(it.source[i])

\* The rows a stack still holds open, the sources it has dropped included.
RECURSIVE OpenRows(_)
OpenRows(it) ==
  LET In(s) == \E i \in DOMAIN s : s[i] # None /\ OpenRows(s[i]) IN
  CASE it.kind \in {"static", "memory", "error"} -> FALSE
    [] it.kind \in {"sql", "sqlite"} -> it.rows # None /\ ~it.closed
    [] it.kind \in {"key", "filtered", "conditions", "filter", "validate"} -> OpenRows(it.iter)
    [] it.kind \in {"combined", "ordered"} -> In(it.pending) \/ In(it.dropped)
    [] it.kind = "concat" -> In(<<it.current, it.next>>) \/ In(it.dropped)
    [] it.kind = "merge" -> In(it.iter)
    [] it.kind = "channel" -> In(<<it.current>> \o it.source) \/ In(it.dropped)

-----------------------------------------------------------------------------
(* Properties. *)

\* Whatever mix of Head and Next a caller makes, Next returns the stack's tuples in order
\* and each once (tuple_iterators.go: a Head that advances internally makes Next miss
\* nothing), and answers done only when all of them were returned: rows the database loses
\* half way are an error, never a short answer.  A cancelled context is the exception the
\* channel iterator makes: it counts as the end of a source.
NothingMissed ==
  (faults = 0 \/ first.kind # "channel") =>
    /\ IsPrefix(out, Values(first))
    /\ (last.op = "Next" /\ last.err = "done") => out = Values(first)

\* An error is not lost and none is made up: the stack ends with done only if nothing in
\* it had to fail, and it answers with an error other than the caller's own context or
\* the database's only if something had to (tuple_iterators.go and filter.go: the last
\* condition error is returned when no tuple was valid).
ErrorsSurface ==
  /\ ((faults = 0 \/ first.kind # "channel") /\ last.op = "Next" /\ last.err = "done")
       => ~Broken(first)
  /\ last.err \in {"condition", "broken", "unordered"} => Broken(first)
  /\ last.err = "db" => faults > 0

\* Stop at any moment, after any error, leaves no result set of the database open, the
\* sources the stack had finished with or never reached included.
StopReleasesRows == last.op = "Stop" => ~OpenRows(stack)

=============================================================================
