-------------------------- MODULE SharedIterators --------------------------
(***************************************************************************)
(* IteratorDatastore (storagewrappers/sharediterator): concurrent reads    *)
(* with the same key share one iterator.  The first request stores a      *)
(* storageItem, whoever unwraps it first opens the iterator, every request *)
(* works on a clone, and two timers take the item out of the map.  Below   *)
(* it the BoundedTupleReader of a request bounds and throttles the reads   *)
(* that reach the datastore.                                              *)
(*                                                                         *)
(* The rows of a read are 1..Rows; ver is the number of the database       *)
(* version they were read from.                                           *)
(***************************************************************************)
EXTENDS Integers, Sequences, FiniteSets

CONSTANTS None,
          Clients,       \* the goroutines that read
          Loads,         \* the workloads: see Init
          Rows,          \* rows of a read
          BufferSize,    \* bufferSize
          Concurrency,   \* the limiter of a request's BoundedTupleReader
          Threshold,     \* reads of a request before it is throttled
          MaxVersion     \* bound on the writes

Items == Clients         \* an item is named after the client that made it

VARIABLES load,     \* the clients that read and what else happens, chosen once
          entry,    \* the sync.Maps read, rut and rswu, each for the one key of its clients
          ctr,      \* Storage.ctr
          item,     \* the storageItems
          cl,       \* the clients
          slots,    \* per request, the clients that hold a place in the limiter
          reads,    \* per request, countReads
          ctxDone,  \* the clients whose context is done
          db,       \* the version of the database
          faults    \* failures the datastore may still have

vars == <<load, entry, ctr, item, cl, slots, reads, ctxDone, db, faults>>

Requests == {load.client[c].request : c \in DOMAIN load.client}
Request(c) == load.client[c].request

Ops == {"Read", "ReadUsersetTuples", "ReadStartingWithUser"}
Op(c) == load.client[c].op

NewItem == [st |-> "none", refs |-> 0, stopped |-> FALSE, ver |-> None, pos |-> 0,
            items |-> <<>>, err |-> "none", fetching |-> None, rowsOpen |-> FALSE,
            admission |-> "off", idle |-> "off", timer |-> "off", expired |-> FALSE]

Active == DOMAIN load.client

\* What the proofs take from the constants: finitely many clients, rows and a buffer that count,
\* and workloads over these clients and the three reads.
SharedAssumption ==
  /\ IsFiniteSet(Clients) /\ None \notin Clients
  /\ Rows \in Nat /\ BufferSize \in Nat \ {0} /\ Concurrency \in Nat
  /\ \A l \in Loads :
       /\ DOMAIN l.client \subseteq Clients /\ l.faults \in Nat
       /\ \A c \in DOMAIN l.client : l.client[c].op \in Ops

NewClient(pc) == [pc |-> pc, item |-> None, shares |-> FALSE, head |-> 0, got |-> <<>>, ver |-> None,
              began |-> [ver |-> 0, expired |-> {}], res |-> "none"]

Init ==
  /\ load \in Loads
  /\ entry = [op \in Ops |-> None] /\ ctr = 0
  /\ item = [i \in Items |-> NewItem]
  /\ cl = [c \in Clients |-> NewClient(IF c \in Active THEN "start" ELSE "finished")]
  /\ slots = [r \in Requests |-> {}]
  /\ reads = [r \in Requests |-> 0]
  /\ ctxDone = {}
  /\ db = 0
  /\ faults = load.faults

Finish(c, res) == cl' = [cl EXCEPT ![c].pc = "stop", ![c].res = res]
Goto(c, pc) == cl' = [cl EXCEPT ![c].pc = pc]

-----------------------------------------------------------------------------
(* IteratorDatastore.Read, ReadUsersetTuples, ReadStartingWithUser. *)

\* Mutant: the consistency preference is not looked at.
MutShare(c) ==
  /\ cl[c].pc = "start"
  /\ LET full == load.limit = 0 \/ ctr >= load.limit IN
     cl' = [cl EXCEPT ![c].pc = IF full THEN "inner" ELSE "store",
                      ![c].began = [ver |-> db, expired |-> {i \in Items : item[i].expired}]]
  /\ UNCHANGED <<load, entry, ctr, item, slots, reads, ctxDone, db, faults>>

\* The decision to share: not for higher consistency, and not when the storage is full.
Share(c) ==
  /\ cl[c].pc = "start"
  /\ LET full == load.limit = 0 \/ ctr >= load.limit IN
     cl' = [cl EXCEPT ![c].pc = IF load.client[c].higher \/ full THEN "inner" ELSE "store",
                      ![c].began = [ver |-> db, expired |-> {i \in Items : item[i].expired}]]
  /\ UNCHANGED <<load, entry, ctr, item, slots, reads, ctxDone, db, faults>>

\* The three reads are one code over three maps and one counter.
Read(c) == Op(c) = "Read" /\ Share(c)
ReadUsersetTuples(c) == Op(c) = "ReadUsersetTuples" /\ Share(c)
ReadStartingWithUser(c) == Op(c) = "ReadStartingWithUser" /\ Share(c)

\* LoadOrStore and the counter of what was stored, one step: only `full` of others reads between.
LoadOrStore(c) ==
  /\ cl[c].pc = "store"
  /\ IF entry[Op(c)] = None
     THEN /\ entry' = [entry EXCEPT ![Op(c)] = c] /\ ctr' = ctr + 1
          /\ item' = [item EXCEPT ![c].st = "new"]
          /\ cl' = [cl EXCEPT ![c].pc = "unwrap", ![c].item = c]
     ELSE /\ cl' = [cl EXCEPT ![c].pc = "unwrap", ![c].item = entry[Op(c)]]
          /\ UNCHANGED <<entry, ctr, item>>
  /\ UNCHANGED <<load, slots, reads, ctxDone, db, faults>>

\* unwrap, once.Do: the first runs the producer, with the context and the reader of the client
\* that stored the item; the others wait for it.
Produce(c) ==
  /\ cl[c].pc = "unwrap" /\ item[cl[c].item].st = "new"
  /\ item' = [item EXCEPT ![cl[c].item].st = "producing"]
  /\ Goto(c, "open")
  /\ UNCHANGED <<load, entry, ctr, slots, reads, ctxDone, db, faults>>

\* A new instance counts itself (clone); unwrap starts the idle timer again for it.
clone(it) == [it EXCEPT !.refs = @ + 1, !.idle = "armed"]

\* Mutant: clone does not look whether the original was stopped.
MutUnwrap(c) ==
  /\ cl[c].pc = "unwrap"
  /\ LET i == cl[c].item IN
     \/ /\ item[i].st = "failed"
        /\ entry' = [entry EXCEPT ![Op(c)] = IF @ = c THEN None ELSE @]
        /\ Finish(c, "error")
        /\ UNCHANGED item
     \/ /\ item[i].st = "ready"
        /\ item' = [item EXCEPT ![i] = clone(@)]
        /\ cl' = [cl EXCEPT ![c].pc = "reading", ![c].shares = TRUE]
        /\ UNCHANGED entry
  /\ UNCHANGED <<load, ctr, slots, reads, ctxDone, db, faults>>

\* The rest of unwrap: the error of the producer, or a clone, and the idle timer starts again
\* (once the original is stopped the timer has nothing left to do, so that is left out).
\* A client whose producer failed takes its own item out of the map; the counter stays.
Unwrap(c) ==
  /\ cl[c].pc = "unwrap"
  /\ LET i == cl[c].item IN
     \/ /\ item[i].st = "failed"
        /\ entry' = [entry EXCEPT ![Op(c)] = IF @ = c THEN None ELSE @]
        /\ Finish(c, "error")
        /\ UNCHANGED item
     \/ /\ item[i].st = "ready" /\ item[i].stopped
        /\ Goto(c, "inner")
        /\ UNCHANGED <<entry, item>>
     \/ /\ item[i].st = "ready" /\ ~item[i].stopped
        /\ item' = [item EXCEPT ![i] = clone(@)]
        /\ cl' = [cl EXCEPT ![c].pc = "reading", ![c].shares = TRUE]
        /\ UNCHANGED entry
  /\ UNCHANGED <<load, ctr, slots, reads, ctxDone, db, faults>>

-----------------------------------------------------------------------------
(* BoundedTupleReader: bound, the read, done.  owner is the client whose   *)
(* reader and context the read has.                                        *)

Owner(c) == IF cl[c].pc \in {"open", "openThrottled", "openRead"} THEN cl[c].item ELSE c

WaitPc == {"open", "inner"}
ReadPc(pc) == IF pc \in {"open", "openThrottled"} THEN "openRead" ELSE "innerRead"
ThrottledPc(pc) == IF pc = "open" THEN "openThrottled" ELSE "innerThrottled"

\* The read failed: the producer's error stays with the item.
ReadFails(c) ==
  IF Owner(c) = c /\ cl[c].pc \in {"inner", "innerThrottled", "innerRead"}
  THEN Finish(c, "error") /\ UNCHANGED item
  ELSE Goto(c, "unwrap") /\ item' = [item EXCEPT ![cl[c].item].st = "failed"]

\* Mutant: the limiter has one place too many.
Mutbound(c) ==
  /\ cl[c].pc \in WaitPc
  /\ LET r == Request(Owner(c)) IN
     \/ /\ Owner(c) \in ctxDone
        /\ ReadFails(c)
        /\ UNCHANGED <<slots, reads>>
     \/ /\ Cardinality(slots[r]) <= Concurrency
        /\ slots' = [slots EXCEPT ![r] = @ \cup {c}]
        /\ reads' = [reads EXCEPT ![r] = @ + 1]
        /\ Goto(c, IF reads[r] + 1 > Threshold THEN ThrottledPc(cl[c].pc) ELSE ReadPc(cl[c].pc))
        /\ UNCHANGED item
  /\ UNCHANGED <<load, entry, ctr, ctxDone, db, faults>>

\* waitForLimiter and the throttle: a place in the limiter, or the end of the context.
bound(c) ==
  /\ cl[c].pc \in WaitPc
  /\ LET r == Request(Owner(c)) IN
     \/ /\ Owner(c) \in ctxDone
        /\ ReadFails(c)
        /\ UNCHANGED <<slots, reads>>
     \/ /\ Cardinality(slots[r]) < Concurrency
        /\ slots' = [slots EXCEPT ![r] = @ \cup {c}]
        /\ reads' = [reads EXCEPT ![r] = @ + 1]
        /\ Goto(c, IF reads[r] + 1 > Threshold THEN ThrottledPc(cl[c].pc) ELSE ReadPc(cl[c].pc))
        /\ UNCHANGED item
  /\ UNCHANGED <<load, entry, ctr, ctxDone, db, faults>>

Release(c) == slots' = [slots EXCEPT ![Request(Owner(c))] = @ \ {c}]

\* The throttled wait keeps its place; a context that ends gives it back.
Throttled(c) ==
  /\ cl[c].pc \in {"openThrottled", "innerThrottled"}
  /\ \/ Goto(c, ReadPc(cl[c].pc)) /\ UNCHANGED <<item, slots>>
     \/ Owner(c) \in ctxDone /\ Release(c) /\ ReadFails(c)
  /\ UNCHANGED <<load, entry, ctr, reads, ctxDone, db, faults>>

\* The original instance of a new iterator, with its two timers.
newSharedIterator(it) ==
  [it EXCEPT !.st = "ready", !.refs = 1, !.rowsOpen = TRUE, !.admission = "armed", !.idle = "armed"]

\* The datastore is asked and the place given back (done).  The iterator of a producer is
\* wrapped, with the timers set; a bypassing client reads its own rows.
InnerRead(c) ==
  /\ cl[c].pc \in {"openRead", "innerRead"}
  /\ Release(c)
  /\ \/ faults > 0 /\ faults' = faults - 1 /\ ReadFails(c)
     \/ /\ UNCHANGED faults
        /\ IF cl[c].pc = "innerRead"
           THEN /\ cl' = [cl EXCEPT ![c].pc = "stop", ![c].res = "done", ![c].ver = db,
                                    ![c].got = [n \in 1..Rows |-> n]]
                /\ UNCHANGED item
           ELSE /\ item' = [item EXCEPT ![cl[c].item] = newSharedIterator(@)]
                /\ Goto(c, "unwrap")
  /\ UNCHANGED <<load, entry, ctr, reads, ctxDone, db>>

-----------------------------------------------------------------------------
(* sharedIterator *)

\* Mutant: the end of the shared state is reported before its items are used up.
MutNextItem(c) ==
  /\ cl[c].pc = "reading"
  /\ LET i == cl[c].item IN
     \/ /\ c \in ctxDone
        /\ Finish(c, "error")
        /\ UNCHANGED item
     \/ /\ cl[c].head < Len(item[i].items) /\ item[i].err = "none"
        /\ cl' = [cl EXCEPT ![c].head = @ + 1, ![c].ver = item[i].ver,
                            ![c].got = Append(@, item[i].items[cl[c].head + 1])]
        /\ UNCHANGED item
     \/ /\ item[i].err # "none"
        /\ Finish(c, IF item[i].err = "done" THEN "done" ELSE "error")
        /\ UNCHANGED item
     \/ /\ cl[c].head >= Len(item[i].items) /\ item[i].err = "none"
        /\ item[i].fetching = None
        /\ item' = [item EXCEPT ![i].fetching = c]
        /\ Goto(c, "fetching")
  /\ UNCHANGED <<load, entry, ctr, slots, reads, ctxDone, db, faults>>

\* currentLocked and Next: the item at the head, the error once the items are used up, or a
\* fetch (await.Do) that one client makes while the others wait.
NextItem(c) ==
  /\ cl[c].pc = "reading"
  /\ LET i == cl[c].item IN
     \/ /\ c \in ctxDone
        /\ Finish(c, "error")
        /\ UNCHANGED item
     \/ /\ cl[c].head < Len(item[i].items)
        /\ cl' = [cl EXCEPT ![c].head = @ + 1, ![c].ver = item[i].ver,
                            ![c].got = Append(@, item[i].items[cl[c].head + 1])]
        /\ UNCHANGED item
     \/ /\ cl[c].head >= Len(item[i].items) /\ item[i].err # "none"
        /\ Finish(c, IF item[i].err = "done" THEN "done" ELSE "error")
        /\ UNCHANGED item
     \/ /\ cl[c].head >= Len(item[i].items) /\ item[i].err = "none"
        /\ item[i].fetching = None
        /\ item' = [item EXCEPT ![i].fetching = c]
        /\ Goto(c, "fetching")
  /\ UNCHANGED <<load, entry, ctr, slots, reads, ctxDone, db, faults>>

Smaller(a, b) == IF a < b THEN a ELSE b

\* fetchMore: the next rows are appended, with the error that cut them short.  The query runs
\* at the first of them.
fetchMore(c) ==
  /\ cl[c].pc = "fetching"
  /\ LET i == cl[c].item
         to == Smaller(item[i].pos + BufferSize, Rows)
         base == [item[i] EXCEPT !.fetching = None, !.ver = IF @ = None THEN db ELSE @]
         read == [base EXCEPT !.pos = to,
                              !.items = @ \o [n \in 1..(to - item[i].pos) |-> item[i].pos + n]]
     IN \/ /\ item' = [item EXCEPT ![i] =
                         IF item[i].pos + BufferSize > Rows THEN [read EXCEPT !.err = "done"] ELSE read]
           /\ UNCHANGED faults
        \/ /\ faults > 0 /\ faults' = faults - 1
           /\ item' = [item EXCEPT ![i] = [base EXCEPT !.err = "err"]]
  /\ Goto(c, "reading")
  /\ UNCHANGED <<load, entry, ctr, slots, reads, ctxDone, db>>

\* A consumer that has enough.
Leave(c) ==
  /\ cl[c].pc = "reading" /\ load.client[c].leaves
  /\ Finish(c, "left")
  /\ UNCHANGED <<load, entry, ctr, item, slots, reads, ctxDone, db, faults>>

\* Stop of an instance: the last one stops the iterator below, and nobody can look at what it
\* had read any more.
Unreferenced(it) ==
  IF it.refs > 1 THEN [it EXCEPT !.refs = @ - 1]
  ELSE [it EXCEPT !.refs = 0, !.rowsOpen = FALSE, !.items = <<>>, !.pos = 0, !.ver = None]

\* The client is done, and stops its iterator if it has one.
Stop(c) ==
  /\ cl[c].pc = "stop"
  /\ item' = IF cl[c].shares THEN [item EXCEPT ![cl[c].item] = Unreferenced(@)] ELSE item
  /\ cl' = [cl EXCEPT ![c] = NewClient("finished")]
  /\ UNCHANGED <<load, entry, ctr, slots, reads, ctxDone, db, faults>>

-----------------------------------------------------------------------------
(* The timers of an item *)

\* The timer that acts stops the original instance, and then takes the item out of the map.
TimerStop(it) == [(IF it.stopped THEN it ELSE Unreferenced(it)) EXCEPT !.stopped = TRUE, !.timer = "cleanup"]

AdmissionTimer(i) ==
  /\ item[i].admission = "armed"
  /\ item' = [item EXCEPT ![i] = [TimerStop(@) EXCEPT !.admission = "off"]]
  /\ UNCHANGED <<load, entry, ctr, cl, slots, reads, ctxDone, db, faults>>

\* The idle timer acts only if it stops the admission timer.
IdleTimer(i) ==
  /\ item[i].idle = "armed"
  /\ item' = [item EXCEPT ![i] = IF @.admission = "armed"
                                  THEN [TimerStop(@) EXCEPT !.admission = "off", !.idle = "off"]
                                  ELSE [@ EXCEPT !.idle = "off"]]
  /\ UNCHANGED <<load, entry, ctr, cl, slots, reads, ctxDone, db, faults>>

\* Mutant: the item stays in the map.
Mutcleanup(i) ==
  /\ item[i].timer = "cleanup"
  /\ item' = [item EXCEPT ![i].timer = "off", ![i].expired = TRUE]
  /\ UNCHANGED <<load, entry, ctr, cl, slots, reads, ctxDone, db, faults>>

cleanup(i) ==
  /\ item[i].timer = "cleanup"
  /\ item' = [item EXCEPT ![i].timer = "off", ![i].expired = TRUE]
  /\ IF entry[Op(i)] = i
     THEN entry' = [entry EXCEPT ![Op(i)] = None] /\ ctr' = ctr - 1
     ELSE UNCHANGED <<entry, ctr>>
  /\ UNCHANGED <<load, cl, slots, reads, ctxDone, db, faults>>

-----------------------------------------------------------------------------
Cancel(c) ==
  /\ c \in Active /\ load.client[c].cancels /\ c \notin ctxDone /\ cl[c].pc # "finished"
  /\ ctxDone' = ctxDone \cup {c}
  /\ UNCHANGED <<load, entry, ctr, item, cl, slots, reads, db, faults>>

Write ==
  /\ load.writes /\ db < MaxVersion
  /\ db' = db + 1
  /\ UNCHANGED <<load, entry, ctr, item, cl, slots, reads, ctxDone, faults>>

ClientStep(c) ==
  \/ (c \in Active /\ (Read(c) \/ ReadUsersetTuples(c) \/ ReadStartingWithUser(c)))
  \/ LoadOrStore(c)\/ Produce(c) \/ Unwrap(c)
  \/ bound(c) \/ Throttled(c) \/ InnerRead(c)
  \/ NextItem(c) \/ fetchMore(c) \/ Stop(c)

TimerStep(i) == AdmissionTimer(i) \/ IdleTimer(i) \/ cleanup(i)

Run == (\E c \in Clients : ClientStep(c)) \/ (\E i \in Items : TimerStep(i))
Outside == (\E c \in Clients : Leave(c) \/ Cancel(c)) \/ Write
Next == Run \/ Outside

Spec == Init /\ [][Next]_vars

\* Goroutines run and timers fire; every step is progress of one of them.
FairSpec == Spec /\ WF_vars(Run)

-----------------------------------------------------------------------------
(* Properties *)

Failed(i) == item[i].st = "failed" \/ item[i].err = "err"

\* Every client of a shared iterator gets the rows of one database version, each once and in
\* order, and its end only after the last of them, however the clones, the fetches and the
\* timers interleave.  A client fails only with its own context, a read of its own or the
\* iterator it shares: fetchMore appends for all, currentLocked keeps a head for each.
SharedReadsExact ==
  \A c \in Clients :
    /\ cl[c].got = [n \in 1..Len(cl[c].got) |-> n]
    /\ cl[c].res = "done" => Len(cl[c].got) = Rows
    /\ cl[c].res = "error" => c \in ctxDone \/ faults < load.faults
                              \/ (cl[c].item # None /\ Failed(cl[c].item))

Live(i) == {c \in Clients : cl[c].item = i /\ cl[c].shares}

\* The reference count of sharedIterator is the number of instances not stopped, the rows are
\* open exactly while there is one, and a fetch never meets stopped rows.
RowsReleased ==
  \A i \in Items :
    item[i].st = "ready" =>
      /\ item[i].refs = Cardinality(Live(i)) + (IF item[i].stopped THEN 0 ELSE 1)
      /\ item[i].rowsOpen <=> item[i].refs > 0
      /\ item[i].fetching # None => item[i].rowsOpen

\* A client is never given an iterator whose timer had taken it out before the client asked
\* (maxAdmissionTime bounds staleness), and one that asks for higher consistency reads a
\* version no older than its request.
StalenessBounded ==
  \A c \in Clients :
    cl[c].got # <<>> => /\ cl[c].item \notin cl[c].began.expired
                        /\ load.client[c].higher => cl[c].ver >= cl[c].began.ver

\* The reads a request has in the datastore stay within the limiter of its BoundedTupleReader.
BoundHolds ==
  \A r \in Requests :
    /\ Cardinality(slots[r]) <= Concurrency
    /\ slots[r] = {c \in Clients : /\ cl[c].pc \in {"openThrottled", "openRead", "innerThrottled", "innerRead"}
                                   /\ Request(Owner(c)) = r}

\* Every read is answered, every iterator below is stopped, every place in a limiter is given
\* back and no item is left in the map.
Ended ==
  /\ \A c \in Clients : cl[c].pc = "finished"
  /\ \A i \in Items : ~item[i].rowsOpen
  /\ \A r \in Requests : slots[r] = {}
  /\ \A op \in Ops : entry[op] = None

=============================================================================
