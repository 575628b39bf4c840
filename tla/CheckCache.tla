----------------------------- MODULE CheckCache -----------------------------
(***************************************************************************)
(* The caches of Check for one store: the iterator cache of the datastore  *)
(* wrappers (CachedDatastore, and CachedTupleReader for the weighted-graph *)
(* resolver), the query cache of CachedCheckResolver, and the              *)
(* InMemoryCacheController that invalidates both from the changelog. All   *)
(* of them share one in-memory cache whose entries expire.                 *)
(*                                                                         *)
(* Time is a counter. A step whose code takes a timestamp that is later    *)
(* compared (Stamp) advances it, so such timestamps are distinct; Tick     *)
(* lets time pass in between. The contents of an iterator are identified   *)
(* by the length of the changelog when it was read, its snapshot.          *)
(***************************************************************************)
EXTENDS Integers, Sequences, FiniteSets, FiniteSetsExt

CONSTANTS
  Tuples,       \* records [object, type, relation, user]
  Keys,         \* what an iterator is cached for, see Matches
  Reqs,         \* request goroutines
  IteratorTTL, QueryTTL, MinInterval, \* minInvalidationInterval
  Jitter,       \* largest jitter JitteredTTL adds
  PageSize,     \* storage.DefaultPageSize
  MaxResults,   \* maxResultSize of V1, maxSize of V2
  Eager,        \* whether the datastore takes its snapshot when the iterator
                \* is created (memory) or at its first Next (SQL)
  Grain,        \* resolution of the changelog's timestamps
  Settings,     \* see conf
  MaxTime, MaxWrites, MaxDrains, \* bounds
  None

ASSUME CheckCacheAssumption ==
  /\ {IteratorTTL, QueryTTL, PageSize, MaxResults, Grain} \subseteq Nat \ {0}
  /\ {MinInterval, Jitter, MaxTime, MaxWrites, MaxDrains} \subseteq Nat
  /\ Eager \in BOOLEAN
  /\ Settings \subseteq 
       [v2 : BOOLEAN, queries : BOOLEAN, iterators : BOOLEAN, listObjects : BOOLEAN,
        keys : SUBSET Keys, preferences : SUBSET BOOLEAN]

(* No entry is not an entry. *)
ASSUME NoneAssumption == None \notin [lm : Nat, exp : Nat]

VARIABLES
  now,
  conf,         \* whether the server runs the weighted-graph resolver (v2),
                \* which caches are enabled, and what the requests ask for
  log,          \* changelog, oldest first: [tuple, ts, at]; at is the true time
  changelog,    \* ChangelogCacheEntry or None
  whole,        \* LastModified of the store's InvalidEntityCacheEntry or 0
  marker,       \* the InvalidEntityCacheEntry of an entity or None
  iter,         \* the cached iterator of a key or None
  query,        \* the cached Check response of a key or None
  ctl,          \* the controller's goroutine
  done,         \* changes a completed invalidation has seen
  req,          \* the requests
  drains        \* the goroutines of stopped iterators

caches == <<changelog, whole, marker, iter, query>>
vars == <<now, conf, log, caches, ctl, done, req, drains>>

----------------------------------------------------------------------------
(* Keys and invalidation keys.                                             *)

(* A key asks for one object and relation (Read, ReadUsersetTuples) or for *)
(* the objects of a type some users have a relation to                     *)
(* (ReadStartingWithUser).                                                 *)
Matches(t, k) ==
  /\ t.relation = k.relation
  /\ \/ k.op = "object" /\ t.object = k.object
     \/ k.op = "user" /\ t.type = k.type /\ t.user \in k.users

ByObjectRelation(o, r) == <<"OR", o, r>>
ByUserObjectType(u, t) == <<"UOT", u, t>>

(* What the controller marks for a change, in the order it does.           *)
Marks(t) == <<ByObjectRelation(t.object, t.relation), ByUserObjectType(t.user, t.type)>>

(* What a reader of k looks at.                                            *)
InvalidEntityKeys(k) ==
  IF k.op = "object" THEN {ByObjectRelation(k.object, k.relation)}
                     ELSE {ByUserObjectType(u, k.type) : u \in k.users}

Markers == (UNION {{Marks(t)[1], Marks(t)[2]} : t \in Tuples})
             \cup (UNION {InvalidEntityKeys(k) : k \in Keys})

(* A write adds an absent tuple and removes a present one.                 *)
Present(t, s) == Cardinality({w \in 1..s : log[w].tuple = t}) % 2 = 1
Results(k, s) == {t \in Tuples : Matches(t, k) /\ Present(t, s)}

(* Expired entries leave the cache, see Stamp.                             *)
Live(e) == e # None

IsInvalidAt(ts, k) ==
  \/ ts < whole
  \/ \E m \in InvalidEntityKeys(k) : Live(marker[m]) /\ ts < marker[m].lm

(* findInCache and tryGetFromCache return the entry.                       *)
Found(k) == Live(iter[k]) /\ ~IsInvalidAt(iter[k].lm, k)

(* The entry they delete otherwise.                                        *)
AfterFind(k) == IF Live(iter[k]) /\ ~Found(k) THEN [iter EXCEPT ![k] = None] ELSE iter

----------------------------------------------------------------------------
Idle == [pc |-> "idle"]

Init ==
  /\ now = 0 /\ conf \in Settings /\ log = <<>>
  /\ changelog = None /\ whole = 0 /\ marker = [m \in Markers |-> None]
  /\ iter = [k \in Keys |-> None] /\ query = [k \in Keys |-> None]
  /\ ctl = Idle /\ done = 0
  /\ req = [r \in Reqs |-> Idle] /\ drains = {}

Unexpired(e) == IF e # None /\ e.exp <= now + 1 THEN None ELSE e
Queries == [k \in Keys |-> Unexpired(query[k])]

Stamp ==
  /\ now < MaxTime /\ now' = now + 1
  /\ changelog' = Unexpired(changelog)
  /\ marker' = [m \in Markers |-> Unexpired(marker[m])]
  /\ iter' = [k \in Keys |-> Unexpired(iter[k])]

Tick == Stamp /\ query' = Queries /\ UNCHANGED <<conf, log, whole, ctl, done, req, drains>>

(* A committed write: the datastore stamps the change.                     *)
Write(t) ==
  /\ Len(log) < MaxWrites /\ Stamp /\ query' = Queries
  /\ log' = Append(log, [tuple |-> t, ts |-> Grain * (now' \div Grain), at |-> now'])
  /\ UNCHANGED <<conf, whole, ctl, done, req, drains>>

----------------------------------------------------------------------------
(* The controller.                                                         *)

(* InvalidateIfNeeded: one goroutine at a time.                            *)
InvalidateIfNeeded == ctl' = IF ctl.pc = "idle" THEN [pc |-> "get"] ELSE ctl

(* A ListObjects request starts one regardless of the interval.            *)
ListObjects ==
  /\ conf.listObjects /\ ctl.pc = "idle" /\ InvalidateIfNeeded
  /\ UNCHANGED <<now, conf, log, caches, done, req, drains>>

GetChangelog ==
  /\ ctl.pc = "get"
  /\ ctl' = [pc |-> "read", cached |-> IF Live(changelog) THEN changelog.lm ELSE 0]
  /\ UNCHANGED <<now, conf, log, caches, done, req, drains>>

ReadChanges ==
  /\ ctl.pc = "read" /\ log # <<>>
  /\ ctl' = [pc |-> "set", cached |-> ctl.cached, seen |-> Len(log)]
  /\ UNCHANGED <<now, conf, log, caches, done, req, drains>>

(* ReadChanges fails; it also does when the store has no changes.          *)
ReadChangesFails ==
  /\ ctl.pc = "read" /\ Stamp
  /\ query' = Queries /\ whole' = now' /\ ctl' = Idle
  /\ UNCHANGED <<conf, log, done, req, drains>>

ReadChangesTimesOut ==
  /\ ctl.pc = "read" /\ ctl' = Idle
  /\ UNCHANGED <<now, conf, log, caches, done, req, drains>>

End(seen) == ctl' = Idle /\ done' = Max({done, seen})

(* Mutant: a known changelog is taken for an unchanged one. *)
SetChangelogOnce ==
  /\ ctl.pc = "set"
  /\ changelog' = [lm |-> log[ctl.seen].ts, checked |-> now, exp |-> now + QueryTTL, seen |-> ctl.seen]
  /\ IF ctl.cached = 0
       THEN ctl' = [pc |-> "mark", seen |-> ctl.seen] /\ UNCHANGED done
       ELSE End(ctl.seen)
  /\ UNCHANGED <<now, conf, log, whole, marker, iter, query, req, drains>>

SetChangelog ==
  LET actual == log[ctl.seen].ts IN
  /\ ctl.pc = "set"
  /\ changelog' = [lm |-> actual, checked |-> now, exp |-> now + QueryTTL, seen |-> ctl.seen]
  /\ IF actual > ctl.cached
       THEN ctl' = [pc |-> "mark", seen |-> ctl.seen] /\ UNCHANGED done
       ELSE End(ctl.seen)
  /\ UNCHANGED <<now, conf, log, whole, marker, iter, query, req, drains>>

(* The page ReadChanges returned, and its changes within the TTL.          *)
Page(seen) == Max({1, seen - PageSize + 1}) .. seen
(* Mutant: the controller's TTL is half that of the iterators. *)
RecentShort(seen, time) == {w \in Page(seen) : log[w].ts > time - IteratorTTL \div 2}

Recent(seen, time) == {w \in Page(seen) : log[w].ts > time - IteratorTTL}

(* All changes of the page are recent: there may be more, so everything is *)
(* invalidated.                                                            *)
MarkStore ==
  /\ ctl.pc = "mark" /\ Stamp
  /\ Recent(ctl.seen, now') = Page(ctl.seen)
  /\ query' = Queries /\ whole' = now' /\ End(ctl.seen)
  /\ UNCHANGED <<conf, log, req, drains>>

MarkSome ==
  LET recent == Recent(ctl.seen, now') IN
  /\ ctl.pc = "mark" /\ Stamp /\ query' = Queries /\ recent # Page(ctl.seen)
  /\ IF recent = {} THEN End(ctl.seen)
       ELSE \E first \in recent :
              /\ \A w \in recent : first <= w
              /\ ctl' = [pc |-> "entity", seen |-> ctl.seen, lm |-> now', next |-> first, mark |-> 1]
              /\ UNCHANGED done
  /\ UNCHANGED <<conf, log, whole, req, drains>>

(* The markers of the recent changes are set one by one.                   *)
MarkEntity ==
  LET m == Marks(log[ctl.next].tuple)[ctl.mark] IN
  /\ ctl.pc = "entity"
  /\ marker' = [marker EXCEPT ![m] = [lm |-> ctl.lm, exp |-> now + IteratorTTL]]
  /\ IF ctl.mark = 1 THEN ctl' = [ctl EXCEPT !.mark = 2] /\ UNCHANGED done
       ELSE IF ctl.next < ctl.seen
         THEN ctl' = [ctl EXCEPT !.mark = 1, !.next = @ + 1] /\ UNCHANGED done
         ELSE End(ctl.seen)
  /\ UNCHANGED <<now, conf, log, changelog, whole, iter, query, req, drains>>

----------------------------------------------------------------------------
(* A Check request: DetermineInvalidationTime, the query cache, the        *)
(* iterator cache, the datastore, and the query cache again.               *)

(* Mutant: higher consistency skips the query cache only. *)
BeginCached(r, k, high) ==
  LET cached == Live(changelog) /\ ~high IN
  /\ req[r].pc = "idle" /\ Cardinality(drains) < MaxDrains
  /\ req' = [req EXCEPT ![r] =
       [pc |-> IF high THEN "iter" ELSE "query", key |-> k, high |-> high,
        inv |-> IF cached THEN changelog.lm ELSE 0,
        known |-> IF cached THEN changelog.seen ELSE 0,
        done |-> done, committed |-> IF high THEN Len(log) ELSE 0]]
  /\ IF ~high /\ (~cached \/ now - changelog.checked > MinInterval)
       THEN InvalidateIfNeeded ELSE UNCHANGED ctl
  /\ UNCHANGED <<now, conf, log, caches, done, drains>>

Begin(r, k, high) ==
  LET cached == Live(changelog) /\ ~high IN
  /\ req[r].pc = "idle" /\ Cardinality(drains) < MaxDrains
  /\ req' = [req EXCEPT ![r] =
       [pc |-> IF high THEN "open" ELSE "query", key |-> k, high |-> high,
        inv |-> IF cached THEN changelog.lm ELSE 0,
        known |-> IF cached THEN changelog.seen ELSE 0,
        done |-> done, committed |-> IF high THEN Len(log) ELSE 0]]
  /\ IF ~high /\ (~cached \/ now - changelog.checked > MinInterval)
       THEN InvalidateIfNeeded ELSE UNCHANGED ctl
  /\ UNCHANGED <<now, conf, log, caches, done, drains>>

(* Mutant: the invalidation time is ignored. *)
QueryHitAny(r) == Live(query[req[r].key])

QueryHit(r) == LET e == query[req[r].key] IN Live(e) /\ e.lm > req[r].inv

Narrowed(r, pc) ==
  [pc |-> pc, key |-> req[r].key, high |-> req[r].high, done |-> req[r].done,
   committed |-> req[r].committed]

LookUpQuery(r) ==
  /\ req[r].pc = "query"
  /\ req' = [req EXCEPT ![r] =
       IF QueryHit(r) THEN Idle ELSE Narrowed(r, IF conf.iterators THEN "iter" ELSE "open")]
  /\ UNCHANGED <<now, conf, log, caches, ctl, done, drains>>

(* JitteredTTL; the weighted-graph resolver's caches have none.            *)
LargestJitter == IF conf.v2 THEN 0 ELSE Jitter

Answered(r, snap, flushed) ==
  [pc |-> "answer", key |-> req[r].key, high |-> req[r].high, done |-> req[r].done,
   committed |-> req[r].committed, snap |-> snap, flushed |-> flushed]

LookUpIterator(r) ==
  LET k == req[r].key IN
  /\ req[r].pc = "iter"
  /\ iter' = AfterFind(k)
  /\ req' = [req EXCEPT ![r] = IF Found(k) THEN Answered(r, iter[k].snap, iter[k].flushed)
                                           ELSE [@ EXCEPT !.pc = "open"]]
  /\ UNCHANGED <<now, conf, log, changelog, whole, marker, query, ctl, done, drains>>

(* The datastore creates the iterator.                                     *)
Open(r) ==
  /\ req[r].pc = "open"
  /\ req' = [req EXCEPT ![r] =
       [pc |-> "opened", key |-> @.key, high |-> @.high, done |-> @.done,
        committed |-> @.committed, snap |-> Len(log)]]
  /\ UNCHANGED <<now, conf, log, caches, ctl, done, drains>>

Wrapped(r) == conf.iterators /\ ~req[r].high

(* The wrapper takes its timestamp (initializedAt, createdAt) once the     *)
(* datastore has returned; a request for higher consistency goes past it.  *)
Wrap(r) ==
  /\ req[r].pc = "opened" /\ Wrapped(r) /\ Stamp /\ query' = Queries
  /\ req' = [req EXCEPT ![r] =
       [pc |-> "next", key |-> @.key, high |-> @.high, done |-> @.done,
        committed |-> @.committed, snap |-> @.snap, init |-> now']]
  /\ UNCHANGED <<conf, log, whole, ctl, done, drains>>

Snapshot(r) == IF Eager THEN req[r].snap ELSE Len(log)

(* The request reads what it needs and stops the iterator.                 *)
Consume(r) ==
  LET snap == Snapshot(r) IN
  /\ req[r].pc = "next" \/ (req[r].pc = "opened" /\ ~Wrapped(r))
  /\ drains' = IF ~Wrapped(r) THEN drains ELSE
       drains \cup {[pc |-> "check", key |-> req[r].key, init |-> req[r].init, snap |-> snap]}
  /\ req' = [req EXCEPT ![r] = Answered(r, snap, 0)]
  /\ UNCHANGED <<now, conf, log, caches, ctl, done>>

(* The read fails: the iterator is not cached and Check returns the error. *)
ReadFails(r) ==
  /\ req[r].pc \in {"next", "opened"}
  /\ req' = [req EXCEPT ![r] = Idle]
  /\ UNCHANGED <<now, conf, log, caches, ctl, done, drains>>

(* The response is cached, also that of a request for higher consistency.  *)
CacheQuery(r) ==
  /\ req[r].pc = "answer" /\ conf.queries /\ Stamp
  /\ \E j \in 0..LargestJitter :
       query' = [Queries EXCEPT ![req[r].key] =
         [snap |-> req[r].snap, lm |-> now', exp |-> now' + QueryTTL + j,
          done |-> req[r].done, flushed |-> req[r].flushed]]
  /\ req' = [req EXCEPT ![r] = Idle]
  /\ UNCHANGED <<conf, log, whole, ctl, done, drains>>

(* The query cache is disabled, or a cycle was detected.                   *)
Respond(r) ==
  /\ req[r].pc = "answer"
  /\ req' = [req EXCEPT ![r] = Idle]
  /\ UNCHANGED <<now, conf, log, caches, ctl, done, drains>>

----------------------------------------------------------------------------
(* The goroutine of a stopped iterator.                                    *)

Cacheable(d) == LET n == Cardinality(Results(d.key, d.snap)) IN
  IF conf.v2 THEN 0 < n /\ n <= MaxResults ELSE n < MaxResults

(* V1 looks for a valid entry and for an invalidation after the query; V2  *)
(* for any entry.                                                          *)
DrainCheck(d) ==
  /\ d.pc = "check"
  /\ IF conf.v2 THEN UNCHANGED iter ELSE iter' = AfterFind(d.key)
  /\ drains' = (drains \ {d}) \cup
       (IF IF conf.v2 THEN Live(iter[d.key]) ELSE Found(d.key) \/ IsInvalidAt(d.init, d.key)
          THEN {} ELSE {[d EXCEPT !.pc = "flush"]})
  /\ UNCHANGED <<now, conf, log, changelog, whole, marker, query, ctl, done, req>>

(* Mutant: the entry is stamped when it is stored. *)
FlushStamped(d) ==
  /\ d.pc = "flush" /\ Cacheable(d)
  /\ drains' = drains \ {d}
  /\ iter' = [iter EXCEPT ![d.key] =
       [snap |-> d.snap, lm |-> now, exp |-> now + IteratorTTL, flushed |-> now]]
  /\ UNCHANGED <<now, conf, log, changelog, whole, marker, query, ctl, done, req>>

Flush(d) ==
  /\ d.pc = "flush" /\ Cacheable(d)
  /\ drains' = drains \ {d}
  /\ \E j \in 0..LargestJitter :
       iter' = [iter EXCEPT ![d.key] =
         [snap |-> d.snap, lm |-> d.init, exp |-> now + IteratorTTL + j, flushed |-> now]]
  /\ UNCHANGED <<now, conf, log, changelog, whole, marker, query, ctl, done, req>>

(* Too many results, a failed or timed out drain, another drain of the key *)
(* in flight.                                                              *)
DrainDropped(d) ==
  /\ d.pc = "flush"
  /\ drains' = drains \ {d}
  /\ UNCHANGED <<now, conf, log, caches, ctl, done, req>>

Controller ==
  \/ ListObjects \/ GetChangelog \/ ReadChanges \/ ReadChangesFails
  \/ ReadChangesTimesOut \/ SetChangelog \/ MarkStore \/ MarkSome \/ MarkEntity

Request(r) ==
  \/ \E k \in conf.keys, high \in conf.preferences : Begin(r, k, high)
  \/ LookUpQuery(r) \/ LookUpIterator(r) \/ Open(r) \/ Wrap(r) \/ Consume(r)
  \/ ReadFails(r) \/ CacheQuery(r) \/ Respond(r)

Drain(d) == DrainCheck(d) \/ Flush(d) \/ DrainDropped(d)

Next ==
  \/ Tick
  \/ \E t \in Tuples : Write(t)
  \/ Controller
  \/ \E r \in Reqs : Request(r)
  \/ \E d \in drains : Drain(d)

Spec == Init /\ [][Next]_vars

----------------------------------------------------------------------------
(* Change w concerns key k, and a result with this snapshot does not have it. *)
Misses(k, snap, w) == snap < w /\ Matches(log[w].tuple, k)

(* An iterator that misses a write is not served for a TTL after the write, *)
(* once the controller has completed a run that saw the write: whether the *)
(* write was on the run's page, within the TTL or covered by an earlier    *)
(* run, and whenever the iterator was stored. Served later, when markers   *)
(* expire, is only what was stored after the write, or before it by less   *)
(* than the jitter, although anything older "would not live in the         *)
(* iterator cache anyway" (cache_controller.go:323). A datastore that      *)
(* takes its snapshot before the wrapper takes its timestamp is the        *)
(* exception, see StaleDetected.                                           *)
StaleGone ==
  \A k \in Keys : Found(k) =>
    \A w \in 1..done : Misses(k, iter[k].snap, w) =>
      /\ iter[k].flushed + LargestJitter > log[w].at
      /\ \/ log[w].at + IteratorTTL <= now
         \/ Eager /\ iter[k].lm > log[w].at

(* An iterator whose datastore query does not see a write is not served    *)
(* while the cache holds an invalidation made after the write, also when   *)
(* its goroutine stored it after the invalidation.                         *)
StaleDetected ==
  \A k \in Keys : Found(k) =>
    \A w \in 1..Len(log) : Misses(k, iter[k].snap, w) => ~IsInvalidAt(log[w].at, k)

(* A response computed by a request that began after a completed run saw a *)
(* write reflects the write, unless it was computed from an iterator a TTL *)
(* or more after the write, and the iterator was stored after the write or *)
(* before it by less than the jitter.                                      *)
RecomputedFresh ==
  \A k \in Keys : query[k] # None =>
    \A w \in 1..query[k].done : Misses(k, query[k].snap, w) =>
      /\ query[k].flushed > 0 /\ query[k].flushed + LargestJitter > log[w].at
      /\ Eager \/ log[w].at + IteratorTTL <= query[k].lm

(* No answer is older than its request allows: any write the request knows *)
(* of from the changelog entry invalidates all responses that were cached  *)
(* before it, and a request for higher consistency sees every write        *)
(* committed before it began, whatever the caches hold.                    *)
AnswersCurrent ==
  [][\A r \in Reqs : req'[r].pc = "idle" =>
       /\ req[r].pc = "query" => \A w \in 1..req[r].known : query[req[r].key].lm > log[w].at
       /\ req[r].pc = "answer" /\ req[r].high => req[r].snap >= req[r].committed]_vars
=============================================================================
