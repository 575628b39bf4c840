-------------------------- MODULE CheckCacheProofs --------------------------
(***************************************************************************)
(* Proofs about CheckCache, for every set of tuples, keys and requests,    *)
(* every page size, lifetime and invalidation interval, and any            *)
(* interleaving of writes, requests, draining goroutines and the           *)
(* controller: what the invalidation of the caches promises, with any      *)
(* jitter. The hypothesis Exact is what it takes: the changelog's          *)
(* timestamps are as fine as the clock.                                    *)
(*                                                                         *)
(* LateInv needs no hypothesis on the changelog: an iterator that misses a *)
(* write is stamped before the write, so that every marker made after the  *)
(* write tells it apart. The hypothesis there is that the datastore takes  *)
(* its snapshot no earlier than the first Next, as the SQL backends do.    *)
(* LateInv follows the timestamp of an iterator from the wrapper through   *)
(* the request and the draining goroutine into the cache.                  *)
(*                                                                         *)
(* CacheInv is the inductive invariant of the rest. Its heart is           *)
(* CoveredOK: a change that a completed run of the controller has seen is, *)
(* for a time-to-live, covered by a marker made after it, of the whole     *)
(* store or of an entity its readers look at. It is CtlOK that makes this  *)
(* inductive: it says how far a run that sets the markers one by one has   *)
(* come. With LateInv, no iterator that misses the change is served while  *)
(* it is covered, and responses are as fresh as the iterators and reads    *)
(* they were computed from (Fresh).                                        *)
(***************************************************************************)
EXTENDS CheckCache, TLAPS

(* The records of the changelog and of the caches.                         *)
Change == [tuple : Tuples, ts : Nat, at : Nat]
Marker == [lm : Nat, exp : Nat]
Iterator == [snap : Nat, lm : Nat, exp : Nat, flushed : Nat]
Response == [snap : Nat, lm : Nat, exp : Nat, done : Nat, flushed : Nat]
Checkpoint == [lm : Nat, checked : Nat, exp : Nat, seen : Nat]

(* The changelog: the writes have distinct times, none in the future.      *)
LogOK ==
  /\ now \in Nat /\ log \in Seq(Change) /\ done \in 0..Len(log) /\ conf \in Settings
  /\ \A w \in 1..Len(log) : log[w].ts = log[w].at /\ 0 < log[w].at /\ log[w].at <= now
  /\ \A v, w \in 1..Len(log) : v < w => log[v].at < log[w].at

(* The markers were set in the past, and live for the time-to-live of an   *)
(* iterator at most.                                                       *)
MarkerOK ==
  /\ whole \in Nat /\ whole <= now
  /\ marker \in [Markers -> Marker \cup {None}]
  /\ \A m \in Markers : marker[m] # None =>
       marker[m] \in Marker /\ marker[m].lm <= now /\ marker[m].exp <= now + IteratorTTL

(* A cached iterator has not expired, was stored in the past, and lives    *)
(* for its time-to-live and a jitter at most.                              *)
IterOK ==
  /\ iter \in [Keys -> Iterator \cup {None}]
  /\ \A k \in Keys : iter[k] # None =>
       /\ iter[k] \in Iterator /\ iter[k].snap <= Len(log)
       /\ 0 < iter[k].lm /\ iter[k].lm <= iter[k].flushed /\ iter[k].flushed <= now
       /\ now < iter[k].exp /\ iter[k].exp <= iter[k].flushed + IteratorTTL + LargestJitter

(* A draining goroutine took its timestamp and its snapshot in the past.   *)
DrainOK ==
  \A d \in drains :
    /\ d \in [pc : {"check", "flush"}, key : Keys, init : Nat, snap : Nat]
    /\ 0 < d.init /\ d.init <= now /\ d.snap <= Len(log)

(* Change w concerns key k and is younger than a time-to-live.             *)
Due(k, w) == Matches(log[w].tuple, k) /\ now < log[w].at + IteratorTTL

(* The readers of k are told of change w: the store was marked after it,   *)
(* or an entity they look at was, with a marker that lives until the       *)
(* change is a time-to-live old.                                           *)
Reached(k, w) ==
  \/ log[w].at < whole
  \/ \E m \in InvalidEntityKeys(k) :
       marker[m] # None /\ log[w].at < marker[m].lm /\ log[w].at + IteratorTTL <= marker[m].exp

(* The readers of k are told of change w as long as it is due.             *)
Covered(k, w) == Due(k, w) => Reached(k, w)

(* Completed runs of the controller have covered the changes they saw.     *)
CoveredOK == \A k \in Keys, w \in 1..done : Covered(k, w)

(* The changelog entry names a change that a completed run has seen, or    *)
(* the run under way is looking at.                                        *)
ChangelogOK ==
  changelog # None =>
    /\ changelog \in Checkpoint /\ changelog.seen \in 1..Len(log)
    /\ changelog.lm = log[changelog.seen].ts
    /\ IF ctl.pc \in {"mark", "entity"} THEN changelog.seen = ctl.seen ELSE changelog.seen <= done

(* A time the controller has read from the changelog entry.                *)
Known(c) == c = 0 \/ \E w \in 1..done : c = log[w].ts

(* What the run of the controller knows at each of its steps; while it     *)
(* sets markers, all changes before the next one are covered.              *)
CtlOK ==
  \/ ctl = Idle \/ ctl = [pc |-> "get"]
  \/ ctl \in [pc : {"read"}, cached : Nat] /\ Known(ctl.cached)
  \/ /\ ctl \in [pc : {"set"}, cached : Nat, seen : Nat]
     /\ Known(ctl.cached) /\ ctl.seen \in 1..Len(log)
  \/ ctl \in [pc : {"mark"}, seen : Nat] /\ ctl.seen \in 1..Len(log)
  \/ /\ ctl \in [pc : {"entity"}, seen : Nat, lm : Nat, next : Nat, mark : {1, 2}]
     /\ ctl.seen \in 1..Len(log) /\ ctl.next \in 1..ctl.seen
     /\ log[ctl.seen].at < ctl.lm /\ ctl.lm <= now
     /\ \A m \in Markers : marker[m] # None => marker[m].lm <= ctl.lm
     /\ \A k \in Keys : \A w \in 1..Len(log) :
          w < ctl.next \/ (w = ctl.next /\ ctl.mark = 2 /\ k.op = "object") => Covered(k, w)

(* A write at time at may be missed at time t by what came from an         *)
(* iterator that was stored at time flushed.                               *)
Late(at, flushed, jitter, t) ==
  /\ 0 < flushed /\ flushed + jitter > at
  /\ Eager \/ at + IteratorTTL <= t

(* A result for k computed by time t reflects the first d changes, except  *)
(* those the iterator it came from may miss.                               *)
Fresh(k, snap, flushed, d, t) ==
  \A w \in 1..d : Misses(k, snap, w) => Late(log[w].at, flushed, LargestJitter, t)

(* What a request knows at each of its steps.                              *)
ReqOK(r) ==
  \/ req[r] = Idle
  \/ /\ req[r].pc \in {"query", "iter", "open", "opened", "next", "answer"}
     /\ req[r].key \in Keys /\ req[r].high \in BOOLEAN
     /\ req[r].done \in 0..done /\ req[r].committed \in 0..Len(log)
     /\ req[r].high => req[r].pc \notin {"query", "iter"}
     /\ req[r].pc = "query" => req[r].known = 0 \/ (req[r].known \in 1..Len(log) /\ req[r].inv = log[req[r].known].at)
     /\ req[r].pc = "iter" => req[r] \in [pc : {"iter"}, key : Keys, high : BOOLEAN, done : Nat, committed : Nat]
     /\ req[r].pc \in {"opened", "next"} => req[r].snap \in req[r].done..Len(log)
     /\ req[r].pc \in {"opened", "next", "answer"} /\ req[r].high => req[r].committed <= req[r].snap
     /\ req[r].pc = "next" => req[r].init \in 1..now
     /\ req[r].pc = "answer" => /\ req[r].snap \in 0..Len(log) /\ req[r].flushed \in Nat
                           /\ Fresh(req[r].key, req[r].snap, req[r].flushed, req[r].done, now)

(* All requests.                                                           *)
RequestsOK == DOMAIN req = Reqs /\ \A r \in Reqs : ReqOK(r)

(* A cached response reflects the changes its request had to.              *)
QueryOK ==
  /\ query \in [Keys -> Response \cup {None}]
  /\ \A k \in Keys : query[k] # None =>
       /\ query[k] \in Response /\ query[k].done <= done
       /\ Fresh(k, query[k].snap, query[k].flushed, query[k].done, query[k].lm)

(* The inductive invariant.                                                *)
CacheInv ==
  /\ LogOK /\ MarkerOK /\ IterOK /\ DrainOK /\ CoveredOK /\ ChangelogOK /\ CtlOK
  /\ RequestsOK /\ QueryOK

-----------------------------------------------------------------------------
(* What the constants are.                                                 *)
LEMMA Constants ==
  /\ IteratorTTL \in Nat /\ 0 < IteratorTTL /\ QueryTTL \in Nat /\ Grain \in Nat /\ Jitter \in Nat
  /\ PageSize \in Nat /\ 0 < PageSize /\ MinInterval \in Nat
BY CheckCacheAssumption, SMT, SMTT(30)

(* A reader looks at markers only.                                         *)
LEMMA KeyMarkers ==
  ASSUME NEW k \in Keys
  PROVE  InvalidEntityKeys(k) \subseteq Markers
BY ZenonT(30) DEF Markers

(* The controller marks, for each change, an entity that every reader the  *)
(* change concerns looks at.                                               *)
LEMMA MarksReach ==
  ASSUME NEW t \in Tuples, NEW k \in Keys, Matches(t, k)
  PROVE  /\ Marks(t)[1] \in Markers /\ Marks(t)[2] \in Markers
         /\ \/ k.op = "object" /\ Marks(t)[1] \in InvalidEntityKeys(k)
            \/ k.op = "user" /\ Marks(t)[2] \in InvalidEntityKeys(k)
<1>1. Marks(t)[1] = ByObjectRelation(t.object, t.relation)
  BY ZenonT(30) DEF Marks
<1>2. Marks(t)[2] = ByUserObjectType(t.user, t.type)
  BY ZenonT(30) DEF Marks
<1> QED BY <1>1, <1>2, SMT, SMTT(30) DEF Matches, InvalidEntityKeys, Markers

(* The largest jitter is a number and does not change.                     *)
LEMMA JitterFacts ==
  /\ LargestJitter \in Nat
  /\ conf' = conf => LargestJitter' = LargestJitter
BY Constants, SMT, SMTT(30) DEF LargestJitter

(* The changelog stamps writes as finely as the clock.                     *)
Exact == Grain = 1

(* The changelog only grows, the configuration stays.                      *)
Prefix == conf' = conf /\ Len(log) <= Len(log') /\ \A w \in 1..Len(log) : log'[w] = log[w]

(* What happens when time advances: entries expire, nothing else.          *)
LEMMA StampFacts ==
  ASSUME CacheInv, Stamp
  PROVE  /\ now' = now + 1
         /\ iter' \in [Keys -> Iterator \cup {None}] /\ marker' \in [Markers -> Marker \cup {None}]
         /\ \A k \in Keys : iter'[k] # None => iter'[k] = iter[k] /\ now + 1 < iter[k].exp
         /\ \A m \in Markers : marker'[m] # None => marker'[m] = marker[m]
         /\ \A m \in Markers : marker[m] # None /\ now + 1 < marker[m].exp => marker'[m] = marker[m]
         /\ changelog' # None => changelog' = changelog
<1> USE DEF CacheInv
<1>1. now' = now + 1 /\ now \in Nat
  BY ZenonT(30) DEF Stamp, LogOK
<1>2. changelog' # None => changelog' = changelog
  BY ZenonT(30) DEF Stamp, Unexpired
<1>3. iter' = [k \in Keys |-> Unexpired(iter[k])] /\ marker' = [m \in Markers |-> Unexpired(marker[m])]
  BY ZenonT(30) DEF Stamp
<1>4. ASSUME NEW k \in Keys
      PROVE  /\ iter'[k] \in Iterator \cup {None}
             /\ iter'[k] # None => iter'[k] = iter[k] /\ now + 1 < iter[k].exp
  <2>1. iter[k] # None => iter[k].exp \in Nat
    BY ZenonT(30) DEF IterOK, Iterator
  <2> QED BY <1>1, <1>3, <2>1, SMT, SMTT(30) DEF IterOK, Unexpired
<1>5. ASSUME NEW m \in Markers
      PROVE  /\ marker'[m] \in Marker \cup {None}
             /\ marker'[m] # None => marker'[m] = marker[m]
             /\ marker[m] # None /\ now + 1 < marker[m].exp => marker'[m] = marker[m]
  <2>1. marker[m] # None => marker[m].exp \in Nat
    BY ZenonT(30) DEF MarkerOK, Marker
  <2> QED BY <1>1, <1>3, <2>1, SMT, SMTT(30) DEF MarkerOK, Unexpired
<1> QED BY <1>1, <1>2, <1>3, <1>4, <1>5, ZenonT(30)

(* A change is a record of the changelog.                                  *)
LEMMA LogType ==
  ASSUME LogOK
  PROVE  \A w \in 1..Len(log) : log[w].at \in Nat /\ log[w].ts \in Nat /\ log[w].tuple \in Tuples
<1> SUFFICES ASSUME NEW w \in 1..Len(log)
             PROVE  log[w] \in Change
  BY ZenonT(30) DEF Change
<1> QED BY SMT, SMTT(30) DEF LogOK

(* A covered change stays covered when time advances: a marker that        *)
(* expires does so no earlier than the change stops being due.             *)
LEMMA StampCovered ==
  ASSUME CacheInv, Stamp, Prefix, whole' \in Nat, whole <= whole',
         NEW k \in Keys, NEW w \in 1..Len(log), Covered(k, w)
  PROVE  Covered(k, w)'
<1> USE DEF CacheInv
<1> SUFFICES ASSUME Due(k, w)'
             PROVE  Reached(k, w)'
  BY ZenonT(30) DEF Covered
<1>1. log'[w] = log[w] /\ now' = now + 1
  BY StampFacts, ZenonT(30) DEF Prefix
<1>2. log[w].at \in Nat /\ now \in Nat /\ IteratorTTL \in Nat
  BY LogType, Constants, ZenonT(30) DEF LogOK
<1>3. now + 1 < log[w].at + IteratorTTL /\ Matches(log[w].tuple, k)
  BY <1>1, ZenonT(30) DEF Due
<1>4. Reached(k, w)
  <2>1. now < log[w].at + IteratorTTL
    BY <1>2, <1>3, SMT, SMTT(30)
  <2> QED BY <1>3, <2>1, ZenonT(30) DEF Covered, Due
<1>5. CASE log[w].at < whole
  <2>1. whole \in Nat
    BY ZenonT(30) DEF MarkerOK
  <2>2. log'[w].at < whole'
    BY <1>1, <1>2, <1>5, <2>1, SMT, SMTT(30)
  <2> QED BY <2>2, ZenonT(30) DEF Reached
<1>6. CASE ~(log[w].at < whole)
  <2>1. PICK m \in InvalidEntityKeys(k) :
          marker[m] # None /\ log[w].at < marker[m].lm /\ log[w].at + IteratorTTL <= marker[m].exp
    BY <1>4, <1>6, ZenonT(30) DEF Reached
  <2>2. m \in Markers
    BY KeyMarkers, ZenonT(30)
  <2>3. marker[m].exp \in Nat
    BY <2>1, <2>2, ZenonT(30) DEF MarkerOK, Marker
  <2>4. now + 1 < marker[m].exp
    BY <1>2, <1>3, <2>1, <2>3, SMT, SMTT(30)
  <2>5. marker'[m] = marker[m]
    BY <2>1, <2>2, <2>4, StampFacts, ZenonT(30)
  <2> QED BY <1>1, <2>1, <2>5, ZenonT(30) DEF Reached
<1> QED BY <1>5, <1>6, ZenonT(30)

(* Time advancing keeps what is said of markers and iterators.             *)
LEMMA StampKeeps ==
  ASSUME CacheInv, Stamp, Prefix, whole' \in Nat, whole <= whole', whole' <= now'
  PROVE  MarkerOK' /\ IterOK'
<1> USE DEF CacheInv
<1>1. now' = now + 1 /\ now \in Nat /\ IteratorTTL \in Nat
  BY StampFacts, Constants, ZenonT(30) DEF LogOK
<1>2. MarkerOK'
  <2>1. ASSUME NEW m \in Markers, marker'[m] # None
        PROVE  marker'[m] \in Marker /\ marker'[m].lm <= now' /\ marker'[m].exp <= now' + IteratorTTL
    <3>1. marker'[m] = marker[m] /\ marker[m] \in Marker
      BY <2>1, StampFacts, ZenonT(30) DEF MarkerOK
    <3>2. marker[m].lm <= now /\ marker[m].exp <= now + IteratorTTL /\ marker[m].lm \in Nat /\ marker[m].exp \in Nat
      BY <2>1, <3>1, ZenonT(30) DEF MarkerOK, Marker
    <3> QED BY <1>1, <3>1, <3>2, SMT, SMTT(30)
  <2> QED BY <2>1, StampFacts, ZenonT(30) DEF MarkerOK
<1>3. IterOK'
  <2>1. ASSUME NEW k \in Keys, iter'[k] # None
        PROVE  /\ iter'[k] \in Iterator /\ iter'[k].snap <= Len(log')
               /\ 0 < iter'[k].lm /\ iter'[k].lm <= iter'[k].flushed /\ iter'[k].flushed <= now'
               /\ now' < iter'[k].exp /\ iter'[k].exp <= iter'[k].flushed + IteratorTTL + LargestJitter'
    <3>1. iter'[k] = iter[k] /\ iter[k] # None /\ now + 1 < iter[k].exp /\ LargestJitter' = LargestJitter
      BY <2>1, StampFacts, JitterFacts, ZenonT(30) DEF Prefix
    <3>2. /\ iter[k] \in Iterator /\ iter[k].snap <= Len(log)
          /\ 0 < iter[k].lm /\ iter[k].lm <= iter[k].flushed /\ iter[k].flushed <= now
          /\ iter[k].exp <= iter[k].flushed + IteratorTTL + LargestJitter
      BY <3>1, ZenonT(30) DEF IterOK
    <3>3. iter[k].snap \in Nat /\ iter[k].flushed \in Nat /\ Len(log) \in Nat /\ Len(log') \in Int
      BY <3>2, SMT, SMTT(30) DEF Iterator, LogOK, Prefix
    <3> QED BY <1>1, <3>1, <3>2, <3>3, SMT, SMTT(30) DEF Prefix
  <2> QED BY <2>1, StampFacts, ZenonT(30) DEF IterOK
<1> QED BY <1>2, <1>3, ZenonT(30)

(* A change stays covered when markers are only replaced by later ones     *)
(* that live longer.                                                       *)
LEMMA CoveredKept ==
  ASSUME CacheInv, NEW k \in Keys, NEW w \in 1..Len(log), Covered(k, w), UNCHANGED <<now, log, whole>>,
         \A m \in Markers : marker[m] # None =>
           marker'[m] # None /\ marker[m].lm <= marker'[m].lm /\ marker[m].exp <= marker'[m].exp,
         marker' \in [Markers -> Marker \cup {None}]
  PROVE  Covered(k, w)'
<1> USE DEF CacheInv
<1> SUFFICES ASSUME Due(k, w)'
             PROVE  Reached(k, w)'
  BY ZenonT(30) DEF Covered
<1>1. Reached(k, w)
  BY ZenonT(30) DEF Covered, Due
<1>2. CASE log[w].at < whole
  BY <1>2, ZenonT(30) DEF Reached
<1>3. CASE ~(log[w].at < whole)
  <2>1. PICK m \in InvalidEntityKeys(k) :
          marker[m] # None /\ log[w].at < marker[m].lm /\ log[w].at + IteratorTTL <= marker[m].exp
    BY <1>1, <1>3, ZenonT(30) DEF Reached
  <2>2. m \in Markers
    BY KeyMarkers, ZenonT(30)
  <2>3. marker[m] \in Marker /\ marker'[m] # None /\ marker'[m] \in Marker
    BY <2>1, <2>2, ZenonT(30) DEF MarkerOK
  <2>4. /\ marker[m].exp \in Nat /\ marker[m].lm \in Nat /\ marker'[m].exp \in Nat /\ marker'[m].lm \in Nat
        /\ log[w].at \in Nat /\ IteratorTTL \in Nat
    BY <2>3, LogType, Constants, ZenonT(30) DEF Marker
  <2>5. marker'[m] # None /\ log[w].at < marker'[m].lm /\ log[w].at + IteratorTTL <= marker'[m].exp
    BY <2>1, <2>2, <2>3, <2>4, SMT, SMTT(30)
  <2>6. log' = log
    BY ZenonT(30)
  <2> QED BY <2>5, <2>6, ZenonT(30) DEF Reached
<1> QED BY <1>2, <1>3, ZenonT(30)

(* Draining goroutines a step leaves alone stay as described.              *)
LEMMA DrainFrame ==
  ASSUME CacheInv, Prefix, drains' \subseteq drains, now' \in Nat, now <= now', Len(log') \in Nat
  PROVE  DrainOK'
<1> SUFFICES ASSUME NEW d \in drains'
             PROVE  /\ d \in [pc : {"check", "flush"}, key : Keys, init : Nat, snap : Nat]
                    /\ 0 < d.init /\ d.init <= now' /\ d.snap <= Len(log')
  BY ZenonT(30) DEF DrainOK
<1>1. /\ d \in [pc : {"check", "flush"}, key : Keys, init : Nat, snap : Nat]
      /\ 0 < d.init /\ d.init <= now /\ d.snap <= Len(log)
  BY ZenonT(30) DEF CacheInv, DrainOK
<1>2. d.init \in Nat /\ d.snap \in Nat /\ now \in Nat /\ Len(log) \in Nat
  BY <1>1, SMT, SMTT(30) DEF CacheInv, LogOK
<1> QED BY <1>1, <1>2, SMT, SMTT(30) DEF Prefix

(* A fresh result stays fresh while time passes and the changelog grows.   *)
LEMMA FreshKept ==
  ASSUME CacheInv, Prefix, NEW k \in Keys, NEW snap, NEW flushed, NEW d \in 0..Len(log),
         NEW t \in Nat, NEW u \in Nat, t <= u, Fresh(k, snap, flushed, d, t)
  PROVE  \A w \in 1..d : snap < w /\ Matches(log'[w].tuple, k) => Late(log'[w].at, flushed, LargestJitter', u)
<1> SUFFICES ASSUME NEW w \in 1..d, snap < w, Matches(log'[w].tuple, k)
             PROVE  Late(log'[w].at, flushed, LargestJitter', u)
  BY ZenonT(30)
<1>1. w \in 1..Len(log)
  BY SMT, SMTT(30) DEF CacheInv, LogOK
<1>2. log'[w] = log[w] /\ LargestJitter' = LargestJitter
  BY <1>1, JitterFacts, ZenonT(30) DEF Prefix
<1>3. Late(log[w].at, flushed, LargestJitter, t)
  BY <1>2, ZenonT(30) DEF Fresh, Misses
<1>4. log[w].at \in Nat /\ IteratorTTL \in Nat
  BY <1>1, LogType, Constants, ZenonT(30) DEF CacheInv
<1>5. log[w].at + IteratorTTL <= t => log[w].at + IteratorTTL <= u
  BY <1>4, SMT, SMTT(30)
<1>6. Late(log[w].at, flushed, LargestJitter, u)
  BY <1>3, <1>5, ZenonT(30) DEF Late
<1> QED BY <1>2, <1>6, ZenonT(30)

(* A request a step leaves alone stays as described.                       *)
LEMMA ReqFrame ==
  ASSUME CacheInv, LogOK', Prefix, NEW r \in Reqs, req'[r] = req[r], now <= now', done <= done'
  PROVE  ReqOK(r)'
<1> USE DEF CacheInv
<1>1. ReqOK(r)
  BY ZenonT(30) DEF RequestsOK
<1>2. CASE req[r] = Idle
  BY <1>2, ZenonT(30) DEF ReqOK
<1>3. CASE req[r] # Idle
  <2> DEFINE q == req[r]
  <2>1. /\ q.pc \in {"query", "iter", "open", "opened", "next", "answer"}
        /\ q.key \in Keys /\ q.high \in BOOLEAN
        /\ q.done \in 0..done /\ q.committed \in 0..Len(log)
        /\ q.high => q.pc \notin {"query", "iter"}
        /\ q.pc = "query" => q.known = 0 \/ (q.known \in 1..Len(log) /\ q.inv = log[q.known].at)
        /\ q.pc = "iter" => q \in [pc : {"iter"}, key : Keys, high : BOOLEAN, done : Nat, committed : Nat]
        /\ q.pc \in {"opened", "next"} => q.snap \in q.done..Len(log)
        /\ q.pc \in {"opened", "next", "answer"} /\ q.high => q.committed <= q.snap
        /\ q.pc = "next" => q.init \in 1..now
        /\ q.pc = "answer" => /\ q.snap \in 0..Len(log) /\ q.flushed \in Nat
                              /\ Fresh(q.key, q.snap, q.flushed, q.done, now)
    BY <1>1, <1>3, ZenonT(30) DEF ReqOK
  <2> HIDE DEF q
  <2>2. now \in Nat /\ now' \in Nat /\ done \in Nat /\ done' \in Nat /\ Len(log) \in Nat /\ Len(log') \in Nat /\ done <= Len(log)
    BY SMT, SMTT(30) DEF LogOK
  <2>3. Len(log) <= Len(log')
    BY ZenonT(30) DEF Prefix
  <2>4. q.done \in 0..done' /\ q.committed \in 0..Len(log') /\ q.done \in 0..Len(log)
    BY <2>1, <2>2, <2>3, SMT, SMTT(30)
  <2>5. q.pc = "query" => q.known = 0 \/ (q.known \in 1..Len(log') /\ q.inv = log'[q.known].at)
    BY <2>1, <2>2, <2>3, SMT, SMTT(30) DEF Prefix
  <2>6. q.pc \in {"opened", "next"} => q.snap \in q.done..Len(log')
    BY <2>1, <2>2, <2>3, SMT, SMTT(30)
  <2>7. q.pc = "next" => q.init \in 1..now'
    BY <2>1, <2>2, <2>3, SMT, SMTT(30)
  <2>8. q.pc = "answer" => /\ q.snap \in 0..Len(log') /\ q.flushed \in Nat
    BY <2>1, <2>2, <2>3, SMT, SMTT(30)
  <2>9. q.pc = "answer" => \A w \in 1..q.done : q.snap < w /\ Matches(log'[w].tuple, q.key) => Late(log'[w].at, q.flushed, LargestJitter', now')
    BY <2>1, <2>2, <2>4, FreshKept, ZenonT(30)
  <2>10. req'[r] = q
    BY ZenonT(30) DEF q
  <2>11. q.pc = "answer" => Fresh(req[r].key, req[r].snap, req[r].flushed, req[r].done, now)'
    BY <2>9, <2>10, ZenonT(30) DEF Fresh, Misses
  <2> QED BY <2>1, <2>4, <2>5, <2>6, <2>7, <2>8, <2>10, <2>11, ZenonT(30) DEF ReqOK
<1> QED BY <1>2, <1>3, ZenonT(30)

(* So do all requests.                                                     *)
LEMMA RequestsFrame ==
  ASSUME CacheInv, LogOK', Prefix, req' = req, now <= now', done <= done'
  PROVE  RequestsOK'
BY ReqFrame, ZenonT(30) DEF CacheInv, RequestsOK

(* A response a step leaves in the cache stays as described.               *)
LEMMA QueryOne ==
  ASSUME CacheInv, LogOK', Prefix, done <= done', NEW k \in Keys, query'[k] # None, query'[k] = query[k]
  PROVE  /\ query'[k] \in Response /\ query'[k].done <= done'
         /\ Fresh(k, query[k].snap, query[k].flushed, query[k].done, query[k].lm)'
<1>1. query[k] \in Response /\ query[k].done <= done
  BY ZenonT(30) DEF CacheInv, QueryOK
<1>2. query[k].done \in 0..Len(log) /\ query[k].done <= done' /\ query[k].lm \in Nat /\ query[k].lm <= query[k].lm
  BY <1>1, SMT, SMTT(30) DEF Response, CacheInv, LogOK
<1>3. Fresh(k, query[k].snap, query[k].flushed, query[k].done, query[k].lm)
  BY ZenonT(30) DEF CacheInv, QueryOK
<1>4. \A w \in 1..query[k].done :
        query[k].snap < w /\ Matches(log'[w].tuple, k) => Late(log'[w].at, query[k].flushed, LargestJitter', query[k].lm)
  BY <1>2, <1>3, FreshKept, ZenonT(30)
<1>5. Fresh(k, query[k].snap, query[k].flushed, query[k].done, query[k].lm)'
  BY <1>4, ZenonT(30) DEF Fresh, Misses
<1> QED BY <1>1, <1>2, <1>5, ZenonT(30)

(* Responses that a step leaves alone or lets expire stay as described.    *)
LEMMA QueryFrame ==
  ASSUME CacheInv, LogOK', Prefix, done <= done', query' \in [Keys -> Response \cup {None}],
         \A k \in Keys : query'[k] # None => query'[k] = query[k]
  PROVE  QueryOK'
BY QueryOne, ZenonT(30) DEF QueryOK

(* Positions of a prefix are positions of the whole.                       *)
LEMMA Positions ==
  ASSUME NEW n \in Nat, NEW d \in 0..n, NEW x \in 0..d, NEW c \in 0..n
  PROVE  x \in 0..n /\ n \in x..n /\ c <= n
BY SMT, SMTT(30)

(* The changelog, from the invariant.                                      *)
LEMMA LogFacts ==
  ASSUME CacheInv
  PROVE  /\ now \in Nat /\ Len(log) \in Nat /\ done \in 0..Len(log)
         /\ \A w \in 1..Len(log) : log[w].at \in Nat /\ log[w].ts = log[w].at /\ 0 < log[w].at /\ log[w].at <= now
         /\ \A v, w \in 1..Len(log) : v < w => log[v].at < log[w].at
<1>1. LogOK
  BY ZenonT(30) DEF CacheInv
<1> QED BY <1>1, LogType, SMT, SMTT(30) DEF LogOK

(* Expiry of the responses only removes some.                              *)
LEMMA QueriesFacts ==
  ASSUME CacheInv
  PROVE  /\ Queries \in [Keys -> Response \cup {None}]
         /\ \A k \in Keys : Queries[k] # None => Queries[k] = query[k]
<1>1. \A k \in Keys : Queries[k] = Unexpired(query[k])
  BY ZenonT(30) DEF Queries
<1>2. \A k \in Keys : Queries[k] \in Response \cup {None} /\ (Queries[k] # None => Queries[k] = query[k])
  BY <1>1, ZenonT(30) DEF CacheInv, QueryOK, Unexpired
<1>3. Queries = [k \in Keys |-> Queries[k]]
  BY ZenonT(30) DEF Queries
<1> HIDE DEF Queries
<1> QED BY <1>2, <1>3, ZenonT(30)

(* An unchanged changelog has not lost anything.                           *)
LEMMA SamePrefix ==
  ASSUME CacheInv, conf' = conf, log' = log
  PROVE  Prefix
BY SMT, SMTT(30) DEF CacheInv, LogOK, Prefix

(* LogOK survives a step that leaves the changelog alone.                  *)
LEMMA LogFrame ==
  ASSUME CacheInv, UNCHANGED <<conf, log>>, now' \in Nat, now <= now', done' \in 0..Len(log)
  PROVE  LogOK'
<1> USE DEF CacheInv, LogOK
<1>1. \A w \in 1..Len(log) : log[w].at \in Nat
  BY LogType, ZenonT(30)
<1>2. \A w \in 1..Len(log) : log[w].at <= now'
  BY <1>1, SMT, SMTT(30)
<1> QED BY <1>2, ZenonT(30)

(* The changelog entry stays as described when it stays or expires, unless *)
(* a run starts to mark what it saw.                                       *)
LEMMA ChangelogFrame ==
  ASSUME CacheInv, LogOK', Prefix, changelog' # None => changelog' = changelog, done <= done',
         \/ ctl' = ctl
         \/ ctl'.pc \notin {"mark", "entity"} /\ ctl.pc \notin {"mark", "entity"}
         \/ ctl'.pc \notin {"mark", "entity"} /\ ctl.pc \in {"mark", "entity"} /\ ctl.seen <= done'
         \/ ctl'.pc \in {"mark", "entity"} /\ ctl.pc \in {"mark", "entity"} /\ ctl'.seen = ctl.seen
  PROVE  ChangelogOK'
<1> USE DEF CacheInv
<1> SUFFICES ASSUME changelog' # None
             PROVE  /\ changelog' \in Checkpoint /\ changelog'.seen \in 1..Len(log')
                    /\ changelog'.lm = log'[changelog'.seen].ts
                    /\ IF ctl'.pc \in {"mark", "entity"} THEN changelog'.seen = ctl'.seen ELSE changelog'.seen <= done'
  BY ZenonT(30) DEF ChangelogOK
<1>1. /\ changelog' = changelog /\ changelog \in Checkpoint /\ changelog.seen \in 1..Len(log)
      /\ changelog.lm = log[changelog.seen].ts
      /\ IF ctl.pc \in {"mark", "entity"} THEN changelog.seen = ctl.seen ELSE changelog.seen <= done
  BY ZenonT(30) DEF ChangelogOK
<1>2. done \in Nat /\ done' \in Nat /\ Len(log) \in Nat /\ Len(log') \in Nat
  BY SMT, SMTT(30) DEF LogOK
<1>3. changelog.seen \in 1..Len(log') /\ changelog.lm = log'[changelog.seen].ts
  BY <1>1, <1>2, SMT, SMTT(30) DEF Prefix
<1> QED BY <1>1, <1>2, <1>3, SMT, SMTT(30)

(* The run of the controller stays as described when time passes or writes *)
(* are added.                                                              *)
LEMMA CtlFrame ==
  ASSUME CacheInv, LogOK', Prefix, ctl' = ctl, now <= now', done <= done',
         \A m \in Markers : marker'[m] # None => marker'[m] = marker[m],
         \A k \in Keys : \A w \in 1..Len(log) : Covered(k, w) => Covered(k, w)'
  PROVE  CtlOK'
<1> USE DEF CacheInv
<1>1. now \in Nat /\ now' \in Nat /\ done \in Nat /\ done' \in Nat /\ Len(log) \in Nat /\ Len(log') \in Nat /\ done' <= Len(log')
      /\ Len(log) <= Len(log')
  BY SMT, SMTT(30) DEF LogOK, Prefix
<1>7. ASSUME NEW v \in 1..done
      PROVE  v \in 1..done' /\ log'[v] = log[v]
  BY <1>1, SMT, SMTT(30) DEF Prefix, LogOK
<1>2. CASE ctl = Idle \/ ctl = [pc |-> "get"]
  BY <1>2, ZenonT(30) DEF CtlOK
<1>3. CASE ctl \in [pc : {"read"}, cached : Nat] /\ Known(ctl.cached)
  <2> DEFINE c == ctl.cached
  <2>1. c = 0 \/ \E w \in 1..done' : c = log'[w].ts
    BY <1>3, <1>7, ZenonT(30) DEF Known
  <2> QED BY <1>3, <2>1, ZenonT(30) DEF CtlOK, Known
<1>4. CASE ctl \in [pc : {"set"}, cached : Nat, seen : Nat] /\ Known(ctl.cached) /\ ctl.seen \in 1..Len(log)
  <2> DEFINE c == ctl.cached
  <2>1. c = 0 \/ \E w \in 1..done' : c = log'[w].ts
    BY <1>4, <1>7, ZenonT(30) DEF Known
  <2>2. ctl.seen \in 1..Len(log')
    BY <1>1, <1>4, SMT, SMTT(30)
  <2> QED BY <1>4, <2>1, <2>2, ZenonT(30) DEF CtlOK, Known
<1>5. CASE ctl \in [pc : {"mark"}, seen : Nat] /\ ctl.seen \in 1..Len(log)
  <2>2. ctl.seen \in 1..Len(log')
    BY <1>1, <1>5, SMT, SMTT(30)
  <2> QED BY <1>5, <2>2, ZenonT(30) DEF CtlOK
<1>6. CASE /\ ctl \in [pc : {"entity"}, seen : Nat, lm : Nat, next : Nat, mark : {1, 2}]
           /\ ctl.seen \in 1..Len(log) /\ ctl.next \in 1..ctl.seen
           /\ log[ctl.seen].at < ctl.lm /\ ctl.lm <= now
           /\ \A m \in Markers : marker[m] # None => marker[m].lm <= ctl.lm
           /\ \A k \in Keys : \A w \in 1..Len(log) :
                w < ctl.next \/ (w = ctl.next /\ ctl.mark = 2 /\ k.op = "object") => Covered(k, w)
  <2>1. ctl.seen \in Nat /\ ctl.lm \in Nat /\ ctl.next \in Nat
    BY <1>6, ZenonT(30)
  <2>2. ctl.seen \in 1..Len(log') /\ ctl.lm <= now' /\ log'[ctl.seen].at < ctl.lm
    BY <1>1, <1>6, <2>1, SMT, SMTT(30) DEF Prefix
  <2>3. \A m \in Markers : marker'[m] # None => marker'[m].lm <= ctl.lm
    BY <1>6, ZenonT(30)
  <2>4. ASSUME NEW k \in Keys, NEW w \in 1..Len(log'),
               w < ctl.next \/ (w = ctl.next /\ ctl.mark = 2 /\ k.op = "object")
        PROVE  Covered(k, w)'
    <3>1. w \in 1..Len(log)
      BY <1>1, <1>6, <2>1, <2>4, SMT, SMTT(30)
    <3> QED BY <1>6, <2>4, <3>1, ZenonT(30)
  <2> QED BY <1>6, <2>2, <2>3, <2>4, ZenonT(30) DEF CtlOK
<1> QED BY <1>2, <1>3, <1>4, <1>5, <1>6, ZenonT(30) DEF CtlOK

(* CoveredOK survives a step that completes no run and uncovers nothing.   *)
LEMMA CoveredAfter ==
  ASSUME CacheInv, LogOK', done' = done, Prefix,
         \A k \in Keys : \A w \in 1..Len(log) : Covered(k, w) => Covered(k, w)'
  PROVE  CoveredOK'
<1> SUFFICES ASSUME NEW k \in Keys, NEW w \in 1..done
             PROVE  Covered(k, w)'
  BY ZenonT(30) DEF CoveredOK
<1>1. w \in 1..Len(log)
  BY SMT, SMTT(30) DEF CacheInv, LogOK
<1> QED BY <1>1, ZenonT(30) DEF CacheInv, CoveredOK

(* A step with a timestamp, whether it marks the store or not, keeps the   *)
(* caches as described and uncovers nothing.                               *)
LEMMA StampWhole ==
  ASSUME CacheInv, Stamp, Prefix, LogOK', whole' = whole \/ whole' = now', drains' = drains
  PROVE  /\ MarkerOK' /\ IterOK' /\ DrainOK'
         /\ \A k \in Keys : \A w \in 1..Len(log) : Covered(k, w) => Covered(k, w)'
<1>1. now' = now + 1 /\ now \in Nat /\ now' \in Nat /\ Len(log') \in Nat
  BY StampFacts, SMT, SMTT(30) DEF CacheInv, LogOK
<1>2. whole' \in Nat /\ whole <= whole' /\ whole' <= now'
  BY <1>1, SMT, SMTT(30) DEF CacheInv, MarkerOK
<1> QED BY <1>1, <1>2, StampKeeps, StampCovered, DrainFrame, SMT, SMTT(30)

(* A step with a timestamp that leaves the controller alone keeps all but  *)
(* the requests and responses as described.                                *)
LEMMA StampQuiet ==
  ASSUME CacheInv, Stamp, Prefix, LogOK', UNCHANGED <<whole, ctl, done, drains>>
  PROVE  MarkerOK' /\ IterOK' /\ DrainOK' /\ CoveredOK' /\ ChangelogOK' /\ CtlOK'
<1>1. now' = now + 1 /\ now \in Nat /\ done \in Nat
  BY StampFacts, SMT, SMTT(30) DEF CacheInv, LogOK
<1>2. MarkerOK' /\ IterOK' /\ DrainOK'
  BY StampWhole, ZenonT(30)
<1>3. \A k \in Keys : \A w \in 1..Len(log) : Covered(k, w) => Covered(k, w)'
  BY StampWhole, ZenonT(30)
<1>4. CoveredOK'
  BY <1>3, CoveredAfter, ZenonT(30)
<1>5. ChangelogOK'
  BY <1>1, StampFacts, ChangelogFrame, SMT, SMTT(30)
<1>6. CtlOK'
  BY <1>1, <1>3, StampFacts, CtlFrame, SMT, SMTT(30)
<1> QED BY <1>2, <1>4, <1>5, <1>6, ZenonT(30)

(* The changelog stays well-formed when time passes.                       *)
LEMMA StampLog ==
  ASSUME CacheInv, Stamp, UNCHANGED <<conf, log>>, done' \in 0..Len(log)
  PROVE  LogOK' /\ Prefix /\ now' = now + 1 /\ now <= now'
BY StampFacts, LogFrame, SamePrefix, SMT, SMTT(30) DEF CacheInv, LogOK

(* Time passing keeps the invariant.                                       *)
LEMMA TickInv ==
  ASSUME CacheInv, Tick
  PROVE  CacheInv'
<1>1. Stamp /\ query' = Queries /\ UNCHANGED <<conf, log, whole, ctl, done, req, drains>>
  BY ZenonT(30) DEF Tick
<1>2. done \in 0..Len(log) /\ done <= done'
  BY <1>1, SMT, SMTT(30) DEF CacheInv, LogOK
<1>3. LogOK' /\ Prefix /\ now <= now'
  BY <1>1, <1>2, StampLog, ZenonT(30)
<1>4. MarkerOK' /\ IterOK' /\ DrainOK' /\ CoveredOK' /\ ChangelogOK' /\ CtlOK'
  BY <1>1, <1>3, StampQuiet, ZenonT(30)
<1>5. RequestsOK'
  BY <1>1, <1>2, <1>3, RequestsFrame, ZenonT(30)
<1>6. QueryOK'
  BY <1>1, <1>2, <1>3, QueriesFacts, QueryFrame, ZenonT(30)
<1> QED BY <1>3, <1>4, <1>5, <1>6, ZenonT(30) DEF CacheInv

(* A write keeps the invariant: no run has seen it yet.                    *)
LEMMA WriteInv ==
  ASSUME CacheInv, Exact, NEW t \in Tuples, Write(t)
  PROVE  CacheInv'
<1> DEFINE c == [tuple |-> t, ts |-> Grain * (now' \div Grain), at |-> now']
<1>1. Stamp /\ query' = Queries /\ log' = Append(log, c) /\ UNCHANGED <<conf, whole, ctl, done, req, drains>>
  BY ZenonT(30) DEF Write
<1>2. now' = now + 1 /\ now \in Nat /\ now <= now' /\ log \in Seq(Change) /\ done \in 0..Len(log) /\ done <= done'
  BY <1>1, StampFacts, SMT, SMTT(30) DEF CacheInv, LogOK
<1>3. \A n \in Nat : 1 * (n \div 1) = n
  BY SMT, SMTT(30)
<1>4. c.ts = now' /\ c.at = now' /\ c \in Change
  BY <1>2, <1>3, SMT, SMTT(30) DEF Exact, Change
<1> HIDE DEF c
<1>5. log' \in Seq(Change) /\ Len(log') = Len(log) + 1 /\ Len(log) \in Nat /\ log'[Len(log) + 1] = c
  BY <1>1, <1>2, <1>4, SMT, SMTT(30)
<1>6. \A w \in 1..Len(log) : log'[w] = log[w]
  BY <1>1, <1>2, SMT, SMTT(30)
<1>7. Prefix
  BY <1>1, <1>5, <1>6, SMT, SMTT(30) DEF Prefix
<1>8. \A w \in 1..Len(log) : log[w].ts = log[w].at /\ 0 < log[w].at /\ log[w].at <= now /\ log[w].at \in Nat
  BY LogType, ZenonT(30) DEF CacheInv, LogOK
<1>9. \A w \in 1..Len(log') : log'[w].ts = log'[w].at /\ 0 < log'[w].at /\ log'[w].at <= now'
  <2> SUFFICES ASSUME NEW w \in 1..Len(log')
               PROVE  log'[w].ts = log'[w].at /\ 0 < log'[w].at /\ log'[w].at <= now'
    BY ZenonT(30)
  <2>1. CASE w \in 1..Len(log)
    BY <1>2, <1>6, <1>8, <2>1, SMT, SMTT(30)
  <2>2. CASE w = Len(log) + 1
    BY <1>2, <1>4, <1>5, <2>2, SMT, SMTT(30)
  <2> QED BY <1>5, <2>1, <2>2, SMT, SMTT(30)
<1>10. \A v, w \in 1..Len(log') : v < w => log'[v].at < log'[w].at
  <2> SUFFICES ASSUME NEW v \in 1..Len(log'), NEW w \in 1..Len(log'), v < w
               PROVE  log'[v].at < log'[w].at
    BY ZenonT(30)
  <2>1. v \in 1..Len(log)
    BY <1>5, SMT, SMTT(30)
  <2>2. CASE w \in 1..Len(log)
    BY <1>6, <2>1, <2>2, ZenonT(30) DEF CacheInv, LogOK
  <2>3. CASE w = Len(log) + 1
    BY <1>2, <1>4, <1>5, <1>6, <1>8, <2>1, <2>3, SMT, SMTT(30)
  <2> QED BY <1>5, <2>2, <2>3, SMT, SMTT(30)
<1>11. LogOK'
  BY <1>1, <1>2, <1>5, <1>9, <1>10, SMT, SMTT(30) DEF LogOK, CacheInv
<1>12. MarkerOK' /\ IterOK' /\ DrainOK' /\ CoveredOK' /\ ChangelogOK' /\ CtlOK'
  BY <1>1, <1>7, <1>11, StampQuiet, ZenonT(30)
<1>13. RequestsOK'
  BY <1>1, <1>2, <1>7, <1>11, RequestsFrame, ZenonT(30)
<1>14. QueryOK'
  BY <1>1, <1>2, <1>7, <1>11, QueriesFacts, QueryFrame, ZenonT(30)
<1> QED BY <1>11, <1>12, <1>13, <1>14, ZenonT(30) DEF CacheInv

(* A failed read of the changelog marks the store.                         *)
LEMMA ReadChangesFailsInv ==
  ASSUME CacheInv, ReadChangesFails
  PROVE  CacheInv'
<1>1. /\ ctl.pc = "read" /\ Stamp /\ query' = Queries /\ whole' = now' /\ ctl' = Idle
      /\ UNCHANGED <<conf, log, done, req, drains>>
  BY ZenonT(30) DEF ReadChangesFails
<1>2. done \in 0..Len(log) /\ done <= done'
  BY <1>1, SMT, SMTT(30) DEF CacheInv, LogOK
<1>3. LogOK' /\ Prefix /\ now <= now'
  BY <1>1, <1>2, StampLog, ZenonT(30)
<1>4. MarkerOK' /\ IterOK' /\ DrainOK'
  BY <1>1, <1>3, StampWhole, ZenonT(30)
<1>5. CoveredOK'
  BY <1>1, <1>3, StampWhole, CoveredAfter, ZenonT(30)
<1>6. ChangelogOK'
  BY <1>1, <1>2, <1>3, StampFacts, ChangelogFrame, ZenonT(30) DEF Idle
<1>7. CtlOK'
  BY <1>1, ZenonT(30) DEF CtlOK
<1>8. RequestsOK'
  BY <1>1, <1>2, <1>3, RequestsFrame, ZenonT(30)
<1>9. QueryOK'
  BY <1>1, <1>2, <1>3, QueriesFacts, QueryFrame, ZenonT(30)
<1> QED BY <1>3, <1>4, <1>5, <1>6, <1>7, <1>8, <1>9, ZenonT(30) DEF CacheInv

(* The maximum of two numbers.                                             *)
LEMMA MaxPair ==
  ASSUME NEW a \in Int, NEW b \in Int
  PROVE  Max({a, b}) = IF a <= b THEN b ELSE a
<1> DEFINE m == IF a <= b THEN b ELSE a
<1>1. m \in {a, b} /\ \A y \in {a, b} : m >= y
  BY SMT, SMTT(30)
<1>2. \A x \in {a, b} : (\A y \in {a, b} : x >= y) => x = m
  BY SMT, SMTT(30)
<1> QED BY <1>1, <1>2, ZenonT(30) DEF Max

(* The end of a run raises done to what the run saw.                       *)
LEMMA EndFacts ==
  ASSUME CacheInv, NEW seen \in 1..Len(log), End(seen)
  PROVE  /\ ctl' = Idle /\ done' \in 0..Len(log) /\ done <= done' /\ seen <= done'
         /\ \A w \in 1..done' : w \in 1..done \/ w \in 1..seen
<1>1. done \in 0..Len(log) /\ Len(log) \in Nat /\ log \in Seq(Change)
  BY SMT, SMTT(30) DEF CacheInv, LogOK
<1>2. done' = IF done <= seen THEN seen ELSE done
  BY <1>1, MaxPair, SMT, SMTT(30) DEF End
<1>3. ctl' = Idle
  BY ZenonT(30) DEF End
<1> QED BY <1>1, <1>2, <1>3, SMT, SMTT(30)

(* The control point before the marking.                                   *)
LEMMA MarkCtl ==
  ASSUME CacheInv, ctl.pc = "mark"
  PROVE  ctl \in [pc : {"mark"}, seen : Nat] /\ ctl.seen \in 1..Len(log)
BY SMT, SMTT(30) DEF CacheInv, CtlOK, Idle

(* The page is the last changes up to what was seen.                       *)
LEMMA PageFacts ==
  ASSUME CacheInv, NEW seen \in 1..Len(log)
  PROVE  /\ Page(seen) \subseteq 1..seen /\ seen \in Page(seen)
         /\ \A v, w \in 1..seen : v \in Page(seen) /\ w \notin Page(seen) => w < v
<1>1. seen \in Nat /\ 0 < seen /\ PageSize \in Nat /\ 0 < PageSize
  BY Constants, SMT, SMTT(30) DEF CacheInv, LogOK
<1>2. PICK p \in Int : p = Max({1, seen - PageSize + 1})
  BY <1>1, MaxPair, SMT, SMTT(30)
<1>3. p = IF 1 <= seen - PageSize + 1 THEN seen - PageSize + 1 ELSE 1
  BY <1>1, <1>2, MaxPair, SMT, SMTT(30)
<1>4. Page(seen) = p .. seen
  BY <1>2, ZenonT(30) DEF Page
<1> QED BY <1>1, <1>3, <1>4, SMT, SMTT(30)

(* A change outside the time-to-live is not due.                           *)
LEMMA OldExpired ==
  ASSUME CacheInv, Stamp, Prefix, NEW k \in Keys, NEW w \in 1..Len(log), log[w].at <= now' - IteratorTTL
  PROVE  Covered(k, w)'
<1>1. log'[w] = log[w] /\ now' = now + 1
  BY StampFacts, ZenonT(30) DEF Prefix
<1>2. IteratorTTL \in Nat /\ log[w].at \in Nat /\ now \in Nat
  BY LogType, Constants, ZenonT(30) DEF CacheInv, LogOK
<1>3. ~(now' < log'[w].at + IteratorTTL)
  BY <1>1, <1>2, SMT, SMTT(30)
<1> QED BY <1>3, ZenonT(30) DEF Covered, Due

(* Marking the store keeps the invariant: every change is covered.         *)
LEMMA MarkStoreInv ==
  ASSUME CacheInv, MarkStore
  PROVE  CacheInv'
<1>1. /\ ctl.pc = "mark" /\ Stamp /\ query' = Queries /\ whole' = now' /\ End(ctl.seen)
      /\ UNCHANGED <<conf, log, req, drains>>
  BY ZenonT(30) DEF MarkStore
<1>2. ctl.seen \in 1..Len(log)
  BY <1>1, MarkCtl, ZenonT(30)
<1>3. /\ ctl' = Idle /\ done' \in 0..Len(log) /\ done <= done' /\ ctl.seen <= done'
  BY <1>1, <1>2, EndFacts, ZenonT(30)
<1>4. LogOK' /\ Prefix /\ now <= now' /\ now' = now + 1 /\ now \in Nat
  BY <1>1, <1>3, StampLog, ZenonT(30) DEF CacheInv, LogOK
<1>5. MarkerOK' /\ IterOK' /\ DrainOK'
  BY <1>1, <1>4, StampWhole, ZenonT(30)
<1>6. ASSUME NEW k \in Keys, NEW w \in 1..done'
      PROVE  Covered(k, w)'
  <2>1. log' = log /\ w \in 1..Len(log)
    BY <1>1, <1>3, LogFacts, SMT, SMTT(30)
  <2>2. log[w].at \in Nat /\ log[w].at <= now
    BY <2>1, LogFacts, ZenonT(30)
  <2>3. log'[w].at < whole'
    BY <1>1, <1>4, <2>1, <2>2, SMT, SMTT(30)
  <2> QED BY <2>3, ZenonT(30) DEF Covered, Reached
<1>7. CoveredOK'
  BY <1>6, ZenonT(30) DEF CoveredOK
<1>8. ChangelogOK'
  BY <1>1, <1>3, <1>4, StampFacts, ChangelogFrame, ZenonT(30) DEF Idle
<1>9. CtlOK'
  BY <1>3, ZenonT(30) DEF CtlOK
<1>10. RequestsOK'
  BY <1>1, <1>3, <1>4, RequestsFrame, ZenonT(30)
<1>11. QueryOK'
  BY <1>1, <1>3, <1>4, QueriesFacts, QueryFrame, ZenonT(30)
<1> QED BY <1>4, <1>5, <1>7, <1>8, <1>9, <1>10, <1>11, ZenonT(30) DEF CacheInv

(* When a change of the page is not recent, neither is any before it, on   *)
(* the page or not.                                                        *)
LEMMA OldChanges ==
  ASSUME CacheInv, NEW seen \in 1..Len(log), NEW time \in Nat, NEW v \in Page(seen), v \notin Recent(seen, time),
         NEW w \in 1..seen, w <= v
  PROVE  log[w].at <= time - IteratorTTL
<1>1. v \in 1..Len(log) /\ w \in 1..Len(log)
  BY PageFacts, SMT, SMTT(30) DEF CacheInv, LogOK
<1>2. ~(log[v].ts > time - IteratorTTL)
  BY ZenonT(30) DEF Recent
<1>3. log[v].ts = log[v].at /\ log[v].at \in Nat /\ log[w].at \in Nat /\ IteratorTTL \in Nat
  BY <1>1, LogType, Constants, ZenonT(30) DEF CacheInv, LogOK
<1>4. w = v \/ log[w].at < log[v].at
  BY <1>1, SMT, SMTT(30) DEF CacheInv, LogOK
<1> QED BY <1>2, <1>3, <1>4, SMT, SMTT(30)

(* The start of the marking, or its end when no change is recent, keeps    *)
(* the invariant.                                                          *)
LEMMA MarkSomeInv ==
  ASSUME CacheInv, MarkSome
  PROVE  CacheInv'
<1> DEFINE seen == ctl.seen
           recent == Recent(ctl.seen, now')
<1>1. /\ ctl.pc = "mark" /\ Stamp /\ query' = Queries /\ recent # Page(seen)
      /\ UNCHANGED <<conf, log, whole, req, drains>>
      /\ IF recent = {} THEN End(seen)
         ELSE \E first \in recent :
                /\ \A w \in recent : first <= w
                /\ ctl' = [pc |-> "entity", seen |-> seen, lm |-> now', next |-> first, mark |-> 1]
                /\ UNCHANGED done
  BY ZenonT(30) DEF MarkSome
<1>2. seen \in 1..Len(log) /\ seen \in Nat
  BY <1>1, MarkCtl, ZenonT(30)
<1>3. done' \in 0..Len(log) /\ done <= done'
  <2>1. CASE recent = {}
    BY <1>1, <1>2, <2>1, EndFacts, ZenonT(30)
  <2>2. CASE recent # {}
    BY <1>1, <2>2, SMT, SMTT(30) DEF CacheInv, LogOK
  <2> QED BY <2>1, <2>2, ZenonT(30)
<1>4. LogOK' /\ Prefix /\ now <= now' /\ now' = now + 1 /\ now \in Nat /\ now' \in Nat
  BY <1>1, <1>3, StampLog, ZenonT(30) DEF CacheInv, LogOK
<1>5. MarkerOK' /\ IterOK' /\ DrainOK'
  BY <1>1, <1>4, StampWhole, ZenonT(30)
<1>6. recent \subseteq Page(seen) /\ Page(seen) \subseteq 1..seen /\ seen \in Page(seen)
  BY <1>2, PageFacts, ZenonT(30) DEF Recent
<1>7. ASSUME NEW k \in Keys, NEW w \in 1..seen, NEW v \in Page(seen), v \notin recent, w <= v
      PROVE  Covered(k, w)'
  <2>1. log[w].at <= now' - IteratorTTL
    BY <1>2, <1>4, <1>7, OldChanges, ZenonT(30)
  <2>2. w \in 1..Len(log)
    BY <1>2, SMT, SMTT(30) DEF CacheInv, LogOK
  <2> QED BY <1>1, <1>4, <2>1, <2>2, OldExpired, ZenonT(30)
<1>8. RequestsOK'
  BY <1>1, <1>3, <1>4, RequestsFrame, ZenonT(30)
<1>9. QueryOK'
  BY <1>1, <1>3, <1>4, QueriesFacts, QueryFrame, ZenonT(30)
<1>10. CASE recent = {}
  <2>1. /\ ctl' = Idle /\ done <= done' /\ seen <= done'
        /\ \A w \in 1..done' : w \in 1..done \/ w \in 1..seen
    BY <1>1, <1>2, <1>10, EndFacts, ZenonT(30)
  <2>2. ASSUME NEW k \in Keys, NEW w \in 1..done'
        PROVE  Covered(k, w)'
    <3>1. CASE w \in 1..done
      <4>1. w \in 1..Len(log) /\ Covered(k, w)
        BY <3>1, SMT, SMTT(30) DEF CacheInv, LogOK, CoveredOK
      <4> QED BY <1>1, <1>4, <4>1, StampWhole, ZenonT(30)
    <3>2. CASE w \in 1..seen
      <4>1. w <= seen /\ seen \notin recent
        BY <1>2, <1>10, <3>2, SMT, SMTT(30)
      <4> QED BY <1>6, <1>7, <3>2, <4>1, ZenonT(30)
    <3> QED BY <2>1, <3>1, <3>2, ZenonT(30)
  <2>3. CoveredOK'
    BY <2>2, ZenonT(30) DEF CoveredOK
  <2>4. ChangelogOK'
    BY <1>1, <1>3, <1>4, <2>1, StampFacts, ChangelogFrame, ZenonT(30) DEF Idle
  <2>5. CtlOK'
    BY <2>1, ZenonT(30) DEF CtlOK
  <2> QED BY <1>4, <1>5, <1>8, <1>9, <2>3, <2>4, <2>5, ZenonT(30) DEF CacheInv
<1>11. CASE recent # {}
  <2>1. PICK n \in recent :
          /\ \A v \in recent : n <= v
          /\ ctl' = [pc |-> "entity", seen |-> seen, lm |-> now', next |-> n, mark |-> 1] /\ done' = done
    BY <1>1, <1>11, ZenonT(30)
  <2>2. n \in recent /\ \A v \in recent : n <= v
    BY <2>1, ZenonT(30)
  <2>3. n \in 1..seen /\ n \in Nat
    BY <1>2, <1>6, <2>2, SMT, SMTT(30)
  <2>4. ASSUME NEW k \in Keys, NEW w \in 1..Len(log), w < n
        PROVE  Covered(k, w)'
    <3>1. w \in 1..seen /\ w \notin recent
      BY <1>2, <2>2, <2>3, <2>4, SMT, SMTT(30)
    <3>2. CASE w \in Page(seen)
      BY <1>7, <3>1, <3>2, SMT, SMTT(30)
    <3>3. CASE w \notin Page(seen)
      <4>1. PICK v \in Page(seen) : v \notin recent
        BY <1>1, <1>6, ZenonT(30)
      <4>2. w < v
        BY <1>2, <1>6, <3>1, <3>3, PageFacts, ZenonT(30)
      <4>3. v \in Nat /\ w \in Nat
        BY <1>2, <1>6, <3>1, SMT, SMTT(30)
      <4> QED BY <1>7, <3>1, <4>1, <4>2, <4>3, SMT, SMTT(30)
    <3> QED BY <3>2, <3>3, ZenonT(30)
  <2>5. CoveredOK'
    BY <1>1, <1>4, <2>1, StampWhole, CoveredAfter, ZenonT(30)
  <2>6. ChangelogOK'
    BY <1>1, <1>3, <1>4, <2>1, StampFacts, ChangelogFrame, ZenonT(30)
  <2>7. log'[seen].at < now'
    <3>1. log' = log /\ now' = now + 1 /\ now \in Nat
      BY <1>1, <1>4, ZenonT(30)
    <3>2. log[seen].at <= now /\ log[seen].at \in Nat
      BY <1>2, LogFacts, ZenonT(30)
    <3> QED BY <3>1, <3>2, SMT, SMTT(30)
  <2>8. \A m \in Markers : marker'[m] # None => marker'[m].lm <= now'
    BY <1>5, ZenonT(30) DEF MarkerOK
  <2>9. /\ ctl' \in [pc : {"entity"}, seen : Nat, lm : Nat, next : Nat, mark : {1, 2}]
        /\ ctl'.seen = seen /\ ctl'.next = n /\ ctl'.lm = now' /\ ctl'.mark = 1
    BY <1>2, <1>4, <2>1, <2>3, ZenonT(30)
  <2>10. /\ ctl'.seen \in 1..Len(log') /\ ctl'.next \in 1..ctl'.seen
         /\ log'[ctl'.seen].at < ctl'.lm /\ ctl'.lm <= now'
    BY <1>1, <1>2, <1>4, <2>3, <2>7, <2>9, SMT, SMTT(30)
  <2>11. \A k \in Keys : \A w \in 1..Len(log') :
          w < ctl'.next \/ (w = ctl'.next /\ ctl'.mark = 2 /\ k.op = "object") => Covered(k, w)'
    BY <1>1, <2>4, <2>9, SMT, SMTT(30)
  <2>12. CtlOK'
    BY <2>8, <2>9, <2>10, <2>11, ZenonT(30) DEF CtlOK
  <2> QED BY <1>4, <1>5, <1>8, <1>9, <2>5, <2>6, <2>12, ZenonT(30) DEF CacheInv
<1> QED BY <1>10, <1>11, ZenonT(30)

(* The control point of the marking.                                       *)
LEMMA EntityCtl ==
  ASSUME CacheInv, ctl.pc = "entity"
  PROVE  /\ ctl \in [pc : {"entity"}, seen : Nat, lm : Nat, next : Nat, mark : {1, 2}]
         /\ ctl.seen \in 1..Len(log) /\ ctl.next \in 1..ctl.seen
         /\ log[ctl.seen].at < ctl.lm /\ ctl.lm <= now
         /\ \A m \in Markers : marker[m] # None => marker[m].lm <= ctl.lm
         /\ \A k \in Keys : \A w \in 1..Len(log) :
              w < ctl.next \/ (w = ctl.next /\ ctl.mark = 2 /\ k.op = "object") => Covered(k, w)
BY SMT, SMTT(30) DEF CacheInv, CtlOK, Idle

(* What setting one marker changes.                                        *)
LEMMA MarkEntityFacts ==
  ASSUME CacheInv, MarkEntity
  PROVE  /\ marker' \in [Markers -> Marker \cup {None}]
         /\ \A m \in Markers :
              \/ marker'[m] = marker[m] 
              \/ marker'[m] = [lm |-> ctl.lm, exp |-> now + IteratorTTL]
         /\ Marks(log[ctl.next].tuple)[ctl.mark] \in Markers
         /\ marker'[Marks(log[ctl.next].tuple)[ctl.mark]] = [lm |-> ctl.lm, exp |-> now + IteratorTTL]
         /\ \A m \in Markers : marker[m] # None =>
              marker'[m] # None /\ marker[m].lm <= marker'[m].lm /\ marker[m].exp <= marker'[m].exp
<1> DEFINE t == log[ctl.next].tuple
           m0 == Marks(log[ctl.next].tuple)[ctl.mark]
           e == [lm |-> ctl.lm, exp |-> now + IteratorTTL]
<1>1. ctl.next \in 1..Len(log) /\ ctl.mark \in {1, 2} /\ ctl.lm \in Nat
  BY EntityCtl, SMT, SMTT(30) DEF MarkEntity, CacheInv, LogOK
<1>2. t \in Tuples
  BY <1>1, LogType, ZenonT(30) DEF CacheInv
<1>3. m0 \in Markers
  BY <1>1, <1>2, SMT, SMTT(30) DEF Markers
<1>4. now \in Nat /\ IteratorTTL \in Nat
  BY Constants, ZenonT(30) DEF CacheInv, LogOK
<1>5. e \in Marker /\ e # None /\ e.lm = ctl.lm /\ e.exp = now + IteratorTTL
  BY <1>1, <1>4, NoneAssumption, SMT, SMTT(30) DEF Marker
<1>6. marker' = [marker EXCEPT ![m0] = e]
  BY ZenonT(30) DEF MarkEntity
<1>7. marker \in [Markers -> Marker \cup {None}]
  BY ZenonT(30) DEF CacheInv, MarkerOK
<1> HIDE DEF m0, e, t
<1>8. /\ marker' \in [Markers -> Marker \cup {None}] /\ marker'[m0] = e
      /\ \A m \in Markers : m # m0 => marker'[m] = marker[m]
  BY <1>3, <1>5, <1>6, <1>7, ZenonT(30)
<1>9. ASSUME NEW m \in Markers, marker[m] # None
      PROVE  marker'[m] # None /\ marker[m].lm <= marker'[m].lm /\ marker[m].exp <= marker'[m].exp
  <2>1. marker[m] \in Marker /\ marker[m].lm <= ctl.lm /\ marker[m].exp <= now + IteratorTTL
    BY <1>9, EntityCtl, ZenonT(30) DEF CacheInv, MarkerOK, MarkEntity
  <2>2. marker[m].lm \in Nat /\ marker[m].exp \in Nat
    BY <2>1, ZenonT(30) DEF Marker
  <2>3. CASE m = m0
    BY <1>5, <1>8, <2>1, <2>2, <2>3, ZenonT(30)
  <2>4. CASE m # m0
    BY <1>8, <1>9, <2>2, <2>4, SMT, SMTT(30)
  <2> QED BY <2>3, <2>4, ZenonT(30)
<1> QED BY <1>3, <1>8, <1>9, ZenonT(30) DEF m0, e

(* The marker set for a change covers it for the readers that look at it.  *)
LEMMA NewMark ==
  ASSUME CacheInv, MarkEntity, NEW k \in Keys, NEW w, w = ctl.next,
         Marks(log[ctl.next].tuple)[ctl.mark] \in InvalidEntityKeys(k)
  PROVE  Covered(k, w)'
<1> DEFINE m == Marks(log[ctl.next].tuple)[ctl.mark]
<1>1. /\ ctl.pc = "entity" /\ UNCHANGED <<now, log, whole, iter>>
  BY ZenonT(30) DEF MarkEntity
<1>2. w \in 1..ctl.seen /\ ctl.seen \in 1..Len(log) /\ log[ctl.seen].at < ctl.lm /\ ctl.lm \in Nat
  BY <1>1, EntityCtl, ZenonT(30)
<1>3. w \in 1..Len(log)
  BY <1>2, SMT, SMTT(30) DEF CacheInv, LogOK
<1>4. log[w].at \in Nat /\ log[ctl.seen].at \in Nat /\ log[w].at <= log[ctl.seen].at
  <2>1. log[w].at \in Nat /\ log[ctl.seen].at \in Nat
    BY <1>2, <1>3, LogType, ZenonT(30) DEF CacheInv
  <2>2. w = ctl.seen \/ w < ctl.seen
    BY <1>2, SMT, SMTT(30)
  <2>3. w < ctl.seen => log[w].at < log[ctl.seen].at
    BY <1>2, <1>3, ZenonT(30) DEF CacheInv, LogOK
  <2> QED BY <2>1, <2>2, <2>3, SMT, SMTT(30)
<1>5. m \in Markers /\ marker'[m] = [lm |-> ctl.lm, exp |-> now + IteratorTTL]
  BY MarkEntityFacts, ZenonT(30)
<1>6. marker'[m].lm = ctl.lm /\ marker'[m].exp = now + IteratorTTL /\ marker'[m] # None
  <2>1. now \in Nat /\ IteratorTTL \in Nat
    BY Constants, ZenonT(30) DEF CacheInv, LogOK
  <2> QED BY <1>2, <1>5, <2>1, NoneAssumption, SMT, SMTT(30)
<1> HIDE DEF m
<1>7. m \in InvalidEntityKeys(k) /\ log' = log
  BY <1>1, ZenonT(30) DEF m
<1>8. log[w].at < ctl.lm /\ log[w].at + IteratorTTL <= now + IteratorTTL
  <2>1. log[w].at <= now /\ now \in Nat /\ IteratorTTL \in Nat
    BY <1>3, LogFacts, Constants, ZenonT(30)
  <2>2. log[w].at < ctl.lm
    BY <1>2, <1>4, SMT, SMTT(30)
  <2> QED BY <1>4, <2>1, <2>2, SMT, SMTT(30)
<1>9. marker'[m] # None /\ log'[w].at < marker'[m].lm /\ log'[w].at + IteratorTTL <= marker'[m].exp
  BY <1>6, <1>7, <1>8, ZenonT(30)
<1> QED BY <1>7, <1>9, ZenonT(30) DEF Covered, Reached

(* The iterators stay as described when none is stored.                    *)
LEMMA IterFrame ==
  ASSUME CacheInv, UNCHANGED <<now, conf, log>>, iter' \in [Keys -> Iterator \cup {None}],
         \A k \in Keys : iter'[k] # None => iter'[k] = iter[k]
  PROVE  IterOK'
<1> SUFFICES ASSUME NEW k \in Keys, iter'[k] # None
             PROVE  /\ iter'[k] \in Iterator /\ iter'[k].snap <= Len(log')
                    /\ 0 < iter'[k].lm /\ iter'[k].lm <= iter'[k].flushed /\ iter'[k].flushed <= now'
                    /\ now' < iter'[k].exp /\ iter'[k].exp <= iter'[k].flushed + IteratorTTL + LargestJitter'
  BY ZenonT(30) DEF IterOK
<1>1. iter'[k] = iter[k] /\ iter[k] # None /\ LargestJitter' = LargestJitter
  BY JitterFacts, ZenonT(30)
<1> QED BY <1>1, ZenonT(30) DEF CacheInv, IterOK

(* Setting a marker uncovers nothing: the new one is later and lives       *)
(* longer than the one it replaces.                                        *)
LEMMA MarkEntityCovers ==
  ASSUME CacheInv, MarkEntity, NEW k \in Keys, NEW w \in 1..Len(log)
  PROVE  /\ Covered(k, w) => Covered(k, w)'
         /\ w = ctl.next /\ (ctl.mark = 2 \/ k.op = "object") => Covered(k, w)'
<1>1. ctl.pc = "entity" /\ UNCHANGED <<now, log, whole, iter>>
  BY ZenonT(30) DEF MarkEntity
<1>2. Covered(k, w) => Covered(k, w)'
  BY <1>1, MarkEntityFacts, CoveredKept, ZenonT(30)
<1>3. ASSUME w = ctl.next, ctl.mark = 2 \/ k.op = "object"
      PROVE  Covered(k, w)'
  <2>1. CASE ~Matches(log[w].tuple, k)
    BY <1>1, <2>1, ZenonT(30) DEF Covered, Due
  <2>2. CASE Matches(log[w].tuple, k) /\ k.op = "object" /\ ctl.mark = 2
    BY <1>1, <1>2, <1>3, <2>2, EntityCtl, ZenonT(30)
  <2>3. CASE Matches(log[w].tuple, k) /\ ~(k.op = "object" /\ ctl.mark = 2)
    <3>1. log[w].tuple \in Tuples
      BY LogType, ZenonT(30) DEF CacheInv
    <3>2. \/ k.op = "object" /\ Marks(log[w].tuple)[1] \in InvalidEntityKeys(k)
          \/ k.op = "user" /\ Marks(log[w].tuple)[2] \in InvalidEntityKeys(k)
      BY <2>3, <3>1, MarksReach, ZenonT(30)
    <3>3. ctl.mark \in {1, 2}
      BY <1>1, EntityCtl, ZenonT(30)
    <3>4. Marks(log[ctl.next].tuple)[ctl.mark] \in InvalidEntityKeys(k)
      BY <1>3, <2>3, <3>2, <3>3, ZenonT(30)
    <3> QED BY <1>3, <3>4, NewMark, ZenonT(30)
  <2> QED BY <2>1, <2>2, <2>3, ZenonT(30)
<1> QED BY <1>2, <1>3, ZenonT(30)

(* Setting a marker keeps the invariant, and the last one completes the    *)
(* run.                                                                    *)
LEMMA MarkEntityInv ==
  ASSUME CacheInv, MarkEntity
  PROVE  CacheInv'
<1>1. /\ ctl.pc = "entity" /\ UNCHANGED <<now, conf, log, changelog, whole, iter, query, req, drains>>
      /\ IF ctl.mark = 1 THEN ctl' = [ctl EXCEPT !.mark = 2] /\ UNCHANGED done
         ELSE IF ctl.next < ctl.seen
           THEN ctl' = [ctl EXCEPT !.mark = 1, !.next = @ + 1] /\ UNCHANGED done
           ELSE End(ctl.seen)
  BY ZenonT(30) DEF MarkEntity
<1>2. /\ ctl \in [pc : {"entity"}, seen : Nat, lm : Nat, next : Nat, mark : {1, 2}]
      /\ ctl.seen \in 1..Len(log) /\ ctl.next \in 1..ctl.seen
      /\ log[ctl.seen].at < ctl.lm /\ ctl.lm <= now
      /\ \A m \in Markers : marker[m] # None => marker[m].lm <= ctl.lm
  BY <1>1, EntityCtl, ZenonT(30)
<1>3. done' \in 0..Len(log) /\ done <= done'
  <2>1. CASE done' = done
    BY <2>1, SMT, SMTT(30) DEF CacheInv, LogOK
  <2>2. CASE End(ctl.seen)
    BY <1>2, <2>2, EndFacts, ZenonT(30)
  <2> QED BY <1>1, <2>1, <2>2, ZenonT(30)
<1>4. now \in Nat /\ now <= now' /\ now' \in Nat /\ Len(log) \in Nat /\ Len(log') \in Nat /\ IteratorTTL \in Nat
  BY <1>1, Constants, SMT, SMTT(30) DEF CacheInv, LogOK
<1>5. LogOK' /\ Prefix
  BY <1>1, <1>3, <1>4, LogFrame, SamePrefix, ZenonT(30)
<1>6. IterOK' /\ DrainOK'
  <2>1. LargestJitter' = LargestJitter
    BY <1>1, JitterFacts, ZenonT(30)
  <2> QED BY <1>1, <1>4, <1>5, <2>1, DrainFrame, ZenonT(30) DEF CacheInv, IterOK
<1>7. RequestsOK' /\ QueryOK'
  <2>1. RequestsOK'
    BY <1>1, <1>3, <1>4, <1>5, RequestsFrame, ZenonT(30)
  <2>2. query' \in [Keys -> Response \cup {None}]
    BY <1>1, ZenonT(30) DEF CacheInv, QueryOK
  <2> QED BY <1>1, <1>3, <1>5, <2>1, <2>2, QueryFrame, ZenonT(30)
<1>8. \A m \in Markers : marker'[m] # None => marker'[m].lm <= ctl.lm
  BY <1>2, MarkEntityFacts, SMT, SMTT(30)
<1>9. MarkerOK'
  <2>1. ASSUME NEW m \in Markers, marker'[m] # None
        PROVE  marker'[m] \in Marker /\ marker'[m].lm <= now' /\ marker'[m].exp <= now' + IteratorTTL
    <3>1. marker'[m] \in Marker
      BY <2>1, MarkEntityFacts, ZenonT(30)
    <3>2. marker'[m].exp <= now + IteratorTTL
      <4>1. CASE marker'[m] = marker[m]
        BY <2>1, <4>1, ZenonT(30) DEF CacheInv, MarkerOK
      <4>2. CASE marker'[m] = [lm |-> ctl.lm, exp |-> now + IteratorTTL]
        BY <1>4, <4>2, SMT, SMTT(30)
      <4> QED BY <4>1, <4>2, MarkEntityFacts, ZenonT(30)
    <3>3. marker'[m].lm \in Nat /\ ctl.lm \in Nat
      BY <1>2, <3>1, ZenonT(30) DEF Marker
    <3> QED BY <1>1, <1>2, <1>4, <1>8, <2>1, <3>1, <3>2, <3>3, SMT, SMTT(30)
  <2>2. whole' \in Nat /\ whole' <= now'
    BY <1>1, ZenonT(30) DEF CacheInv, MarkerOK
  <2> QED BY <2>1, <2>2, MarkEntityFacts, ZenonT(30) DEF MarkerOK
<1>10. ASSUME ctl' \in [pc : {"entity"}, seen : Nat, lm : Nat, next : Nat, mark : {1, 2}], done' = done,
              ctl'.seen = ctl.seen, ctl'.lm = ctl.lm, ctl'.next \in 1..ctl.seen,
              \A k \in Keys : \A w \in 1..Len(log') :
                w < ctl'.next \/ (w = ctl'.next /\ ctl'.mark = 2 /\ k.op = "object") => Covered(k, w)'
       PROVE  CacheInv'
  <2>1. CoveredOK'
    BY <1>5, <1>10, MarkEntityCovers, CoveredAfter, ZenonT(30)
  <2>2. ctl'.pc = "entity"
    BY <1>10, ZenonT(30)
  <2>3. ChangelogOK'
    BY <1>1, <1>3, <1>5, <1>10, <2>2, ChangelogFrame, ZenonT(30)
  <2>4. CtlOK'
    BY <1>1, <1>2, <1>8, <1>10, ZenonT(30) DEF CtlOK
  <2> QED BY <1>5, <1>6, <1>7, <1>9, <2>1, <2>3, <2>4, ZenonT(30) DEF CacheInv
<1>11. CASE ctl.mark = 1
  <2>1. ctl' = [ctl EXCEPT !.mark = 2] /\ done' = done
    BY <1>1, <1>11, ZenonT(30)
  <2>2. /\ ctl' \in [pc : {"entity"}, seen : Nat, lm : Nat, next : Nat, mark : {1, 2}]
        /\ ctl'.seen = ctl.seen /\ ctl'.lm = ctl.lm /\ ctl'.next = ctl.next /\ ctl'.mark = 2
    BY <1>2, <2>1, ZenonT(30)
  <2>3. ASSUME NEW k \in Keys, NEW w \in 1..Len(log'),
               w < ctl'.next \/ (w = ctl'.next /\ ctl'.mark = 2 /\ k.op = "object")
        PROVE  Covered(k, w)'
    <3>1. w \in 1..Len(log)
      BY <1>1, ZenonT(30)
    <3>2. CASE w < ctl.next
      BY <1>1, <3>1, <3>2, EntityCtl, MarkEntityCovers, ZenonT(30)
    <3>3. CASE w = ctl.next /\ k.op = "object"
      BY <3>1, <3>3, MarkEntityCovers, ZenonT(30)
    <3> QED BY <2>2, <2>3, <3>2, <3>3, ZenonT(30)
  <2> QED BY <1>2, <1>10, <2>1, <2>2, <2>3, ZenonT(30)
<1>12. ASSUME ctl.mark = 2, NEW k \in Keys, NEW w \in 1..Len(log), w <= ctl.next
       PROVE  Covered(k, w)'
  <2>1. w < ctl.next \/ w = ctl.next
    BY <1>2, <1>12, SMT, SMTT(30)
  <2> QED BY <1>1, <1>12, <2>1, EntityCtl, MarkEntityCovers, ZenonT(30)
<1>13. CASE ctl.mark = 2 /\ ctl.next < ctl.seen
  <2>1. ctl' = [ctl EXCEPT !.mark = 1, !.next = ctl.next + 1] /\ done' = done
    BY <1>1, <1>13, SMT, SMTT(30)
  <2>2. /\ ctl' \in [pc : {"entity"}, seen : Nat, lm : Nat, next : Nat, mark : {1, 2}]
        /\ ctl'.seen = ctl.seen /\ ctl'.lm = ctl.lm /\ ctl'.next = ctl.next + 1 /\ ctl'.mark = 1
    <3> DEFINE c == [ctl EXCEPT !.mark = 1]
               n == ctl.next + 1
    <3>1. n \in Nat
      BY <1>2, SMT, SMTT(30)
    <3>2. /\ c \in [pc : {"entity"}, seen : Nat, lm : Nat, next : Nat, mark : {1, 2}]
          /\ c.seen = ctl.seen /\ c.lm = ctl.lm /\ c.mark = 1
      BY <1>2, ZenonT(30)
    <3>3. ctl' = [c EXCEPT !.next = n]
      BY <2>1, ZenonT(30)
    <3> HIDE DEF c, n
    <3>4. /\ ctl' \in [pc : {"entity"}, seen : Nat, lm : Nat, next : Nat, mark : {1, 2}]
          /\ ctl'.seen = c.seen /\ ctl'.lm = c.lm /\ ctl'.next = n /\ ctl'.mark = c.mark
      BY <3>1, <3>2, <3>3, ZenonT(30)
    <3> QED BY <3>2, <3>4, ZenonT(30) DEF n
  <2>3. ctl'.next \in 1..ctl.seen
    BY <1>2, <1>13, <2>2, SMT, SMTT(30)
  <2>4. ASSUME NEW k \in Keys, NEW w \in 1..Len(log'),
               w < ctl'.next \/ (w = ctl'.next /\ ctl'.mark = 2 /\ k.op = "object")
        PROVE  Covered(k, w)'
    <3>1. w \in 1..Len(log) /\ w <= ctl.next
      BY <1>1, <1>2, <2>2, <2>4, SMT, SMTT(30)
    <3> QED BY <1>12, <1>13, <3>1, ZenonT(30)
  <2> QED BY <1>10, <2>1, <2>2, <2>3, <2>4, ZenonT(30)
<1>14. CASE ctl.mark = 2 /\ ~(ctl.next < ctl.seen)
  <2>1. End(ctl.seen) /\ ctl.next = ctl.seen
    BY <1>1, <1>2, <1>14, SMT, SMTT(30)
  <2>2. /\ ctl' = Idle /\ done <= done' /\ ctl.seen <= done'
        /\ \A w \in 1..done' : w \in 1..done \/ w \in 1..ctl.seen
    BY <1>2, <2>1, EndFacts, ZenonT(30)
  <2>3. ASSUME NEW k \in Keys, NEW w \in 1..done'
        PROVE  Covered(k, w)'
    <3>1. w \in 1..Len(log)
      BY <1>3, <1>4, SMT, SMTT(30)
    <3>2. CASE w \in 1..done
      BY <3>1, <3>2, MarkEntityCovers, ZenonT(30) DEF CacheInv, CoveredOK
    <3>3. CASE w \in 1..ctl.seen
      <4>1. w <= ctl.next
        BY <2>1, <3>3, SMT, SMTT(30)
      <4> QED BY <1>12, <1>14, <3>1, <4>1, ZenonT(30)
    <3> QED BY <2>2, <3>2, <3>3, ZenonT(30)
  <2>4. CoveredOK'
    BY <2>3, ZenonT(30) DEF CoveredOK
  <2>5. ChangelogOK'
    BY <1>1, <1>3, <1>5, <2>2, ChangelogFrame, ZenonT(30) DEF Idle
  <2>6. CtlOK'
    BY <2>2, ZenonT(30) DEF CtlOK
  <2> QED BY <1>5, <1>6, <1>7, <1>9, <2>4, <2>5, <2>6, ZenonT(30) DEF CacheInv
<1> QED BY <1>2, <1>11, <1>13, <1>14, ZenonT(30)

(* A step that leaves the clock, the changelog and the caches alone keeps  *)
(* the invariant if it keeps goroutines and requests as described and      *)
(* starts no marking.                                                      *)
LEMMA CalmFrame ==
  ASSUME CacheInv, UNCHANGED <<now, conf, log, caches, done>>, DrainOK', RequestsOK', CtlOK',
         ctl' = ctl \/ (ctl'.pc \notin {"mark", "entity"} /\ ctl.pc \notin {"mark", "entity"})
  PROVE  CacheInv'
<1>1. UNCHANGED <<now, conf, log, changelog, whole, marker, iter, query, done>>
  BY ZenonT(30) DEF caches
<1>2. LogOK' /\ MarkerOK' /\ IterOK' /\ QueryOK'
  BY <1>1, ZenonT(30) DEF CacheInv, LogOK, MarkerOK, IterOK, QueryOK, Fresh, Misses, LargestJitter
<1>3. CoveredOK'
  BY <1>1, ZenonT(30) DEF CacheInv, CoveredOK, Covered, Due, Reached
<1>4. Prefix /\ done <= done'
  BY <1>1, SamePrefix, SMT, SMTT(30) DEF CacheInv, LogOK
<1>5. ChangelogOK'
  BY <1>1, <1>2, <1>4, ChangelogFrame, ZenonT(30)
<1> QED BY <1>2, <1>3, <1>5, ZenonT(30) DEF CacheInv

(* When such a step leaves the controller alone, it stays as described.    *)
LEMMA CalmCtl ==
  ASSUME CacheInv, UNCHANGED <<now, conf, log, caches, done>>, ctl' = ctl
  PROVE  CtlOK'
<1>1. UNCHANGED <<now, conf, log, changelog, whole, marker, iter, query, done>>
  BY ZenonT(30) DEF caches
<1>2. \A k \in Keys : \A w \in 1..Len(log) : Covered(k, w)' = Covered(k, w)
  BY <1>1, ZenonT(30) DEF Covered, Due, Reached
<1>3. Prefix /\ LogOK' /\ now <= now' /\ done <= done'
  BY <1>1, SamePrefix, SMT, SMTT(30) DEF CacheInv, LogOK
<1> QED BY <1>1, <1>2, <1>3, CtlFrame, ZenonT(30)

(* So do the goroutines and requests it leaves alone.                      *)
LEMMA CalmOthers ==
  ASSUME CacheInv, UNCHANGED <<now, conf, log, caches, done>>
  PROVE  /\ drains' = drains => DrainOK'
         /\ req' = req => RequestsOK'
         /\ \A r \in Reqs : req'[r] = req[r] => ReqOK(r)'
<1>1. UNCHANGED <<now, conf, log, done>>
  BY ZenonT(30) DEF caches
<1>2. Prefix /\ LogOK' /\ now <= now' /\ done <= done' /\ Len(log') \in Nat /\ now' \in Nat
  BY <1>1, SamePrefix, SMT, SMTT(30) DEF CacheInv, LogOK
<1> QED BY <1>2, DrainFrame, ReqFrame, RequestsFrame, ZenonT(30)

(* The steps of the controller that only read keep the invariant.          *)
LEMMA ControllerCalmInv ==
  ASSUME CacheInv, ListObjects \/ GetChangelog \/ ReadChanges \/ ReadChangesTimesOut
  PROVE  CacheInv'
<1>1. UNCHANGED <<now, conf, log, caches, done>> /\ UNCHANGED <<req, drains>>
  BY ZenonT(30) DEF ListObjects, GetChangelog, ReadChanges, ReadChangesTimesOut
<1>2. DrainOK' /\ RequestsOK'
  BY <1>1, CalmOthers, ZenonT(30)
<1>3. log' = log /\ done' = done
  BY <1>1, ZenonT(30)
<1>4. CASE ListObjects \/ ReadChangesTimesOut
  <2>1. ctl.pc \in {"idle", "read"} /\ (ctl' = Idle \/ ctl' = [pc |-> "get"])
    BY <1>4, ZenonT(30) DEF ListObjects, ReadChangesTimesOut, InvalidateIfNeeded
  <2>2. CtlOK' /\ ctl'.pc \notin {"mark", "entity"}
    BY <2>1, SMT, SMTT(30) DEF CtlOK, Idle
  <2> QED BY <1>1, <1>2, <2>1, <2>2, CalmFrame, ZenonT(30)
<1>5. CASE GetChangelog
  <2> DEFINE c == IF Live(changelog) THEN changelog.lm ELSE 0
  <2>1. ctl.pc = "get" /\ ctl' = [pc |-> "read", cached |-> c]
    BY <1>5, ZenonT(30) DEF GetChangelog
  <2>2. c \in Nat /\ (c = 0 \/ \E w \in 1..done : c = log[w].ts)
    <3>1. CASE changelog = None
      BY <3>1, ZenonT(30) DEF Live
    <3>2. CASE changelog # None
      <4>1. changelog \in Checkpoint /\ changelog.seen \in 1..Len(log) /\ changelog.lm = log[changelog.seen].ts /\ changelog.seen <= done
        BY <2>1, <3>2, ZenonT(30) DEF CacheInv, ChangelogOK
      <4>2. changelog.seen \in 1..done
        BY <4>1, SMT, SMTT(30) DEF CacheInv, LogOK
      <4> QED BY <3>2, <4>1, <4>2, ZenonT(30) DEF Live, Checkpoint
    <3> QED BY <3>1, <3>2, ZenonT(30)
  <2> HIDE DEF c
  <2>3. ctl' \in [pc : {"read"}, cached : Nat] /\ ctl'.cached = c
    BY <2>1, <2>2, ZenonT(30)
  <2>4. CtlOK'
    BY <1>3, <2>2, <2>3, ZenonT(30) DEF CtlOK, Known
  <2> QED BY <1>1, <1>2, <2>1, <2>3, <2>4, CalmFrame, ZenonT(30)
<1>6. CASE ReadChanges
  <2>1. ctl.pc = "read" /\ log # <<>> /\ ctl' = [pc |-> "set", cached |-> ctl.cached, seen |-> Len(log)]
    BY <1>6, ZenonT(30) DEF ReadChanges
  <2>2. ctl \in [pc : {"read"}, cached : Nat] /\ Known(ctl.cached)
    BY <2>1, SMT, SMTT(30) DEF CacheInv, CtlOK, Idle
  <2>3. Len(log) \in 1..Len(log)
    BY <2>1, SMT, SMTT(30) DEF CacheInv, LogOK
  <2>4. ctl' \in [pc : {"set"}, cached : Nat, seen : Nat] /\ ctl'.cached = ctl.cached /\ ctl'.seen = Len(log)
    BY <2>1, <2>2, <2>3, SMT, SMTT(30)
  <2>5. CtlOK'
    BY <1>3, <2>2, <2>3, <2>4, ZenonT(30) DEF CtlOK, Known
  <2> QED BY <1>1, <1>2, <2>1, <2>4, <2>5, CalmFrame, ZenonT(30)
<1> QED BY <1>4, <1>5, <1>6, ZenonT(30)

(* Storing the changelog entry keeps the invariant: a run that finds       *)
(* nothing newer than the entry it had may end, because a completed run    *)
(* has seen all of it.                                                     *)
LEMMA SetChangelogInv ==
  ASSUME CacheInv, SetChangelog
  PROVE  CacheInv'
<1> DEFINE actual == log[ctl.seen].ts
           seen == ctl.seen
<1>1. /\ ctl.pc = "set"
      /\ changelog' = [lm |-> actual, checked |-> now, exp |-> now + QueryTTL, seen |-> seen]
      /\ IF actual > ctl.cached THEN ctl' = [pc |-> "mark", seen |-> seen] /\ UNCHANGED done
                                ELSE End(seen)
      /\ UNCHANGED <<now, conf, log, whole, marker, iter, query, req, drains>>
  BY ZenonT(30) DEF SetChangelog
<1>2. ctl \in [pc : {"set"}, cached : Nat, seen : Nat] /\ Known(ctl.cached) /\ seen \in 1..Len(log)
  <2>1. CtlOK
    BY ZenonT(30) DEF CacheInv
  <2> QED BY <1>1, <2>1, SMT, SMTT(30) DEF CtlOK, Idle
<1>3. actual = log[seen].at /\ actual \in Nat /\ 0 < actual /\ ctl.cached \in Nat
  BY <1>2, LogType, ZenonT(30) DEF CacheInv, LogOK
<1>4. ASSUME ~(actual > ctl.cached)
      PROVE  seen <= done /\ done' = done /\ ctl' = Idle
  <2>1. PICK v \in 1..done : ctl.cached = log[v].ts
    BY <1>2, <1>3, <1>4, ZenonT(30) DEF Known
  <2>2. v \in 1..Len(log) /\ v \in Nat /\ v <= done /\ done \in 0..Len(log)
    BY SMT, SMTT(30) DEF CacheInv, LogOK
  <2>3. ctl.cached = log[v].at
    BY <2>1, <2>2, ZenonT(30) DEF CacheInv, LogOK
  <2>4. ~(v < seen)
    BY <1>2, <1>3, <1>4, <2>2, <2>3, ZenonT(30) DEF CacheInv, LogOK
  <2>5. seen <= done
    BY <1>2, <2>2, <2>4, SMT, SMTT(30)
  <2> QED BY <1>1, <1>2, <1>4, <2>2, <2>5, MaxPair, SMT, SMTT(30) DEF End
<1>5. done' = done /\ ctl' \in {Idle, [pc |-> "mark", seen |-> seen]} /\ (ctl' = Idle => seen <= done)
  <2>1. CASE actual > ctl.cached
    <3>1. [pc |-> "mark", seen |-> seen] # Idle
      BY ZenonT(30) DEF Idle
    <3> QED BY <1>1, <2>1, <3>1, ZenonT(30)
  <2> QED BY <1>4, <2>1, ZenonT(30)
<1>6. now \in Nat /\ QueryTTL \in Nat
  BY Constants, ZenonT(30) DEF CacheInv, LogOK
<1>7. LogOK' /\ MarkerOK' /\ IterOK' /\ QueryOK' /\ DrainOK'
  BY <1>1, <1>5, ZenonT(30) DEF CacheInv, LogOK, MarkerOK, IterOK, QueryOK, DrainOK, Fresh, Misses, LargestJitter
<1>8. CoveredOK'
  BY <1>1, <1>5, ZenonT(30) DEF CacheInv, CoveredOK, Covered, Due, Reached
<1>9. RequestsOK'
  <2>1. Prefix /\ now <= now' /\ done <= done'
    BY <1>1, <1>5, SamePrefix, LogFacts, SMT, SMTT(30)
  <2> QED BY <1>1, <1>7, <2>1, RequestsFrame, ZenonT(30)
<1>10. CtlOK'
  <2>1. CASE ctl' = Idle
    BY <2>1, ZenonT(30) DEF CtlOK
  <2>2. CASE ctl' = [pc |-> "mark", seen |-> seen]
    BY <1>1, <1>2, <2>2, ZenonT(30) DEF CtlOK
  <2> QED BY <1>5, <2>1, <2>2, ZenonT(30)
<1>11. ChangelogOK'
  <2>1. /\ changelog' \in Checkpoint /\ changelog'.seen = seen /\ changelog'.lm = actual
    <3>1. now + QueryTTL \in Nat /\ seen \in Nat
      BY <1>2, <1>6, LogFacts, SMT, SMTT(30)
    <3> HIDE DEF actual, seen
    <3> QED BY <1>1, <1>3, <1>6, <3>1, ZenonT(30) DEF Checkpoint
  <2>2. IF ctl'.pc \in {"mark", "entity"} THEN changelog'.seen = ctl'.seen ELSE changelog'.seen <= done'
    BY <1>5, <2>1, SMT, SMTT(30) DEF Idle
  <2> QED BY <1>1, <1>2, <2>1, <2>2, ZenonT(30) DEF ChangelogOK
<1> QED BY <1>7, <1>8, <1>9, <1>10, <1>11, ZenonT(30) DEF CacheInv

-----------------------------------------------------------------------------
(* The requests and the goroutines that drain iterators into the cache.    *)

(* A step of one request leaves the others alone.                          *)
LEMMA ReqStep ==
  ASSUME CacheInv, LogOK', Prefix, now <= now', done <= done', NEW r \in Reqs, NEW q,
         req' = [req EXCEPT ![r] = q], req'[r] = q => ReqOK(r)'
  PROVE  RequestsOK'
<1>1. DOMAIN req = Reqs
  BY ZenonT(30) DEF CacheInv, RequestsOK
<1>2. DOMAIN req' = Reqs /\ req'[r] = q /\ \A u \in Reqs : u # r => req'[u] = req[u]
  BY <1>1, ZenonT(30)
<1> QED BY <1>2, ReqFrame, ZenonT(30) DEF RequestsOK

(* What is known when clock and changelog do not move.                     *)
LEMMA Frozen ==
  ASSUME CacheInv, UNCHANGED <<now, conf, log, done>>
  PROVE  LogOK' /\ Prefix /\ now <= now' /\ done <= done' /\ now \in Nat /\ Len(log) \in Nat /\ done \in 0..Len(log)
BY SamePrefix, SMT, SMTT(30) DEF CacheInv, LogOK

(* What a request that is not idle knows.                                  *)
LEMMA BusyReq ==
  ASSUME CacheInv, NEW r \in Reqs, req[r].pc # "idle"
  PROVE  /\ req[r].pc \in {"query", "iter", "open", "opened", "next", "answer"}
         /\ req[r].key \in Keys /\ req[r].high \in BOOLEAN
         /\ req[r].done \in 0..done /\ req[r].committed \in 0..Len(log)
         /\ req[r].high => req[r].pc \notin {"query", "iter"}
         /\ req[r].pc = "query" => req[r].known = 0 \/ (req[r].known \in 1..Len(log) /\ req[r].inv = log[req[r].known].at)
         /\ req[r].pc = "iter" => req[r] \in [pc : {"iter"}, key : Keys, high : BOOLEAN, done : Nat, committed : Nat]
         /\ req[r].pc \in {"opened", "next"} => req[r].snap \in req[r].done..Len(log)
         /\ req[r].pc \in {"opened", "next", "answer"} /\ req[r].high => req[r].committed <= req[r].snap
         /\ req[r].pc = "next" => req[r].init \in 1..now
         /\ req[r].pc = "answer" => /\ req[r].snap \in 0..Len(log) /\ req[r].flushed \in Nat
                                    /\ Fresh(req[r].key, req[r].snap, req[r].flushed, req[r].done, now)
<1>1. req[r] # Idle
  BY SMT, SMTT(30) DEF Idle
<1> QED BY <1>1, ZenonT(30) DEF CacheInv, RequestsOK, ReqOK

(* The beginning of a request keeps the invariant.                         *)
LEMMA BeginInv ==
  ASSUME CacheInv, NEW r \in Reqs, NEW k \in Keys, NEW high \in BOOLEAN, Begin(r, k, high)
  PROVE  CacheInv'
<1> DEFINE cached == Live(changelog) /\ ~high
           inv == IF cached THEN changelog.lm ELSE 0
           known == IF cached THEN changelog.seen ELSE 0
           committed == IF high THEN Len(log) ELSE 0
           q == [pc |-> IF high THEN "open" ELSE "query", key |-> k, high |-> high,
                 inv |-> inv, known |-> known, done |-> done, committed |-> committed]
<1>1. /\ req' = [req EXCEPT ![r] = q] /\ UNCHANGED <<now, conf, log, caches, done>> /\ drains' = drains
      /\ ctl' = ctl \/ InvalidateIfNeeded
  BY ZenonT(30) DEF Begin
<1>2. LogOK' /\ Prefix /\ now <= now' /\ done <= done' /\ Len(log) \in Nat /\ done \in 0..Len(log)
  BY <1>1, Frozen, ZenonT(30)
<1>3. ctl' = ctl \/ (ctl.pc = "idle" /\ ctl' = [pc |-> "get"])
  BY <1>1, ZenonT(30) DEF InvalidateIfNeeded
<1>4. CtlOK'
  <2>1. CASE ctl' = ctl
    BY <1>1, <2>1, CalmCtl, ZenonT(30)
  <2>2. CASE ctl' = [pc |-> "get"]
    BY <2>2, ZenonT(30) DEF CtlOK
  <2> QED BY <1>3, <2>1, <2>2, ZenonT(30)
<1>5. known = 0 \/ (known \in 1..Len(log) /\ inv = log[known].at)
  <2>1. CASE ~cached
    BY <2>1, ZenonT(30)
  <2>2. CASE cached
    BY <2>2, ZenonT(30) DEF CacheInv, ChangelogOK, LogOK, Live
  <2> QED BY <2>1, <2>2, ZenonT(30)
<1>6. committed \in 0..Len(log)
  BY <1>2, SMT, SMTT(30)
<1> HIDE DEF inv, known, committed, cached
<1>7. /\ q.pc = (IF high THEN "open" ELSE "query") /\ q.key = k /\ q.high = high /\ q.inv = inv /\ q.known = known
      /\ q.done = done /\ q.committed = committed
  BY ZenonT(30)
<1> HIDE DEF q
<1>8. ASSUME req'[r] = q PROVE ReqOK(r)'
  <2>1. log' = log /\ done' = done
    BY <1>1, ZenonT(30)
  <2>2. q.pc \in {"open", "query"} /\ (q.high => q.pc = "open")
    BY <1>7, ZenonT(30)
  <2>3. q.done \in 0..done' /\ q.committed \in 0..Len(log') /\ q.key \in Keys /\ q.high \in BOOLEAN
    BY <1>2, <1>6, <1>7, <2>1, SMT, SMTT(30)
  <2>4. q.pc = "query" => q.known = 0 \/ (q.known \in 1..Len(log') /\ q.inv = log'[q.known].at)
    BY <1>5, <1>7, <2>1, ZenonT(30)
  <2> QED BY <1>8, <2>2, <2>3, <2>4, ZenonT(30) DEF ReqOK
<1>9. RequestsOK'
  BY <1>1, <1>2, <1>8, ReqStep, ZenonT(30)
<1>10. DrainOK'
  BY <1>1, CalmOthers, ZenonT(30)
<1>11. ctl' = ctl \/ (ctl'.pc \notin {"mark", "entity"} /\ ctl.pc \notin {"mark", "entity"})
  BY <1>3, SMT, SMTT(30)
<1> QED BY <1>1, <1>4, <1>9, <1>10, <1>11, CalmFrame, ZenonT(30)

(* So does its end.                                                        *)
LEMMA IdleInv ==
  ASSUME CacheInv, NEW r \in Reqs, req' = [req EXCEPT ![r] = Idle],
         UNCHANGED <<now, conf, log, caches, done>>, UNCHANGED <<ctl, drains>>
  PROVE  CacheInv'
<1>1. LogOK' /\ Prefix /\ now <= now' /\ done <= done'
  BY Frozen, ZenonT(30)
<1>2. RequestsOK'
  BY <1>1, ReqStep, ZenonT(30) DEF ReqOK
<1>3. DrainOK' /\ CtlOK'
  BY CalmOthers, CalmCtl, ZenonT(30)
<1> QED BY <1>2, <1>3, CalmFrame, ZenonT(30)

(* So does the lookup in the query cache.                                  *)
LEMMA LookUpQueryInv ==
  ASSUME CacheInv, NEW r \in Reqs, LookUpQuery(r)
  PROVE  CacheInv'
<1>1. /\ req[r].pc = "query" /\ UNCHANGED <<now, conf, log, caches, done>> /\ UNCHANGED <<ctl, drains>>
      /\ \/ req' = [req EXCEPT ![r] = Idle]
         \/ req' = [req EXCEPT ![r] = Narrowed(r, IF conf.iterators THEN "iter" ELSE "open")]
  BY ZenonT(30) DEF LookUpQuery
<1>2. CASE req' = [req EXCEPT ![r] = Idle]
  BY <1>1, <1>2, IdleInv, ZenonT(30)
<1>3. CASE req' = [req EXCEPT ![r] = Narrowed(r, IF conf.iterators THEN "iter" ELSE "open")]
  <2> DEFINE pc == IF conf.iterators THEN "iter" ELSE "open"
             q == [pc |-> pc, key |-> req[r].key, high |-> req[r].high, done |-> req[r].done,
                   committed |-> req[r].committed]
  <2>1. req' = [req EXCEPT ![r] = q]
    BY <1>3, ZenonT(30) DEF Narrowed
  <2>2. LogOK' /\ Prefix /\ now <= now' /\ done <= done' /\ Len(log) \in Nat /\ done \in 0..Len(log)
    BY <1>1, Frozen, ZenonT(30)
  <2>3. /\ req[r].key \in Keys /\ req[r].high \in BOOLEAN /\ ~req[r].high
        /\ req[r].done \in 0..done /\ req[r].committed \in 0..Len(log)
    BY <1>1, BusyReq, ZenonT(30)
  <2>4. pc \in {"iter", "open"}
    BY ZenonT(30)
  <2> HIDE DEF pc
  <2>5. /\ q.pc = pc /\ q.key = req[r].key /\ q.high = req[r].high /\ q.done = req[r].done
        /\ q.committed = req[r].committed
        /\ pc = "iter" => q \in [pc : {"iter"}, key : Keys, high : BOOLEAN, done : Nat, committed : Nat]
    <3>1. req[r].done \in Nat /\ req[r].committed \in Nat
      BY <2>2, <2>3, SMT, SMTT(30)
    <3> QED BY <2>3, <3>1, ZenonT(30)
  <2> HIDE DEF q
  <2>6. ASSUME req'[r] = q PROVE ReqOK(r)'
    <3>1. log' = log /\ done' = done
      BY <1>1, ZenonT(30)
    <3> QED BY <2>3, <2>4, <2>5, <2>6, <3>1, ZenonT(30) DEF ReqOK
  <2>7. RequestsOK'
    BY <2>1, <2>2, <2>6, ReqStep, ZenonT(30)
  <2> QED BY <1>1, <2>7, CalmOthers, CalmCtl, CalmFrame, ZenonT(30)
<1> QED BY <1>1, <1>2, <1>3, ZenonT(30)

(* So does the datastore creating the iterator.                            *)
LEMMA OpenInv ==
  ASSUME CacheInv, NEW r \in Reqs, Open(r)
  PROVE  CacheInv'
<1> DEFINE q == [pc |-> "opened", key |-> req[r].key, high |-> req[r].high, done |-> req[r].done,
                 committed |-> req[r].committed, snap |-> Len(log)]
<1>1. /\ req[r].pc = "open" /\ UNCHANGED <<now, conf, log, caches, done>> /\ UNCHANGED <<ctl, drains>>
      /\ req' = [req EXCEPT ![r] = q]
  BY ZenonT(30) DEF Open, CacheInv, RequestsOK
<1>2. LogOK' /\ Prefix /\ now <= now' /\ done <= done' /\ Len(log) \in Nat /\ done \in 0..Len(log)
  BY <1>1, Frozen, ZenonT(30)
<1>3. /\ req[r].key \in Keys /\ req[r].high \in BOOLEAN
      /\ req[r].done \in 0..done /\ req[r].committed \in 0..Len(log)
  BY <1>1, BusyReq, ZenonT(30)
<1>4. /\ q.pc = "opened" /\ q.key = req[r].key /\ q.high = req[r].high /\ q.done = req[r].done
      /\ q.committed = req[r].committed /\ q.snap = Len(log)
  BY ZenonT(30)
<1> HIDE DEF q
<1>5. ASSUME req'[r] = q PROVE ReqOK(r)'
  <2>1. log' = log /\ done' = done
    BY <1>1, ZenonT(30)
  <2>2. q.snap \in q.done..Len(log) /\ q.committed <= q.snap
    <3>1. req[r].done \in 0..Len(log) /\ Len(log) \in req[r].done..Len(log) /\ req[r].committed <= Len(log)
      BY <1>2, <1>3, SMT, SMTT(30)
    <3> QED BY <1>4, <3>1, ZenonT(30)
  <2> QED BY <1>3, <1>4, <1>5, <2>1, <2>2, ZenonT(30) DEF ReqOK
<1>6. RequestsOK'
  BY <1>1, <1>2, <1>5, ReqStep, ZenonT(30)
<1> QED BY <1>1, <1>6, CalmOthers, CalmCtl, CalmFrame, ZenonT(30)

(* An iterator found at time n was stored less than its TTL and the jitter *)
(* ago, so a change that has become a TTL old was not long before it.      *)
LEMMA StoredLate ==
  \A n, at, ttl, j, f, e \in Nat :
    n < e /\ e <= f + ttl + j /\ at + ttl <= n => f + j > at
BY SMT, SMTT(30)

(* An iterator that is served and misses a change completed runs have seen *)
(* is late: while the change is due, a marker made after it is in the      *)
(* cache, so the iterator is stamped after the change.                     *)
LEMMA FoundStale ==
  ASSUME CacheInv, Eager \/ StaleDetected, NEW k \in Keys, Found(k), NEW w \in 1..done, Misses(k, iter[k].snap, w)
  PROVE  /\ 0 < iter[k].flushed /\ iter[k].flushed + LargestJitter > log[w].at
         /\ \/ log[w].at + IteratorTTL <= now
            \/ Eager /\ iter[k].lm > log[w].at
<1>1. iter[k] # None /\ ~IsInvalidAt(iter[k].lm, k)
  BY ZenonT(30) DEF Found, Live
<1>2. /\ iter[k] \in Iterator /\ 0 < iter[k].lm /\ iter[k].lm <= iter[k].flushed
      /\ now < iter[k].exp /\ iter[k].exp <= iter[k].flushed + IteratorTTL + LargestJitter
  BY <1>1, ZenonT(30) DEF CacheInv, IterOK
<1>3. w \in 1..Len(log) /\ now \in Nat
  BY LogFacts, SMT, SMTT(30)
<1>4. /\ iter[k].lm \in Nat /\ iter[k].flushed \in Nat /\ iter[k].exp \in Nat
      /\ log[w].at \in Nat /\ IteratorTTL \in Nat /\ LargestJitter \in Nat
  BY <1>2, <1>3, LogFacts, Constants, JitterFacts, ZenonT(30) DEF Iterator
<1>5. CASE log[w].at + IteratorTTL <= now
  <2> DEFINE at == log[w].at
             f == iter[k].flushed
             e == iter[k].exp
             lm == iter[k].lm
  <2>1. at \in Nat /\ f \in Nat /\ e \in Nat /\ lm \in Nat
    BY <1>4, ZenonT(30)
  <2>2. 0 < lm /\ lm <= f /\ now < e /\ e <= f + IteratorTTL + LargestJitter /\ at + IteratorTTL <= now
    BY <1>2, <1>5, ZenonT(30)
  <2> HIDE DEF at, f, e, lm
  <2>3. 0 < f
    BY <2>1, <2>2, SMT, SMTT(30)
  <2>4. f + LargestJitter > at
    BY <1>3, <1>4, <2>1, <2>2, StoredLate, ZenonT(30)
  <2> QED BY <1>5, <2>3, <2>4, ZenonT(30) DEF at, f
<1>6. CASE ~(log[w].at + IteratorTTL <= now)
  <2>1. Due(k, w)
    BY <1>3, <1>4, <1>6, SMT, SMTT(30) DEF Due, Misses
  <2>2. Reached(k, w)
    BY <2>1, ZenonT(30) DEF CacheInv, CoveredOK, Covered
  <2>3. IsInvalidAt(log[w].at, k)
    BY <2>2, ZenonT(30) DEF Reached, IsInvalidAt, Live
  <2>4. Eager
    BY <1>3, <2>3, ZenonT(30) DEF StaleDetected
  <2>5. iter[k].lm > log[w].at
    <3>1. whole \in Nat /\ \A m \in InvalidEntityKeys(k) : marker[m] # None => marker[m].lm \in Nat
      BY KeyMarkers, ZenonT(30) DEF CacheInv, MarkerOK, Marker
    <3>2. ~(iter[k].lm < whole) /\ \A m \in InvalidEntityKeys(k) : marker[m] # None => ~(iter[k].lm < marker[m].lm)
      BY <1>1, ZenonT(30) DEF IsInvalidAt, Live
    <3> QED BY <1>4, <2>2, <3>1, <3>2, SMT, SMTT(30) DEF Reached
  <2> QED BY <1>2, <1>4, <2>4, <2>5, SMT, SMTT(30)
<1> QED BY <1>5, <1>6, ZenonT(30)

(* So it is fresh.                                                         *)
LEMMA FoundFresh ==
  ASSUME CacheInv, Eager \/ StaleDetected, NEW k \in Keys, Found(k)
  PROVE  Fresh(k, iter[k].snap, iter[k].flushed, done, now)
BY FoundStale, ZenonT(30) DEF Fresh, Late

(* Deleting cached iterators keeps the invariant.                          *)
LEMMA ShrinkInv ==
  ASSUME CacheInv, UNCHANGED <<now, conf, log, changelog, whole, marker, query, ctl, done>>,
         iter' \in [Keys -> Iterator \cup {None}], \A k \in Keys : iter'[k] # None => iter'[k] = iter[k],
         DrainOK', RequestsOK'
  PROVE  CacheInv'
<1>1. LogOK' /\ Prefix /\ now <= now' /\ done <= done'
  BY Frozen, ZenonT(30)
<1>2. MarkerOK' /\ QueryOK'
  BY ZenonT(30) DEF CacheInv, MarkerOK, QueryOK, Fresh, Misses, LargestJitter
<1>3. IterOK'
  BY IterFrame, ZenonT(30)
<1>4. \A m \in Markers : marker[m] # None =>
        marker'[m] # None /\ marker[m].lm <= marker'[m].lm /\ marker[m].exp <= marker'[m].exp
  BY SMT, SMTT(30) DEF CacheInv, MarkerOK, Marker
<1>5. marker' \in [Markers -> Marker \cup {None}]
  BY ZenonT(30) DEF CacheInv, MarkerOK
<1>6. \A k \in Keys : \A w \in 1..Len(log) : Covered(k, w) => Covered(k, w)'
  BY <1>4, <1>5, CoveredKept, ZenonT(30)
<1>7. CoveredOK'
  BY <1>1, <1>6, CoveredAfter, ZenonT(30)
<1>8. CtlOK'
  BY <1>1, <1>6, CtlFrame, ZenonT(30)
<1>9. ChangelogOK'
  BY <1>1, ChangelogFrame, ZenonT(30)
<1> QED BY <1>1, <1>2, <1>3, <1>7, <1>8, <1>9, ZenonT(30) DEF CacheInv

(* A lookup deletes an entry at most.                                      *)
LEMMA AfterFindFacts ==
  ASSUME CacheInv, NEW k \in Keys
  PROVE  /\ AfterFind(k) \in [Keys -> Iterator \cup {None}]
         /\ \A j \in Keys : AfterFind(k)[j] # None => AfterFind(k)[j] = iter[j]
<1>1. iter \in [Keys -> Iterator \cup {None}]
  BY ZenonT(30) DEF CacheInv, IterOK
<1> QED BY <1>1, ZenonT(30) DEF AfterFind

(* A request that has a fresh answer is as described.                      *)
LEMMA AnsweredReq ==
  ASSUME CacheInv, LogOK', Prefix, now <= now', done' = done, NEW r \in Reqs, req[r].pc # "idle", NEW snap \in 0..Len(log), NEW flushed \in Nat,
         Fresh(req[r].key, snap, flushed, req[r].done, now), req[r].high => req[r].committed <= snap,
         req'[r] = Answered(r, snap, flushed)
  PROVE  ReqOK(r)'
<1> DEFINE q == [pc |-> "answer", key |-> req[r].key, high |-> req[r].high, done |-> req[r].done,
                 committed |-> req[r].committed, snap |-> snap, flushed |-> flushed]
<1>1. /\ req[r].key \in Keys /\ req[r].high \in BOOLEAN
      /\ req[r].done \in 0..done /\ req[r].committed \in 0..Len(log)
  BY BusyReq, ZenonT(30)
<1>2. /\ q.pc = "answer" /\ q.key = req[r].key /\ q.high = req[r].high /\ q.done = req[r].done
      /\ q.committed = req[r].committed /\ q.snap = snap /\ q.flushed = flushed
  BY ZenonT(30)
<1>3. req'[r] = q
  BY ZenonT(30) DEF Answered
<1> HIDE DEF q
<1>4. Len(log) \in Nat /\ Len(log') \in Nat /\ Len(log) <= Len(log') /\ done \in 0..Len(log) /\ now \in Nat /\ now' \in Nat
  <2>1. Len(log) \in Nat /\ done \in 0..Len(log) /\ now \in Nat
    BY LogFacts, ZenonT(30)
  <2>2. Len(log') \in Nat /\ now' \in Nat
    BY SMT, SMTT(30) DEF LogOK
  <2> QED BY <2>1, <2>2, ZenonT(30) DEF Prefix
<1>5. q.snap \in 0..Len(log') /\ q.committed \in 0..Len(log') /\ req[r].done \in 0..Len(log)
  <2>1. snap \in 0..Len(log') /\ req[r].committed \in 0..Len(log') /\ req[r].done \in 0..Len(log)
    BY <1>1, <1>4, SMT, SMTT(30)
  <2> QED BY <1>2, <2>1, ZenonT(30)
<1>6. \A w \in 1..q.done : q.snap < w /\ Matches(log'[w].tuple, q.key) => Late(log'[w].at, q.flushed, LargestJitter', now')
  BY <1>1, <1>2, <1>4, <1>5, FreshKept, ZenonT(30)
<1>7. Fresh(req[r].key, req[r].snap, req[r].flushed, req[r].done, now)'
  BY <1>3, <1>6, ZenonT(30) DEF Fresh, Misses
<1> QED BY <1>1, <1>2, <1>3, <1>5, <1>7, ZenonT(30) DEF ReqOK

(* The lookup in the iterator cache keeps the invariant: what it serves is *)
(* fresh.                                                                  *)
LEMMA LookUpIteratorInv ==
  ASSUME CacheInv, Eager \/ StaleDetected, NEW r \in Reqs, LookUpIterator(r)
  PROVE  CacheInv'
<1> DEFINE k == req[r].key
<1>1. /\ req[r].pc = "iter" /\ iter' = AfterFind(k)
      /\ UNCHANGED <<now, conf, log, changelog, whole, marker, query, ctl, done>> /\ drains' = drains
      /\ req' = [req EXCEPT ![r] = IF Found(k) THEN Answered(r, iter[k].snap, iter[k].flushed)
                                               ELSE [req[r] EXCEPT !.pc = "open"]]
  BY ZenonT(30) DEF LookUpIterator, CacheInv, RequestsOK
<1>2. LogOK' /\ Prefix /\ now <= now' /\ done <= done' /\ Len(log) \in Nat /\ done \in 0..Len(log)
  BY <1>1, Frozen, ZenonT(30)
<1>3. /\ k \in Keys /\ req[r].high \in BOOLEAN /\ ~req[r].high
      /\ req[r].done \in 0..done /\ req[r].committed \in 0..Len(log)
      /\ req[r] \in [pc : {"iter"}, key : Keys, high : BOOLEAN, done : Nat, committed : Nat]
  BY <1>1, BusyReq, ZenonT(30)
<1>4. RequestsOK'
  <2>1. CASE Found(k)
    <3> DEFINE snap == iter[k].snap
               flushed == iter[k].flushed
    <3>1. req' = [req EXCEPT ![r] = Answered(r, snap, flushed)]
      BY <1>1, <2>1, ZenonT(30)
    <3>2. snap \in 0..Len(log) /\ flushed \in Nat
      <4>1. iter[k] \in Iterator /\ iter[k].snap <= Len(log)
        BY <1>3, <2>1, ZenonT(30) DEF CacheInv, IterOK, Found, Live
      <4> QED BY <1>2, <4>1, SMT, SMTT(30) DEF Iterator
    <3>3. Fresh(k, snap, flushed, done, now)
      BY <1>3, <2>1, FoundFresh, ZenonT(30)
    <3>4. Fresh(k, snap, flushed, req[r].done, now)
      <4>1. \A w \in 1..req[r].done : w \in 1..done
        BY <1>2, <1>3, SMT, SMTT(30)
      <4> QED BY <3>3, <4>1, ZenonT(30) DEF Fresh
    <3> HIDE DEF snap, flushed
    <3>5. ASSUME req'[r] = Answered(r, snap, flushed) PROVE ReqOK(r)'
      BY <1>1, <1>2, <1>3, <3>2, <3>4, <3>5, AnsweredReq, ZenonT(30)
    <3> QED BY <1>2, <3>1, <3>5, ReqStep, ZenonT(30)
  <2>2. CASE ~Found(k)
    <3> DEFINE q == [req[r] EXCEPT !.pc = "open"]
    <3>1. req' = [req EXCEPT ![r] = q]
      BY <1>1, <2>2, ZenonT(30)
    <3>2. /\ q.pc = "open" /\ q.key = req[r].key /\ q.high = req[r].high /\ q.done = req[r].done
          /\ q.committed = req[r].committed
      BY <1>3, ZenonT(30)
    <3> HIDE DEF q
    <3>3. ASSUME req'[r] = q PROVE ReqOK(r)'
      <4>1. log' = log /\ done' = done
        BY <1>1, ZenonT(30)
      <4> QED BY <1>3, <3>2, <3>3, <4>1, ZenonT(30) DEF ReqOK
    <3> QED BY <1>2, <3>1, <3>3, ReqStep, ZenonT(30)
  <2> QED BY <2>1, <2>2, ZenonT(30)
<1>5. DrainOK'
  BY <1>1, <1>2, DrainFrame, ZenonT(30) DEF CacheInv, LogOK
<1>6. iter' \in [Keys -> Iterator \cup {None}] /\ \A j \in Keys : iter'[j] # None => iter'[j] = iter[j]
  BY <1>1, <1>3, AfterFindFacts, ZenonT(30)
<1> QED BY <1>1, <1>4, <1>5, <1>6, ShrinkInv, ZenonT(30)

(* So does the timestamp the wrapper takes.                                *)
LEMMA WrapInv ==
  ASSUME CacheInv, NEW r \in Reqs, Wrap(r)
  PROVE  CacheInv'
<1> DEFINE q == [pc |-> "next", key |-> req[r].key, high |-> req[r].high, done |-> req[r].done,
                 committed |-> req[r].committed, snap |-> req[r].snap, init |-> now']
<1>1. /\ req[r].pc = "opened" /\ Stamp /\ query' = Queries /\ UNCHANGED <<conf, log, whole, ctl, done, drains>>
      /\ req' = [req EXCEPT ![r] = q]
  BY ZenonT(30) DEF Wrap, CacheInv, RequestsOK
<1>2. done \in 0..Len(log) /\ done <= done' /\ Len(log) \in Nat /\ now \in Nat
  BY <1>1, SMT, SMTT(30) DEF CacheInv, LogOK
<1>3. LogOK' /\ Prefix /\ now <= now' /\ now' = now + 1
  BY <1>1, <1>2, StampLog, ZenonT(30)
<1>4. MarkerOK' /\ IterOK' /\ DrainOK' /\ CoveredOK' /\ ChangelogOK' /\ CtlOK'
  BY <1>1, <1>3, StampQuiet, ZenonT(30)
<1>5. QueryOK'
  BY <1>1, <1>2, <1>3, QueriesFacts, QueryFrame, ZenonT(30)
<1>6. /\ req[r].key \in Keys /\ req[r].high \in BOOLEAN
      /\ req[r].done \in 0..done /\ req[r].committed \in 0..Len(log)
      /\ req[r].snap \in req[r].done..Len(log) /\ (req[r].high => req[r].committed <= req[r].snap)
  BY <1>1, BusyReq, ZenonT(30)
<1>7. /\ q.pc = "next" /\ q.key = req[r].key /\ q.high = req[r].high /\ q.done = req[r].done
      /\ q.committed = req[r].committed /\ q.snap = req[r].snap /\ q.init = now'
  BY ZenonT(30)
<1> HIDE DEF q
<1>8. ASSUME req'[r] = q PROVE ReqOK(r)'
  <2>1. log' = log /\ done' = done
    BY <1>1, ZenonT(30)
  <2>2. q.init \in 1..now'
    <3>1. now' \in 1..now'
      BY <1>2, <1>3, SMT, SMTT(30)
    <3> QED BY <1>7, <3>1, ZenonT(30)
  <2> QED BY <1>6, <1>7, <1>8, <2>1, <2>2, ZenonT(30) DEF ReqOK
<1>9. RequestsOK'
  BY <1>1, <1>2, <1>3, <1>8, ReqStep, ZenonT(30)
<1> QED BY <1>3, <1>4, <1>5, <1>9, ZenonT(30) DEF CacheInv

(* So does the read: its snapshot has every change made before the         *)
(* request.                                                                *)
LEMMA ConsumeInv ==
  ASSUME CacheInv, NEW r \in Reqs, Consume(r)
  PROVE  CacheInv'
<1> DEFINE snap == Snapshot(r)
           d == [pc |-> "check", key |-> req[r].key, init |-> req[r].init, snap |-> snap]
<1>1. /\ req[r].pc = "next" \/ (req[r].pc = "opened" /\ ~Wrapped(r))
      /\ drains' = drains \/ (Wrapped(r) /\ drains' = drains \cup {d})
      /\ req' = [req EXCEPT ![r] = Answered(r, snap, 0)]
      /\ UNCHANGED <<now, conf, log, caches, done>> /\ ctl' = ctl
  BY ZenonT(30) DEF Consume
<1>2. LogOK' /\ Prefix /\ now <= now' /\ done <= done' /\ done' = done /\ log' = log /\ now' = now
      /\ now \in Nat /\ Len(log) \in Nat /\ done \in 0..Len(log)
  BY <1>1, Frozen, ZenonT(30)
<1>3. /\ req[r].pc \in {"next", "opened"} /\ req[r].key \in Keys /\ req[r].high \in BOOLEAN
      /\ req[r].done \in 0..done /\ req[r].committed \in 0..Len(log)
      /\ req[r].snap \in req[r].done..Len(log) /\ (req[r].high => req[r].committed <= req[r].snap)
      /\ (req[r].pc = "next" => req[r].init \in 1..now)
  BY <1>1, BusyReq, ZenonT(30)
<1>4. snap \in req[r].done..Len(log) /\ (req[r].high => req[r].committed <= snap)
  <2>1. CASE Eager
    BY <1>3, <2>1, ZenonT(30) DEF Snapshot
  <2>2. CASE ~Eager
    BY <1>2, <1>3, <2>2, Positions, ZenonT(30) DEF Snapshot
  <2> QED BY <2>1, <2>2, ZenonT(30)
<1>5. snap \in 0..Len(log) /\ snap \in Nat
  BY <1>2, <1>3, <1>4, SMT, SMTT(30)
<1> HIDE DEF snap
<1>6. Fresh(req[r].key, snap, 0, req[r].done, now)
  <2>1. \A n \in Nat : \A m \in 0..n : \A v \in m..n : \A w \in 1..m : ~(v < w)
    BY SMT, SMTT(30)
  <2>2. req[r].done \in 0..Len(log)
    BY <1>2, <1>3, SMT, SMTT(30)
  <2>3. \A w \in 1..req[r].done : ~(snap < w)
    BY <1>2, <1>4, <2>1, <2>2, ZenonT(30)
  <2> QED BY <2>3, ZenonT(30) DEF Fresh, Misses
<1>7. ASSUME req'[r] = Answered(r, snap, 0) PROVE ReqOK(r)'
  BY <1>2, <1>3, <1>4, <1>5, <1>6, <1>7, AnsweredReq, ZenonT(30)
<1>8. RequestsOK'
  BY <1>1, <1>2, <1>7, ReqStep, ZenonT(30)
<1>9. DrainOK'
  <2>1. CASE drains' = drains
    BY <1>1, <2>1, CalmOthers, ZenonT(30)
  <2>2. CASE Wrapped(r) /\ drains' = drains \cup {d}
    <3>1. /\ d \in [pc : {"check", "flush"}, key : Keys, init : Nat, snap : Nat]
          /\ 0 < d.init /\ d.init <= now /\ d.snap <= Len(log)
      <4>1. req[r].init \in Nat /\ 0 < req[r].init /\ req[r].init <= now
        BY <1>1, <1>2, <1>3, <2>2, SMT, SMTT(30) DEF Wrapped
      <4>2. snap <= Len(log)
        BY <1>2, <1>5, SMT, SMTT(30)
      <4> QED BY <1>3, <1>5, <4>1, <4>2, ZenonT(30)
    <3> HIDE DEF d
    <3> QED BY <1>2, <2>2, <3>1, ZenonT(30) DEF CacheInv, DrainOK
  <2> QED BY <1>1, <2>1, <2>2, ZenonT(30)
<1> QED BY <1>1, <1>8, <1>9, CalmCtl, CalmFrame, ZenonT(30)

(* So does caching the response.                                           *)
LEMMA CacheQueryInv ==
  ASSUME CacheInv, NEW r \in Reqs, CacheQuery(r)
  PROVE  CacheInv'
<1> DEFINE k == req[r].key
<1>1. /\ req[r].pc = "answer" /\ Stamp /\ req' = [req EXCEPT ![r] = Idle]
      /\ UNCHANGED <<conf, log, whole, ctl, done, drains>>
  BY ZenonT(30) DEF CacheQuery
<1>2. PICK j \in 0..LargestJitter :
        query' = [Queries EXCEPT ![k] =
          [snap |-> req[r].snap, lm |-> now', exp |-> now' + QueryTTL + j,
           done |-> req[r].done, flushed |-> req[r].flushed]]
  BY ZenonT(30) DEF CacheQuery
<1> DEFINE e == [snap |-> req[r].snap, lm |-> now', exp |-> now' + QueryTTL + j,
                 done |-> req[r].done, flushed |-> req[r].flushed]
<1>3. done \in 0..Len(log) /\ done <= done' /\ Len(log) \in Nat /\ now \in Nat
  BY <1>1, SMT, SMTT(30) DEF CacheInv, LogOK
<1>4. LogOK' /\ Prefix /\ now <= now' /\ now' = now + 1
  BY <1>1, <1>3, StampLog, ZenonT(30)
<1>5. MarkerOK' /\ IterOK' /\ DrainOK' /\ CoveredOK' /\ ChangelogOK' /\ CtlOK'
  BY <1>1, <1>4, StampQuiet, ZenonT(30)
<1>6. RequestsOK'
  BY <1>1, <1>3, <1>4, ReqStep, ZenonT(30) DEF ReqOK
<1>7. /\ k \in Keys /\ req[r].done \in 0..done /\ req[r].snap \in 0..Len(log) /\ req[r].flushed \in Nat
      /\ Fresh(k, req[r].snap, req[r].flushed, req[r].done, now)
  BY <1>1, BusyReq, ZenonT(30)
<1>8. j \in Nat /\ QueryTTL \in Nat
  BY Constants, JitterFacts, SMT, SMTT(30)
<1>9. /\ e \in Response /\ e.done = req[r].done /\ e.snap = req[r].snap /\ e.flushed = req[r].flushed /\ e.lm = now'
  <2>1. now' \in Nat /\ now' + QueryTTL + j \in Nat /\ req[r].snap \in Nat /\ req[r].done \in Nat
    BY <1>3, <1>4, <1>7, <1>8, SMT, SMTT(30)
  <2> QED BY <1>7, <2>1, ZenonT(30) DEF Response
<1>10. query' = [Queries EXCEPT ![k] = e]
  BY <1>2, ZenonT(30)
<1> HIDE DEF e
<1>11. /\ query' \in [Keys -> Response \cup {None}] /\ query'[k] = e
       /\ \A i \in Keys : i # k => query'[i] = Queries[i]
  <2> HIDE DEF k
  <2> QED BY <1>7, <1>9, <1>10, QueriesFacts, ZenonT(30)
<1>12. \A w \in 1..e.done : e.snap < w /\ Matches(log'[w].tuple, k) => Late(log'[w].at, e.flushed, LargestJitter', e.lm)
  <2>1. req[r].done \in 0..Len(log)
    BY <1>3, <1>7, Positions, ZenonT(30)
  <2>2. now' \in Nat
    BY <1>3, <1>4, SMT, SMTT(30)
  <2>3. \A w \in 1..req[r].done :
          req[r].snap < w /\ Matches(log'[w].tuple, k) => Late(log'[w].at, req[r].flushed, LargestJitter', now')
    BY <1>3, <1>4, <1>7, <2>1, <2>2, FreshKept, ZenonT(30)
  <2> QED BY <1>9, <2>3, ZenonT(30)
<1>13. ASSUME NEW i \in Keys, query'[i] # None
       PROVE  /\ query'[i] \in Response /\ query'[i].done <= done'
              /\ Fresh(i, query[i].snap, query[i].flushed, query[i].done, query[i].lm)'
  <2>1. CASE i = k
    <3>1. query'[i] = e
      BY <1>11, <2>1, ZenonT(30)
    <3>2. e.done <= done'
      BY <1>1, <1>3, <1>7, <1>9, SMT, SMTT(30)
    <3>3. Fresh(i, query[i].snap, query[i].flushed, query[i].done, query[i].lm)'
      BY <1>12, <2>1, <3>1, ZenonT(30) DEF Fresh, Misses
    <3> QED BY <1>9, <3>1, <3>2, <3>3, ZenonT(30)
  <2>2. CASE i # k
    <3>1. query'[i] = query[i]
      BY <1>11, <1>13, <2>2, QueriesFacts, ZenonT(30)
    <3> QED BY <1>3, <1>4, <1>13, <3>1, QueryOne, ZenonT(30)
  <2> QED BY <2>1, <2>2, ZenonT(30)
<1>14. QueryOK'
  BY <1>11, <1>13, ZenonT(30) DEF QueryOK
<1> QED BY <1>4, <1>5, <1>6, <1>14, ZenonT(30) DEF CacheInv

(* The goroutines that are left stay as described.                         *)
LEMMA DrainStep ==
  ASSUME CacheInv, NEW d \in drains, d.pc = "check" \/ d.pc = "flush", UNCHANGED <<now, log>>,
         drains' \subseteq (drains \ {d}) \cup {[d EXCEPT !.pc = "flush"]}
  PROVE  DrainOK'
<1> DEFINE e == [d EXCEPT !.pc = "flush"]
<1>1. /\ d \in [pc : {"check", "flush"}, key : Keys, init : Nat, snap : Nat]
      /\ 0 < d.init /\ d.init <= now /\ d.snap <= Len(log)
  BY ZenonT(30) DEF CacheInv, DrainOK
<1>2. /\ e \in [pc : {"check", "flush"}, key : Keys, init : Nat, snap : Nat]
      /\ 0 < e.init /\ e.init <= now /\ e.snap <= Len(log)
  BY <1>1, ZenonT(30)
<1> HIDE DEF e
<1>3. drains' \subseteq (drains \ {d}) \cup {e}
  BY ZenonT(30) DEF e
<1> QED BY <1>2, <1>3, ZenonT(30) DEF CacheInv, DrainOK

(* The check before draining keeps the invariant.                          *)
LEMMA DrainCheckInv ==
  ASSUME CacheInv, NEW d \in drains, DrainCheck(d)
  PROVE  CacheInv'
<1>1. /\ d.pc = "check" /\ (iter' = iter \/ iter' = AfterFind(d.key))
      /\ drains' \subseteq (drains \ {d}) \cup {[d EXCEPT !.pc = "flush"]}
      /\ UNCHANGED <<now, conf, log, changelog, whole, marker, query, ctl, done>> /\ req' = req
  BY ZenonT(30) DEF DrainCheck
<1>2. d.key \in Keys
  BY ZenonT(30) DEF CacheInv, DrainOK
<1>3. DrainOK'
  BY <1>1, DrainStep, ZenonT(30)
<1>4. LogOK' /\ Prefix /\ now <= now' /\ done <= done'
  BY <1>1, Frozen, ZenonT(30)
<1>5. RequestsOK'
  BY <1>1, <1>4, RequestsFrame, ZenonT(30)
<1>6. iter' \in [Keys -> Iterator \cup {None}] /\ \A j \in Keys : iter'[j] # None => iter'[j] = iter[j]
  BY <1>1, <1>2, AfterFindFacts, ZenonT(30) DEF CacheInv, IterOK
<1> QED BY <1>1, <1>3, <1>5, <1>6, ShrinkInv, ZenonT(30)

(* So does dropping what was drained.                                      *)
LEMMA DrainDroppedInv ==
  ASSUME CacheInv, NEW d \in drains, DrainDropped(d)
  PROVE  CacheInv'
<1>1. UNCHANGED <<now, conf, log, caches, done>> /\ UNCHANGED <<ctl, req>> /\ drains' = drains \ {d}
  BY ZenonT(30) DEF DrainDropped
<1>2. Prefix /\ now <= now' /\ now' \in Nat /\ Len(log') \in Nat
  BY <1>1, Frozen, ZenonT(30)
<1>3. DrainOK'
  BY <1>1, <1>2, DrainFrame, ZenonT(30)
<1> QED BY <1>1, <1>3, CalmOthers, CalmCtl, CalmFrame, ZenonT(30)

(* Storing an iterator keeps the invariant.                                *)
LEMMA FlushInv ==
  ASSUME CacheInv, NEW d \in drains, Flush(d)
  PROVE  CacheInv'
<1>1. /\ d.pc = "flush" /\ drains' = drains \ {d}
      /\ UNCHANGED <<now, conf, log, changelog, whole, marker, query, ctl, done>> /\ req' = req
  BY ZenonT(30) DEF Flush
<1>2. now \in Nat /\ IteratorTTL \in Nat /\ 0 < IteratorTTL /\ Len(log) \in Nat
  BY Constants, SMT, SMTT(30) DEF CacheInv, LogOK
<1>3. PICK j \in 0..LargestJitter :
        iter' = [iter EXCEPT ![d.key] =
          [snap |-> d.snap, lm |-> d.init, exp |-> now + IteratorTTL + j, flushed |-> now]]
  BY ZenonT(30) DEF Flush
<1> DEFINE e == [snap |-> d.snap, lm |-> d.init, exp |-> now + IteratorTTL + j, flushed |-> now]
<1>4. /\ d \in [pc : {"check", "flush"}, key : Keys, init : Nat, snap : Nat]
      /\ 0 < d.init /\ d.init <= now /\ d.snap <= Len(log)
  BY ZenonT(30) DEF CacheInv, DrainOK
<1>5. /\ e \in Iterator /\ e.snap <= Len(log) /\ 0 < e.lm /\ e.lm <= e.flushed /\ e.flushed = now /\ e.flushed <= now
      /\ now < e.exp /\ e.exp <= e.flushed + IteratorTTL + LargestJitter
  BY <1>2, <1>4, JitterFacts, SMT, SMTT(30) DEF Iterator
<1> DEFINE key == d.key
<1>6. /\ iter' \in [Keys -> Iterator \cup {None}] /\ iter'[d.key] = e
      /\ \A k \in Keys : k # d.key => iter'[k] = iter[k]
  <2>1. iter' = [iter EXCEPT ![key] = e] /\ key \in Keys /\ iter \in [Keys -> Iterator \cup {None}]
    BY <1>3, <1>4, ZenonT(30) DEF CacheInv, IterOK
  <2> HIDE DEF key, e
  <2>2. /\ iter' \in [Keys -> Iterator \cup {None}] /\ iter'[key] = e
        /\ \A k \in Keys : k # key => iter'[k] = iter[k]
    BY <1>5, <2>1, ZenonT(30)
  <2> QED BY <2>2, ZenonT(30) DEF key
<1> HIDE DEF e
<1>7. LogOK' /\ Prefix /\ now <= now' /\ done <= done' /\ now' \in Nat /\ Len(log') \in Nat
  BY <1>1, Frozen, ZenonT(30)
<1>8. MarkerOK' /\ QueryOK'
  BY <1>1, ZenonT(30) DEF CacheInv, MarkerOK, QueryOK, Fresh, Misses, LargestJitter
<1>9. DrainOK' /\ RequestsOK'
  BY <1>1, <1>7, DrainFrame, RequestsFrame, ZenonT(30)
<1>10. IterOK'
  <2>1. ASSUME NEW k \in Keys, iter'[k] # None
        PROVE  /\ iter'[k] \in Iterator /\ iter'[k].snap <= Len(log')
               /\ 0 < iter'[k].lm /\ iter'[k].lm <= iter'[k].flushed /\ iter'[k].flushed <= now'
               /\ now' < iter'[k].exp /\ iter'[k].exp <= iter'[k].flushed + IteratorTTL + LargestJitter'
    <3>1. LargestJitter' = LargestJitter
      BY <1>1, JitterFacts, ZenonT(30)
    <3>2. CASE k = d.key
      BY <1>1, <1>5, <1>6, <3>1, <3>2, ZenonT(30)
    <3>3. CASE k # d.key
      BY <1>1, <1>6, <2>1, <3>1, <3>3, ZenonT(30) DEF CacheInv, IterOK
    <3> QED BY <3>2, <3>3, ZenonT(30)
  <2> QED BY <1>6, <2>1, ZenonT(30) DEF IterOK
<1>11. \A m \in Markers : marker[m] # None =>
        marker'[m] # None /\ marker[m].lm <= marker'[m].lm /\ marker[m].exp <= marker'[m].exp
  BY <1>1, SMT, SMTT(30) DEF CacheInv, MarkerOK, Marker
<1>12. marker' \in [Markers -> Marker \cup {None}]
  BY <1>1, ZenonT(30) DEF CacheInv, MarkerOK
<1>13. ASSUME NEW k \in Keys, NEW w \in 1..Len(log), Covered(k, w)
       PROVE  Covered(k, w)'
  BY <1>1, <1>11, <1>12, <1>13, CoveredKept, ZenonT(30)
<1>14. CoveredOK'
  BY <1>1, <1>7, <1>13, CoveredAfter, ZenonT(30)
<1>15. CtlOK'
  BY <1>1, <1>7, <1>13, CtlFrame, ZenonT(30)
<1>16. ChangelogOK'
  BY <1>1, <1>7, ChangelogFrame, ZenonT(30)
<1> QED BY <1>7, <1>8, <1>9, <1>10, <1>14, <1>15, <1>16, ZenonT(30) DEF CacheInv

(* The invariant holds initially.                                          *)
LEMMA InitInv ==
  ASSUME Init
  PROVE  CacheInv
<1>1. LogOK /\ MarkerOK /\ IterOK /\ DrainOK /\ ChangelogOK /\ CtlOK /\ QueryOK
  <2>1. LogOK
    <3>1. log \in Seq(Change) /\ Len(log) = 0 /\ now = 0 /\ done = 0 /\ conf \in Settings
      BY SMT, SMTT(30) DEF Init
    <3> QED BY <3>1, SMT, SMTT(30) DEF LogOK
  <2>2. MarkerOK
    BY Constants, SMT, SMTT(30) DEF Init, MarkerOK
  <2>3. IterOK /\ DrainOK /\ QueryOK
    BY ZenonT(30) DEF Init, IterOK, DrainOK, QueryOK
  <2>4. ChangelogOK /\ CtlOK
    BY ZenonT(30) DEF Init, ChangelogOK, CtlOK
  <2> QED BY <2>1, <2>2, <2>3, <2>4, ZenonT(30)
<1>2. CoveredOK
  BY SMT, SMTT(30) DEF Init, CoveredOK
<1>3. RequestsOK
  BY ZenonT(30) DEF Init, RequestsOK, ReqOK
<1> QED BY <1>1, <1>2, <1>3, ZenonT(30) DEF CacheInv

(* And when nothing happens.                                               *)
LEMMA StutterInv ==
  ASSUME CacheInv, UNCHANGED vars
  PROVE  CacheInv'
<1>1. UNCHANGED <<now, conf, log, caches, done>> /\ UNCHANGED <<ctl, req, drains>>
  BY ZenonT(30) DEF vars
<1> QED BY <1>1, CalmOthers, CalmCtl, CalmFrame, ZenonT(30)

(* Every step keeps it.                                                    *)
LEMMA NextInv ==
  ASSUME CacheInv, Exact, Eager \/ StaleDetected, Next
  PROVE  CacheInv'
<1>1. CASE Tick
  BY <1>1, TickInv, ZenonT(30)
<1>2. CASE \E t \in Tuples : Write(t)
  BY <1>2, WriteInv, ZenonT(30)
<1>3. CASE Controller
  BY <1>3, ControllerCalmInv, ReadChangesFailsInv, SetChangelogInv, MarkStoreInv, MarkSomeInv, MarkEntityInv, ZenonT(30)
  DEF Controller
<1>4. ASSUME NEW r \in Reqs, Request(r)
      PROVE  CacheInv'
  <2>1. CASE \E k \in conf.keys, high \in conf.preferences : Begin(r, k, high)
    <3>1. conf.keys \subseteq Keys /\ conf.preferences \subseteq BOOLEAN
      BY CheckCacheAssumption, ZenonT(30) DEF CacheInv, LogOK
    <3> QED BY <2>1, <3>1, BeginInv, ZenonT(30)
  <2>2. CASE ReadFails(r) \/ Respond(r)
    BY <2>2, IdleInv, ZenonT(30) DEF ReadFails, Respond
  <2> QED BY <1>4, <2>1, <2>2, LookUpQueryInv, LookUpIteratorInv, OpenInv, WrapInv, ConsumeInv, CacheQueryInv, ZenonT(30)
          DEF Request
<1>5. ASSUME NEW d \in drains, Drain(d)
      PROVE  CacheInv'
  BY <1>5, DrainCheckInv, FlushInv, DrainDroppedInv, ZenonT(30) DEF Drain
<1> QED BY <1>1, <1>2, <1>3, <1>4, <1>5, ZenonT(30) DEF Next

-----------------------------------------------------------------------------
(* Every change the snapshot misses was made after time t.                 *)
Later(snap, t) == \A w \in 1..Len(log) : snap < w => t < log[w].at

(* A change as it is logged; its timestamp may be coarse.                  *)
Logged == [tuple : Tuples, ts : Int, at : Nat]

(* No change lies in the future.                                           *)
TimeOK ==
  /\ now \in Nat /\ log \in Seq(Logged)
  /\ \A w \in 1..Len(log) : log[w].at <= now

(* The markers carry times.                                                *)
StampsOK ==
  /\ whole \in Nat /\ DOMAIN marker = Markers
  /\ \A m \in Markers : marker[m] # None => marker[m].lm \in Nat
  /\ ctl.pc = "entity" => DOMAIN ctl = {"pc", "seen", "lm", "next", "mark"} /\ ctl.lm \in Nat

(* A request that is about to read took its timestamp in the past.         *)
AsksOK ==
  /\ DOMAIN req = Reqs
  /\ \A r \in Reqs : /\ req[r].pc = "next" => req[r].init \in 0..now
                     /\ req[r].pc = "iter" => "pc" \in DOMAIN req[r]

(* What a cached iterator misses was written after its timestamp.          *)
StoreLate ==
  DOMAIN iter = Keys /\ \A k \in Keys : iter[k] # None =>
    iter[k].lm \in 0..now /\ Later(iter[k].snap, iter[k].lm)

(* So was what the iterator of a draining goroutine misses.                *)
DrainLate ==
  \A d \in drains : /\ DOMAIN d = {"pc", "key", "init", "snap"}
                    /\ d.init \in 0..now /\ Later(d.snap, d.init)

(* The inductive invariant.                                                *)
LateInv == TimeOK /\ StampsOK /\ AsksOK /\ StoreLate /\ DrainLate

(* Time does not go back, and new changes are later than all there was.    *)
Grows ==
  /\ now' \in Nat /\ now <= now'
  /\ Len(log) <= Len(log') /\ \A w \in 1..Len(log) : log'[w] = log[w]
  /\ \A w \in 1..Len(log') : w \in 1..Len(log) \/ now < log'[w].at

-----------------------------------------------------------------------------
(* New changes are later than any timestamp taken so far.                  *)
LEMMA LaterKept ==
  ASSUME LateInv, TimeOK', Grows, NEW snap, NEW t \in 0..now, Later(snap, t)
  PROVE  t \in 0..now' /\ \A w \in 1..Len(log') : snap < w => t < log'[w].at
<1>1. now \in Nat /\ now' \in Nat /\ now <= now'
  BY ZenonT(30) DEF LateInv, TimeOK, Grows
<1>2. ASSUME NEW w \in 1..Len(log'), snap < w
      PROVE  t < log'[w].at
  <2>1. CASE w \in 1..Len(log)
    BY <1>2, <2>1, ZenonT(30) DEF Later, Grows
  <2>2. CASE now < log'[w].at
    <3>1. log'[w] \in Logged
      BY SMT, SMTT(30) DEF TimeOK
    <3> QED BY <1>1, <2>2, <3>1, SMT, SMTT(30) DEF Logged
  <2> QED BY <2>1, <2>2, ZenonT(30) DEF Grows
<1> QED BY <1>1, <1>2, SMT, SMTT(30)

(* So cached iterators that stay are as described.                         *)
LEMMA StoreKept ==
  ASSUME LateInv, TimeOK', Grows, DOMAIN iter' = Keys, \A k \in Keys : iter'[k] # None => iter'[k] = iter[k]
  PROVE  StoreLate'
<1> SUFFICES ASSUME NEW k \in Keys, iter'[k] # None
             PROVE  iter'[k].lm \in 0..now' /\ Later(iter[k].snap, iter[k].lm)'
  BY ZenonT(30) DEF StoreLate
<1>1. iter'[k] = iter[k] /\ iter[k] # None
  BY ZenonT(30)
<1>2. iter[k].lm \in 0..now /\ Later(iter[k].snap, iter[k].lm)
  BY <1>1, ZenonT(30) DEF LateInv, StoreLate
<1>3. iter[k].lm \in 0..now' /\ \A w \in 1..Len(log') : iter[k].snap < w => iter[k].lm < log'[w].at
  BY <1>2, LaterKept, ZenonT(30)
<1> QED BY <1>1, <1>3, ZenonT(30) DEF Later

(* So are draining goroutines that stay.                                   *)
LEMMA DrainKept ==
  ASSUME LateInv, TimeOK', Grows, drains' \subseteq drains
  PROVE  DrainLate'
<1> SUFFICES ASSUME NEW d \in drains'
             PROVE  DOMAIN d = {"pc", "key", "init", "snap"} /\ d.init \in 0..now' /\ Later(d.snap, d.init)'
  BY ZenonT(30) DEF DrainLate
<1>1. DOMAIN d = {"pc", "key", "init", "snap"} /\ d.init \in 0..now /\ Later(d.snap, d.init)
  BY ZenonT(30) DEF LateInv, DrainLate
<1>2. d.init \in 0..now' /\ \A w \in 1..Len(log') : d.snap < w => d.init < log'[w].at
  BY <1>1, LaterKept, ZenonT(30)
<1> QED BY <1>1, <1>2, ZenonT(30) DEF Later

(* Requests are as described when the one that moved is.                   *)
LEMMA AsksKept ==
  ASSUME LateInv, Grows, req' = req \/ \E r \in Reqs : \E q : req' = [req EXCEPT ![r] = q] /\
           (q.pc = "next" => q.init \in 0..now') /\ (q.pc = "iter" => "pc" \in DOMAIN q)
  PROVE  AsksOK'
<1>1. now \in Nat /\ now' \in Nat /\ now <= now' /\ AsksOK
  BY ZenonT(30) DEF LateInv, TimeOK, Grows
<1>2. \A r \in Reqs : req[r].pc = "next" => req[r].init \in 0..now'
  BY <1>1, SMT, SMTT(30) DEF AsksOK
<1> QED BY <1>1, <1>2, ZenonT(30) DEF AsksOK

(* Time advancing only lets entries expire.                                *)
LEMMA StampLate ==
  ASSUME LateInv, Stamp
  PROVE  /\ now' = now + 1 /\ now \in Nat /\ now' \in Nat /\ now <= now'
         /\ DOMAIN iter' = Keys /\ \A k \in Keys : iter'[k] # None => iter'[k] = iter[k]
         /\ DOMAIN marker' = Markers /\ \A m \in Markers : marker'[m] # None => marker'[m].lm \in Nat
<1>1. now' = now + 1 /\ now \in Nat
  BY ZenonT(30) DEF Stamp, LateInv, TimeOK
<1>2. DOMAIN iter' = Keys /\ \A k \in Keys : iter'[k] # None => iter'[k] = iter[k]
  BY ZenonT(30) DEF Stamp, Unexpired
<1>3. DOMAIN marker' = Markers /\ \A m \in Markers : marker'[m] # None => marker'[m].lm \in Nat
  BY ZenonT(30) DEF Stamp, Unexpired, LateInv, StampsOK
<1> QED BY <1>1, <1>2, <1>3, SMT, SMTT(30)

(* A step that logs nothing lets the changelog grow trivially.             *)
LEMMA SameLogGrows ==
  ASSUME LateInv, UNCHANGED log, now' \in Nat, now <= now'
  PROVE  TimeOK' /\ Grows
<1>1. \A w \in 1..Len(log) : log[w].at \in Nat
  <2> SUFFICES ASSUME NEW w \in 1..Len(log) PROVE log[w] \in Logged
    BY ZenonT(30) DEF Logged
  <2> QED BY SMT, SMTT(30) DEF LateInv, TimeOK
<1>2. \A w \in 1..Len(log) : log[w].at <= now'
  BY <1>1, SMT, SMTT(30) DEF LateInv, TimeOK
<1> QED BY <1>2, SMT, SMTT(30) DEF LateInv, TimeOK, Grows

(* The parts of the invariant that a step with a timestamp leaves to       *)
(* expiry.                                                                 *)
LEMMA StampedLate ==
  ASSUME LateInv, Stamp, TimeOK', Grows, drains' \subseteq drains, whole' = whole \/ whole' = now',
         ctl' = ctl \/ ctl'.pc # "entity" \/ (DOMAIN ctl' = {"pc", "seen", "lm", "next", "mark"} /\ ctl'.lm \in Nat),
         req' = req \/ \E r \in Reqs : \E q : req' = [req EXCEPT ![r] = q] /\
           (q.pc = "next" => q.init \in 0..now') /\ (q.pc = "iter" => "pc" \in DOMAIN q)
  PROVE  LateInv'
<1>1. StoreLate'
  BY StampLate, StoreKept, ZenonT(30)
<1>2. StampsOK'
  BY StampLate, ZenonT(30) DEF LateInv, StampsOK
<1> QED BY <1>1, <1>2, DrainKept, AsksKept, ZenonT(30) DEF LateInv

(* A write keeps the invariant: it is later than everything.               *)
LEMMA WriteLate ==
  ASSUME LateInv, NEW t \in Tuples, Write(t)
  PROVE  LateInv'
<1> DEFINE c == [tuple |-> t, ts |-> Grain * (now' \div Grain), at |-> now']
<1>1. Stamp /\ log' = Append(log, c) /\ UNCHANGED <<whole, ctl, req, drains>>
  BY ZenonT(30) DEF Write
<1>2. now' = now + 1 /\ now \in Nat /\ now' \in Nat
  BY <1>1, StampLate, ZenonT(30)
<1>3. Grain * (now' \div Grain) \in Int
  BY <1>2, CheckCacheAssumption, SMT, SMTT(30)
<1>4. c \in Logged /\ c.at = now'
  BY <1>2, <1>3, ZenonT(30) DEF Logged
<1> HIDE DEF c
<1>5. log \in Seq(Logged)
  BY ZenonT(30) DEF LateInv, TimeOK
<1>6. /\ log' \in Seq(Logged) /\ Len(log) \in Nat /\ Len(log') = Len(log) + 1
      /\ log'[Len(log) + 1] = c /\ \A w \in 1..Len(log) : log'[w] = log[w]
  BY <1>1, <1>4, <1>5, SMT, SMTT(30)
<1>7. \A w \in 1..Len(log) : log[w].at \in Nat /\ log[w].at <= now
  <2> SUFFICES ASSUME NEW w \in 1..Len(log) PROVE log[w] \in Logged
    BY ZenonT(30) DEF LateInv, TimeOK, Logged
  <2> QED BY <1>5, SMT, SMTT(30)
<1>8. \A w \in 1..Len(log') : w \in 1..Len(log) \/ w = Len(log) + 1
  BY <1>6, SMT, SMTT(30)
<1>9. \A w \in 1..Len(log') : log'[w].at <= now'
  <2> SUFFICES ASSUME NEW w \in 1..Len(log') PROVE log'[w].at <= now'
    BY ZenonT(30)
  <2>1. CASE w \in 1..Len(log)
    BY <1>2, <1>6, <1>7, <2>1, SMT, SMTT(30)
  <2>2. CASE w = Len(log) + 1
    BY <1>2, <1>4, <1>6, <2>2, SMT, SMTT(30)
  <2> QED BY <1>8, <2>1, <2>2, ZenonT(30)
<1>10. TimeOK'
  BY <1>2, <1>6, <1>9, ZenonT(30) DEF TimeOK
<1>11. Grows
  BY <1>2, <1>4, <1>6, <1>8, SMT, SMTT(30) DEF Grows
<1> QED BY <1>1, <1>10, <1>11, StampedLate, ZenonT(30)

(* So do the other steps that take a timestamp.                            *)
LEMMA StampedStepsLate ==
  ASSUME LateInv, \/ Tick \/ ReadChangesFails \/ MarkStore \/ MarkSome
                  \/ \E r \in Reqs : Wrap(r) \/ CacheQuery(r)
  PROVE  LateInv'
<1>1. Stamp /\ UNCHANGED <<log, drains>> /\ (whole' = whole \/ whole' = now')
  BY ZenonT(30) DEF Tick, ReadChangesFails, MarkStore, MarkSome, Wrap, CacheQuery
<1>2. now' \in Nat /\ now <= now' /\ now \in Nat
  BY <1>1, StampLate, ZenonT(30)
<1>3. TimeOK' /\ Grows
  BY <1>1, <1>2, SameLogGrows, ZenonT(30)
<1>4. ASSUME ctl' = ctl \/ ctl'.pc # "entity" \/ (DOMAIN ctl' = {"pc", "seen", "lm", "next", "mark"} /\ ctl'.lm \in Nat),
             req' = req \/ \E r \in Reqs : \E q : req' = [req EXCEPT ![r] = q] /\
               (q.pc = "next" => q.init \in 0..now') /\ (q.pc = "iter" => "pc" \in DOMAIN q)
      PROVE  LateInv'
  BY <1>1, <1>3, <1>4, StampedLate, ZenonT(30)
<1>5. CASE Tick \/ ReadChangesFails \/ MarkStore
  <2>1. req' = req /\ (ctl' = ctl \/ ctl' = Idle)
    BY <1>5, ZenonT(30) DEF Tick, ReadChangesFails, MarkStore, End
  <2>2. ctl' = ctl \/ ctl'.pc # "entity"
    BY <2>1, SMT, SMTT(30) DEF Idle
  <2> QED BY <1>4, <2>1, <2>2, ZenonT(30)
<1>6. CASE MarkSome
  <2>1. req' = req
    BY <1>6, ZenonT(30) DEF MarkSome
  <2>2. \/ ctl' = Idle
        \/ \E first : ctl' = [pc |-> "entity", seen |-> ctl.seen, lm |-> now', next |-> first, mark |-> 1]
    BY <1>6, ZenonT(30) DEF MarkSome, End
  <2>3. ctl'.pc # "entity" \/ (DOMAIN ctl' = {"pc", "seen", "lm", "next", "mark"} /\ ctl'.lm \in Nat)
    BY <1>2, <2>2, SMT, SMTT(30) DEF Idle
  <2> QED BY <1>4, <2>1, <2>3, ZenonT(30)
<1>7. ASSUME NEW r \in Reqs, Wrap(r)
      PROVE  LateInv'
  <2> DEFINE q == [pc |-> "next", key |-> req[r].key, high |-> req[r].high, done |-> req[r].done,
                   committed |-> req[r].committed, snap |-> req[r].snap, init |-> now']
  <2>1. req' = [req EXCEPT ![r] = q] /\ ctl' = ctl
    BY <1>7, ZenonT(30) DEF Wrap, LateInv, AsksOK
  <2>2. q.pc = "next" /\ q.init \in 0..now'
    BY <1>2, SMT, SMTT(30)
  <2> HIDE DEF q
  <2> QED BY <1>4, <2>1, <2>2, ZenonT(30)
<1>8. ASSUME NEW r \in Reqs, CacheQuery(r)
      PROVE  LateInv'
  <2>1. req' = [req EXCEPT ![r] = Idle] /\ ctl' = ctl
    BY <1>8, ZenonT(30) DEF CacheQuery
  <2>2. Idle.pc = "idle"
    BY ZenonT(30) DEF Idle
  <2> QED BY <1>4, <2>1, <2>2, ZenonT(30)
<1> QED BY <1>5, <1>6, <1>7, <1>8, ZenonT(30)

(* A step that changes nothing of this keeps the invariant.                *)
LEMMA CalmLate ==
  ASSUME LateInv, UNCHANGED <<now, log, whole>>, DOMAIN iter' = Keys,
         \A k \in Keys : iter'[k] # None => iter'[k] = iter[k],
         DrainLate', AsksOK', StampsOK'
  PROVE  LateInv'
<1>1. now' \in Nat /\ now <= now'
  BY SMT, SMTT(30) DEF LateInv, TimeOK
<1> QED BY <1>1, SameLogGrows, StoreKept, ZenonT(30) DEF LateInv

(* The same, part by part.                                                 *)
LEMMA CalmParts ==
  ASSUME LateInv, UNCHANGED <<now, log, whole>>
  PROVE  /\ drains' \subseteq drains => DrainLate'
         /\ req' = req => AsksOK'
         /\ \A r \in Reqs : \A q : req' = [req EXCEPT ![r] = q] /\
               (q.pc = "next" => q.init \in 0..now) /\ (q.pc = "iter" => "pc" \in DOMAIN q) => AsksOK'
         /\ marker' = marker /\ (ctl' = ctl \/ ctl'.pc # "entity") => StampsOK'
         /\ DOMAIN iter = Keys
<1>1. now' \in Nat /\ now <= now'
  BY SMT, SMTT(30) DEF LateInv, TimeOK
<1>2. TimeOK' /\ Grows
  BY <1>1, SameLogGrows, ZenonT(30)
<1>3. marker' = marker /\ (ctl' = ctl \/ ctl'.pc # "entity") => StampsOK'
  BY ZenonT(30) DEF LateInv, StampsOK
<1>4. DOMAIN iter = Keys
  BY ZenonT(30) DEF LateInv, StoreLate
<1>5. drains' \subseteq drains => DrainLate'
  BY <1>2, DrainKept, ZenonT(30)
<1>6. req' = req => AsksOK'
  BY <1>2, AsksKept, ZenonT(30)
<1>7. ASSUME NEW r \in Reqs, NEW q, req' = [req EXCEPT ![r] = q],
             q.pc = "next" => q.init \in 0..now, q.pc = "iter" => "pc" \in DOMAIN q
      PROVE  AsksOK'
  BY <1>2, <1>7, AsksKept, ZenonT(30)
<1> QED BY <1>3, <1>4, <1>5, <1>6, <1>7, ZenonT(30)

(* Every step of the controller keeps the invariant.                       *)
LEMMA ControllerLate ==
  ASSUME LateInv, ListObjects \/ GetChangelog \/ ReadChanges \/ ReadChangesTimesOut \/ SetChangelog \/ MarkEntity
  PROVE  LateInv'
<1>1. UNCHANGED <<now, log, whole>> /\ UNCHANGED <<iter, req, drains>>
  BY ZenonT(30) DEF ListObjects, GetChangelog, ReadChanges, ReadChangesTimesOut, SetChangelog, MarkEntity, caches
<1>2. DrainLate' /\ AsksOK' /\ DOMAIN iter' = Keys
  BY <1>1, CalmParts, ZenonT(30)
<1>3. CASE ListObjects \/ GetChangelog \/ ReadChanges \/ ReadChangesTimesOut \/ SetChangelog
  <2>1. marker' = marker /\ ctl'.pc # "entity"
    <3>1. marker' = marker
      BY <1>3, ZenonT(30) DEF ListObjects, GetChangelog, ReadChanges, ReadChangesTimesOut, SetChangelog, caches
    <3>2. CASE ListObjects \/ GetChangelog
      BY <3>1, <3>2, SMT, SMTT(30) DEF ListObjects, GetChangelog, InvalidateIfNeeded
    <3>3. CASE ReadChanges \/ ReadChangesTimesOut
      BY <3>1, <3>3, SMT, SMTT(30) DEF ReadChanges, ReadChangesTimesOut, Idle
    <3>4. CASE SetChangelog
      <4>1. ctl' = Idle \/ ctl' = [pc |-> "mark", seen |-> ctl.seen]
        BY <3>4, ZenonT(30) DEF SetChangelog, End
      <4> QED BY <3>1, <4>1, SMT, SMTT(30) DEF Idle
    <3> QED BY <1>3, <3>2, <3>3, <3>4, ZenonT(30)
  <2> QED BY <1>1, <1>2, <2>1, CalmParts, CalmLate, ZenonT(30)
<1>4. CASE MarkEntity
  <2>1. DOMAIN ctl = {"pc", "seen", "lm", "next", "mark"} /\ ctl.lm \in Nat
    BY <1>4, ZenonT(30) DEF MarkEntity, LateInv, StampsOK
  <2>2. \/ ctl' = Idle \/ ctl' = [ctl EXCEPT !.mark = 2] \/ ctl' = [ctl EXCEPT !.mark = 1, !.next = @ + 1]
    BY <1>4, ZenonT(30) DEF MarkEntity, End
  <2>3. ctl'.pc = "entity" => DOMAIN ctl' = {"pc", "seen", "lm", "next", "mark"} /\ ctl'.lm \in Nat
    <3>1. CASE ctl' = Idle
      BY <3>1, ZenonT(30) DEF Idle
    <3>2. CASE ctl' = [ctl EXCEPT !.mark = 2]
      BY <2>1, <3>2, ZenonT(30)
    <3>3. CASE ctl' = [ctl EXCEPT !.mark = 1, !.next = @ + 1]
      BY <2>1, <3>3, ZenonT(30)
    <3> QED BY <2>2, <3>1, <3>2, <3>3, ZenonT(30)
  <2>4. PICK m : marker' = [marker EXCEPT ![m] = [lm |-> ctl.lm, exp |-> now + IteratorTTL]]
    BY <1>4, ZenonT(30) DEF MarkEntity
  <2>5. DOMAIN marker' = Markers /\ \A i \in Markers : marker'[i] # None => marker'[i].lm \in Nat
    BY <2>1, <2>4, ZenonT(30) DEF LateInv, StampsOK
  <2>6. StampsOK'
    BY <1>1, <2>3, <2>5, ZenonT(30) DEF LateInv, StampsOK
  <2> QED BY <1>1, <1>2, <2>6, CalmLate, ZenonT(30)
<1> QED BY <1>3, <1>4, ZenonT(30)

(* Every step of a request does: the snapshot is taken after the           *)
(* timestamp.                                                              *)
LEMMA RequestLate ==
  ASSUME LateInv, Eager = FALSE, NEW r \in Reqs,
         \/ \E k \in conf.keys, high \in conf.preferences : Begin(r, k, high)
         \/ LookUpQuery(r) \/ LookUpIterator(r) \/ Open(r) \/ Consume(r) \/ ReadFails(r) \/ Respond(r)
  PROVE  LateInv'
<1>1. UNCHANGED <<now, log, whole>> /\ UNCHANGED marker /\ (ctl' = ctl \/ ctl'.pc # "entity")
  BY SMT, SMTT(30) DEF Begin, LookUpQuery, LookUpIterator, Open, Consume, ReadFails, Respond, InvalidateIfNeeded, caches
<1>2. StampsOK' /\ DOMAIN iter = Keys
  BY <1>1, CalmParts, ZenonT(30)
<1>3. DOMAIN iter' = Keys /\ \A k \in Keys : iter'[k] # None => iter'[k] = iter[k]
  <2>1. iter' = iter \/ iter' = [iter EXCEPT ![req[r].key] = None]
    BY ZenonT(30) DEF Begin, LookUpQuery, LookUpIterator, Open, Consume, ReadFails, Respond, AfterFind, caches
  <2> QED BY <1>2, <2>1, ZenonT(30)
<1>4. DrainLate'
  <2>1. CASE drains' = drains
    BY <1>1, <2>1, CalmParts, ZenonT(30)
  <2>2. CASE drains' # drains
    <3> DEFINE d == [pc |-> "check", key |-> req[r].key, init |-> req[r].init, snap |-> Len(log)]
    <3>1. Consume(r)
      BY <2>2, ZenonT(30) DEF Begin, LookUpQuery, LookUpIterator, Open, Consume, ReadFails, Respond
    <3>2. req[r].pc = "next" /\ drains' = drains \cup {d}
      BY <2>2, <3>1, ZenonT(30) DEF Consume, Snapshot
    <3>3. DOMAIN d = {"pc", "key", "init", "snap"} /\ d.init \in 0..now /\ d.snap = Len(log)
      BY <3>2, ZenonT(30) DEF LateInv, AsksOK
    <3> HIDE DEF d
    <3>4. Len(log) \in Nat
      BY SMT, SMTT(30) DEF LateInv, TimeOK
    <3>5. \A w \in 1..Len(log) : d.snap < w => d.init < log[w].at
      BY <3>3, <3>4, SMT, SMTT(30)
    <3> QED BY <1>1, <3>2, <3>3, <3>5, ZenonT(30) DEF LateInv, DrainLate, Later
  <2> QED BY <2>1, <2>2, ZenonT(30)
<1>5. AsksOK'
  <2>1. DOMAIN req = Reqs
    BY ZenonT(30) DEF LateInv, AsksOK
  <2>2. ASSUME NEW q, req' = [req EXCEPT ![r] = q], q.pc # "next", q.pc = "iter" => "pc" \in DOMAIN q
        PROVE  AsksOK'
    BY <1>1, <2>2, CalmParts, ZenonT(30)
  <2>3. CASE \E k \in conf.keys, high \in conf.preferences : Begin(r, k, high)
    <3>1. PICK k \in conf.keys, high \in conf.preferences : Begin(r, k, high)
      BY <2>3, ZenonT(30)
    <3> DEFINE cached == Live(changelog) /\ ~high
               q == [pc |-> IF high THEN "open" ELSE "query", key |-> k, high |-> high,
                     inv |-> IF cached THEN changelog.lm ELSE 0, known |-> IF cached THEN changelog.seen ELSE 0,
                     done |-> done, committed |-> IF high THEN Len(log) ELSE 0]
    <3>2. req' = [req EXCEPT ![r] = q]
      BY <3>1, ZenonT(30) DEF Begin
    <3>3. q.pc = IF high THEN "open" ELSE "query"
      BY ZenonT(30)
    <3> HIDE DEF q
    <3> QED BY <2>2, <3>2, <3>3, ZenonT(30)
  <2>4. CASE LookUpQuery(r)
    <3>1. PICK q : req' = [req EXCEPT ![r] = q] /\ (q = Idle \/ q = Narrowed(r, IF conf.iterators THEN "iter" ELSE "open"))
      BY <2>4, ZenonT(30) DEF LookUpQuery
    <3>2. CASE q = Idle
      <4>1. q.pc # "next" /\ "pc" \in DOMAIN q
        BY <3>2, SMT, SMTT(30) DEF Idle
      <4> QED BY <2>2, <3>1, <4>1, ZenonT(30)
    <3>3. CASE q = Narrowed(r, IF conf.iterators THEN "iter" ELSE "open")
      <4>1. q.pc = (IF conf.iterators THEN "iter" ELSE "open") /\ "pc" \in DOMAIN q
        BY <3>3, ZenonT(30) DEF Narrowed
      <4>2. q.pc # "next"
        BY <4>1, ZenonT(30)
      <4> QED BY <2>2, <3>1, <4>1, <4>2, ZenonT(30)
    <3> QED BY <3>1, <3>2, <3>3, ZenonT(30)
  <2>5. CASE LookUpIterator(r)
    <3>1. "pc" \in DOMAIN req[r]
      BY <2>5, ZenonT(30) DEF LookUpIterator, LateInv, AsksOK
    <3>2. PICK q : /\ req' = [req EXCEPT ![r] = q]
                   /\ \/ q = Answered(r, iter[req[r].key].snap, iter[req[r].key].flushed)
                      \/ q = [req[r] EXCEPT !.pc = "open"]
      BY <2>1, <2>5, ZenonT(30) DEF LookUpIterator
    <3>3. q.pc \in {"answer", "open"}
      BY <3>1, <3>2, SMT, SMTT(30) DEF Answered
    <3> QED BY <2>2, <3>2, <3>3, ZenonT(30)
  <2>6. CASE Open(r)
    <3> DEFINE q == [pc |-> "opened", key |-> req[r].key, high |-> req[r].high, done |-> req[r].done,
                     committed |-> req[r].committed, snap |-> Len(log)]
    <3>1. req' = [req EXCEPT ![r] = q]
      BY <2>1, <2>6, ZenonT(30) DEF Open
    <3>2. q.pc = "opened"
      BY ZenonT(30)
    <3> HIDE DEF q
    <3> QED BY <2>2, <3>1, <3>2, ZenonT(30)
  <2>7. CASE Consume(r)
    <3>1. PICK q : req' = [req EXCEPT ![r] = q] /\ q = Answered(r, Snapshot(r), 0)
      BY <2>7, ZenonT(30) DEF Consume
    <3>2. q.pc = "answer"
      BY <3>1, ZenonT(30) DEF Answered
    <3> QED BY <2>2, <3>1, <3>2, ZenonT(30)
  <2>8. CASE ReadFails(r) \/ Respond(r)
    <3>1. PICK q : req' = [req EXCEPT ![r] = q] /\ q = Idle
      BY <2>8, ZenonT(30) DEF ReadFails, Respond
    <3>2. q.pc = "idle"
      BY <3>1, ZenonT(30) DEF Idle
    <3> QED BY <2>2, <3>1, <3>2, ZenonT(30)
  <2> QED BY <2>3, <2>4, <2>5, <2>6, <2>7, <2>8, ZenonT(30)
<1> QED BY <1>1, <1>2, <1>3, <1>4, <1>5, CalmLate, ZenonT(30)

(* Every step of a draining goroutine does: the entry it stores has the    *)
(* timestamp of the wrapper.                                               *)
LEMMA DrainStepsLate ==
  ASSUME LateInv, NEW d \in drains, Drain(d)
  PROVE  LateInv'
<1>1. UNCHANGED <<now, log, whole>> /\ UNCHANGED <<marker, ctl, req>>
  BY ZenonT(30) DEF Drain, DrainCheck, Flush, DrainDropped, caches
<1>2. StampsOK' /\ AsksOK' /\ DOMAIN iter = Keys
  BY <1>1, CalmParts, ZenonT(30)
<1>3. DOMAIN d = {"pc", "key", "init", "snap"} /\ d.init \in 0..now /\ Later(d.snap, d.init)
  BY ZenonT(30) DEF LateInv, DrainLate
<1>4. CASE DrainDropped(d)
  <2>1. drains' \subseteq drains /\ iter' = iter
    BY <1>4, ZenonT(30) DEF DrainDropped, caches
  <2> QED BY <1>1, <1>2, <2>1, CalmParts, CalmLate, ZenonT(30)
<1>5. CASE DrainCheck(d)
  <2> DEFINE e == [d EXCEPT !.pc = "flush"]
  <2>1. /\ iter' = iter \/ iter' = [iter EXCEPT ![d.key] = None]
        /\ drains' \subseteq drains \cup {e}
    BY <1>5, ZenonT(30) DEF DrainCheck, AfterFind
  <2>2. DOMAIN e = {"pc", "key", "init", "snap"} /\ e.init = d.init /\ e.snap = d.snap
    BY <1>3, ZenonT(30)
  <2> HIDE DEF e
  <2>3. DrainLate'
    BY <1>1, <1>3, <2>1, <2>2, ZenonT(30) DEF LateInv, DrainLate, Later
  <2>4. DOMAIN iter' = Keys /\ \A k \in Keys : iter'[k] # None => iter'[k] = iter[k]
    BY <1>2, <2>1, ZenonT(30)
  <2> QED BY <1>1, <1>2, <2>3, <2>4, CalmLate, ZenonT(30)
<1>6. CASE Flush(d)
  <2>1. drains' \subseteq drains
    BY <1>6, ZenonT(30) DEF Flush
  <2>2. PICK j : iter' = [iter EXCEPT ![d.key] =
                   [snap |-> d.snap, lm |-> d.init, exp |-> now + IteratorTTL + j, flushed |-> now]]
    BY <1>6, ZenonT(30) DEF Flush
  <2> DEFINE e == [snap |-> d.snap, lm |-> d.init, exp |-> now + IteratorTTL + j, flushed |-> now]
  <2>3. e.snap = d.snap /\ e.lm = d.init
    BY ZenonT(30)
  <2>4. iter' = [iter EXCEPT ![d.key] = e]
    BY <2>2, ZenonT(30)
  <2> HIDE DEF e
  <2>5. DOMAIN iter' = Keys /\ \A k \in Keys : iter'[k] = iter[k] \/ iter'[k] = e
    BY <1>2, <2>4, ZenonT(30)
  <2>6. StoreLate'
    BY <1>1, <1>3, <2>3, <2>5, ZenonT(30) DEF LateInv, StoreLate, Later
  <2>7. TimeOK'
    BY <1>1, ZenonT(30) DEF LateInv, TimeOK
  <2> QED BY <1>1, <1>2, <2>1, <2>6, <2>7, CalmParts, ZenonT(30) DEF LateInv
<1> QED BY <1>4, <1>5, <1>6, ZenonT(30) DEF Drain

(* StaleDetected: an iterator that misses a write is not served while a    *)
(* marker made after the write is in the cache, even if the goroutine that *)
(* drained it stored it after the marker (the initializedAt and createdAt  *)
(* of the cached iterators).                                               *)
THEOREM LateEntriesDetected ==
  ASSUME Eager = FALSE
  PROVE  Spec => []StaleDetected
<1>1. ASSUME Init PROVE LateInv
  <2>1. TimeOK /\ StampsOK
    BY <1>1, SMT, SMTT(30) DEF Init, TimeOK, StampsOK, Idle
  <2>2. AsksOK /\ StoreLate /\ DrainLate
    BY <1>1, ZenonT(30) DEF Init, AsksOK, StoreLate, DrainLate, Idle
  <2> QED BY <2>1, <2>2, ZenonT(30) DEF LateInv
<1>2. ASSUME LateInv, Next PROVE LateInv'
  BY <1>2, StampedStepsLate, WriteLate, ControllerLate, RequestLate, DrainStepsLate, ZenonT(30)
  DEF Next, Controller, Request
<1>3. ASSUME LateInv, UNCHANGED vars PROVE LateInv'
  <2>1. UNCHANGED <<now, log, whole>> /\ UNCHANGED <<marker, ctl, req, drains, iter>>
    BY <1>3, ZenonT(30) DEF vars, caches
  <2> QED BY <1>3, <2>1, CalmParts, CalmLate, ZenonT(30)
<1>4. ASSUME LateInv PROVE StaleDetected
  <2> SUFFICES ASSUME NEW k \in Keys, Found(k), NEW w \in 1..Len(log), Misses(k, iter[k].snap, w),
                      IsInvalidAt(log[w].at, k)
               PROVE  FALSE
    BY ZenonT(30) DEF StaleDetected
  <2>1. iter[k].lm \in 0..now /\ iter[k].lm < log[w].at
    BY <1>4, ZenonT(30) DEF LateInv, StoreLate, Later, Found, Live, Misses
  <2>2. now \in Nat /\ log[w].at \in Nat /\ whole \in Nat
    <3>1. log[w] \in Logged
      BY <1>4, SMT, SMTT(30) DEF LateInv, TimeOK
    <3> QED BY <1>4, <3>1, ZenonT(30) DEF LateInv, TimeOK, StampsOK, Logged
  <2>3. \A m \in InvalidEntityKeys(k) : marker[m] # None => marker[m].lm \in Nat
    BY <1>4, KeyMarkers, ZenonT(30) DEF LateInv, StampsOK
  <2>4. IsInvalidAt(iter[k].lm, k)
    BY <2>1, <2>2, <2>3, SMT, SMTT(30) DEF IsInvalidAt, Live
  <2> QED BY <2>4, ZenonT(30) DEF Found
<1> QED BY <1>1, <1>2, <1>3, <1>4, PTL DEF Spec

-----------------------------------------------------------------------------
(* The inductive invariant holds in every reachable state.                 *)
LEMMA CacheCorrect ==
  ASSUME Exact
  PROVE  Spec => []CacheInv
<1>1. CacheInv /\ (Eager \/ StaleDetected) /\ [Next]_vars => CacheInv'
  BY NextInv, StutterInv, ZenonT(30)
<1>2. CASE Eager
  <2>1. CacheInv /\ [Next]_vars => CacheInv'
    BY <1>1, <1>2, ZenonT(30)
  <2> QED BY <2>1, InitInv, PTL DEF Spec
<1>3. CASE Eager = FALSE
  <2>1. Spec => []StaleDetected
    BY <1>3, LateEntriesDetected, ZenonT(30)
  <2>2. CacheInv /\ StaleDetected /\ [Next]_vars => CacheInv'
    BY <1>1, ZenonT(30)
  <2> QED BY <2>1, <2>2, InitInv, PTL DEF Spec
<1>4. Eager \in BOOLEAN
  BY CheckCacheAssumption, ZenonT(30)
<1> QED BY <1>2, <1>3, <1>4, ZenonT(30)

(* So does what the late iterators contribute to it.                       *)
LEMMA CacheAndLateCorrect ==
  ASSUME Exact
  PROVE  Spec => [](CacheInv /\ (Eager \/ StaleDetected))
<1>1. CASE Eager
  <2>1. CacheInv => CacheInv /\ (Eager \/ StaleDetected)
    BY <1>1, ZenonT(30)
  <2> QED BY <2>1, CacheCorrect, PTL
<1>2. CASE Eager = FALSE
  <2>1. Spec => []StaleDetected
    BY <1>2, LateEntriesDetected, ZenonT(30)
  <2>2. CacheInv /\ StaleDetected => CacheInv /\ (Eager \/ StaleDetected)
    BY ZenonT(30)
  <2> QED BY <2>1, <2>2, CacheCorrect, PTL
<1>3. Eager \in BOOLEAN
  BY CheckCacheAssumption, ZenonT(30)
<1> QED BY <1>1, <1>2, <1>3, ZenonT(30)

(* StaleGone: once a run of the controller that saw a write has completed, *)
(* no iterator that misses the write is served until the write is a        *)
(* time-to-live old, and then only one stored after the write, or before   *)
(* it by less than the jitter (findChangesAndInvalidateIfNecessary with    *)
(* findInCache and tryGetFromCache).                                       *)
THEOREM InvalidatedIteratorsGone ==
  ASSUME Exact
  PROVE  Spec => []StaleGone
<1>1. CacheInv /\ (Eager \/ StaleDetected) => StaleGone
  BY FoundStale, ZenonT(30) DEF StaleGone
<1> QED BY <1>1, CacheAndLateCorrect, PTL

(* RecomputedFresh: a response that a request computed after such a run    *)
(* reflects the write, unless it came from an iterator as StaleGone allows *)
(* (CachedCheckResolver over the cached datastore).                        *)
THEOREM RecomputedResponsesFresh ==
  ASSUME Exact
  PROVE  Spec => []RecomputedFresh
<1>1. CacheInv => RecomputedFresh
  BY SMT, SMTT(30) DEF CacheInv, QueryOK, Fresh, Late, RecomputedFresh
<1> QED BY <1>1, CacheCorrect, PTL

(* A request that ends while it looks at the query cache was answered from *)
(* it.                                                                     *)
LEMMA QueryAnswered ==
  ASSUME CacheInv, Next, NEW r \in Reqs, req[r].pc = "query", req'[r].pc = "idle"
  PROVE  LookUpQuery(r)
<1>1. req' # req /\ req'[r] # req[r]
  BY ZenonT(30)
<1>2. ~Tick /\ ~Controller /\ \A t \in Tuples : ~Write(t)
  BY <1>1, ZenonT(30) DEF Tick, Write, Controller, ListObjects, GetChangelog, ReadChanges, ReadChangesFails,
     ReadChangesTimesOut, SetChangelog, MarkStore, MarkSome, MarkEntity
<1>3. \A d \in drains : ~Drain(d)
  BY <1>1, ZenonT(30) DEF Drain, DrainCheck, Flush, DrainDropped
<1>4. PICK s \in Reqs : Request(s)
  BY <1>2, <1>3, ZenonT(30) DEF Next
<1>5. DOMAIN req = Reqs
  BY ZenonT(30) DEF CacheInv, RequestsOK
<1>6. PICK q : req' = [req EXCEPT ![s] = q]
  BY <1>4, <1>5, ZenonT(30) DEF Request, Begin, LookUpQuery, LookUpIterator, Open, Wrap, Consume, ReadFails, CacheQuery, Respond
<1>7. s = r
  BY <1>1, <1>5, <1>6, ZenonT(30)
<1>8. ~\E k \in conf.keys, high \in conf.preferences : Begin(r, k, high)
  BY ZenonT(30) DEF Begin
<1>9. ~(LookUpIterator(r) \/ Open(r) \/ Wrap(r) \/ Consume(r) \/ ReadFails(r) \/ CacheQuery(r) \/ Respond(r))
  BY ZenonT(30) DEF LookUpIterator, Open, Wrap, Consume, ReadFails, CacheQuery, Respond
<1> QED BY <1>4, <1>7, <1>8, <1>9, ZenonT(30) DEF Request

(* AnswersCurrent: a request is never answered with a response older than  *)
(* the writes it knows of, and a request for higher consistency sees all   *)
(* writes committed before it began (DetermineInvalidationTime and the     *)
(* query cache).                                                           *)
THEOREM AnswersAreCurrent ==
  ASSUME Exact
  PROVE  Spec => AnswersCurrent
<1> DEFINE A == \A r \in Reqs : req'[r].pc = "idle" =>
                  /\ req[r].pc = "query" => \A w \in 1..req[r].known : query[req[r].key].lm > log[w].at
                  /\ req[r].pc = "answer" /\ req[r].high => req[r].snap >= req[r].committed
<1>1. ASSUME CacheInv, Next
      PROVE  A
  <2> SUFFICES ASSUME NEW r \in Reqs, req'[r].pc = "idle"
               PROVE  /\ req[r].pc = "query" => \A w \in 1..req[r].known : query[req[r].key].lm > log[w].at
                      /\ req[r].pc = "answer" /\ req[r].high => req[r].snap >= req[r].committed
    BY ZenonT(30)
  <2>1. ASSUME req[r].pc = "answer", req[r].high
        PROVE  req[r].snap >= req[r].committed
    <3>1. req[r].committed <= req[r].snap /\ req[r].committed \in 0..Len(log) /\ req[r].snap \in 0..Len(log)
      BY <1>1, <2>1, BusyReq, ZenonT(30)
    <3>2. Len(log) \in Nat
      BY <1>1, SMT, SMTT(30) DEF CacheInv, LogOK
    <3> QED BY <3>1, <3>2, ZenonT(30)
  <2>2. ASSUME req[r].pc = "query", NEW w \in 1..req[r].known
        PROVE  query[req[r].key].lm > log[w].at
    <3> DEFINE k == req[r].key
               v == req[r].known
    <3>1. LookUpQuery(r)
      BY <1>1, <2>2, QueryAnswered, ZenonT(30)
    <3>2. k \in Keys /\ (v = 0 \/ (v \in 1..Len(log) /\ req[r].inv = log[v].at))
      BY <1>1, <2>2, BusyReq, ZenonT(30)
    <3>3. QueryHit(r)
      <4>1. DOMAIN req = Reqs
        BY <1>1, ZenonT(30) DEF CacheInv, RequestsOK
      <4>2. ~QueryHit(r) => req'[r] = Narrowed(r, IF conf.iterators THEN "iter" ELSE "open")
        BY <3>1, <4>1, ZenonT(30) DEF LookUpQuery
      <4>3. \A p : Narrowed(r, p).pc = p
        BY ZenonT(30) DEF Narrowed
      <4>4. (IF conf.iterators THEN "iter" ELSE "open") # "idle"
        BY ZenonT(30)
      <4> QED BY <4>2, <4>3, <4>4, ZenonT(30)
    <3>4. query[k] # None /\ query[k].lm > req[r].inv
      BY <3>3, ZenonT(30) DEF QueryHit, Live
    <3>5. query[k].lm \in Nat
      BY <1>1, <3>2, <3>4, ZenonT(30) DEF CacheInv, QueryOK, Response
    <3> HIDE DEF k, v
    <3>6. Len(log) \in Nat /\ w \in 1..v
      BY <1>1, SMT, SMTT(30) DEF CacheInv, LogOK, v
    <3>7. v \in 1..Len(log) /\ req[r].inv = log[v].at /\ w \in 1..Len(log) /\ (w = v \/ w < v)
      BY <3>2, <3>6, SMT, SMTT(30)
    <3>8. log[w].at \in Nat /\ log[v].at \in Nat
      BY <1>1, <3>7, LogType, ZenonT(30) DEF CacheInv
    <3>9. log[w].at <= log[v].at
      BY <1>1, <3>7, <3>8, SMT, SMTT(30) DEF CacheInv, LogOK
    <3>10. query[k].lm > log[w].at
      BY <3>4, <3>5, <3>7, <3>8, <3>9, SMT, SMTT(30)
    <3> QED BY <3>10, ZenonT(30) DEF k
  <2> QED BY <2>1, <2>2, ZenonT(30)
<1>2. CacheInv /\ [Next]_vars => [A]_vars
  BY <1>1, ZenonT(30)
<1> HIDE DEF A
<1>3. Spec => [][A]_vars
  BY <1>2, CacheCorrect, PTL DEF Spec
<1> QED BY <1>3, ZenonT(30) DEF AnswersCurrent, A
=============================================================================
