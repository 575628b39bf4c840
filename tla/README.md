# TLA+ models of the authorization engine

The repository is a Zanzibar-style authorization server. It stores
relationship tuples and authorization models, and answers Check, ListObjects,
ListUsers and Expand queries by walking the graph the model and the tuples
define. This directory holds TLA+ models of the parts whose correctness
depends on interleavings, failures, stale state, resource limits or on several
pieces of code agreeing on what a model means, the TLC configurations that
check small instances of them, and TLAPS proofs of the properties that matter
most for all instances.

`PROJECT.json` holds the list of parts, the runs, the source lines every
definition models, the hazards and which property guards against each.
Paths below are relative to `src/`.

## The system and its parts

**Entry points.** `pkg/server` turns an RPC into a command
(`pkg/server/commands`): it resolves the type system of the model
(`pkg/typesystem`), wraps the datastore for the request (contextual tuples,
bounded reader, caches, shared iterators: `pkg/storage/storagewrappers`), and
runs the query under the request's context, which may time out or be
cancelled.

**Check.** Two generations. `internal/graph` (version 1) is a chain of
resolvers (`CachedCheckResolver`, throttling, `LocalChecker`); a rewrite
becomes nested reducers (union, intersection, exclusion), each of which starts
a goroutine per operand, and the operands read tuples with one of several
strategies (default, recursive, weight two). `internal/check` (version 2,
experimental) does the same on a weighted graph with pools and channels of its
own. State: contexts, channels of outcomes, pools, visited sets.

**ListObjects.** `internal/listobjects/pipeline` builds a network of workers
from the weighted graph, one worker per node and one medium per edge, with
bounded channels between workers and unbounded queues on the edges of cycles.
Workers deduplicate (Basic), intersect or subtract; errors go to an
accumulator beside the data. `Recv` and `Close` read the network. State: the
media, the in-flight count and ring of a cycle, output buffers, the error
accumulator, three levels of contexts. The older implementation by reverse
expansion lives in `pkg/server/commands/reverseexpand`.

**Containers.** `internal/containers/mpmc` is a lock-free ring that grows,
`internal/containers/mpsc` a lock-free linked list: the media and the error
accumulator of the pipeline are made of them.

**Caches.** One in-memory cache holds Check responses (query cache),
materialised iterators (iterator cache, written by background drains of
iterators a request has stopped), the changelog entry and the invalidation
markers. `internal/cachecontroller` reads the newest page of the changelog
and invalidates by timestamp. Readers compare timestamps of the entry, of the
change and of the marker, taken by different clocks at different moments.

**Storage.** `pkg/storage/memory`, `postgres`, `mysql`, `sqlite` with the
shared `sqlcommon`: transactional writes that maintain tuples and changelog,
reads through stacks of iterators, pagination by continuation token, stores,
models and assertions. Wrappers share the iterators of equal reads, bound the
reads of a request and cache models.

**The type system.** `pkg/typesystem` validates models when they are written,
`internal/validation` tuples when they are written and again when they are
read, because a later model may no longer allow them.

**The other queries.** ListUsers and Expand expand a relation from the object
down; BatchCheck and the AuthZEN endpoints make many Checks out of one request.

**The rest.** Planner, throttlers, authentication, configuration, telemetry,
migrations. Each is listed in `PROJECT.json`, with why it is left out.

How they interact, where it matters for correctness: a reducer's early return
cancels the goroutines below it while they write to caches; a write and the
invalidation it causes race with an iterator that was opened before; a worker
that fails races with the data it has already sent; a caller that stops early
races with producers that block on full media; a query reads tuples another
model admitted; ListObjects trusts a read that Check would look at again.

### What makes it hard, and what would be correct

| part | hard behaviour | property |
|---|---|---|
| cycle of the pipeline | count reaches zero while a message is between workers; failed sends, panics, cancellation | the count is exact, quiescence is final, nobody sends on a closed medium, ordered teardown, termination |
| containers | claim and publish are two steps; growth; one-token wake-up channels; Close overtakes a Send | linearizable FIFO, exact ownership, a final end, every call returns while callers keep calling |
| pipeline | failure after partial output; cancellation reaches contexts one by one; backpressure | sound, no duplicates, complete or error, errors surface, termination |
| caches | timestamps taken at different moments; late flush; jitter; partial changelog | what misses a write is not served once an invalidation has seen it, and how long an entry that escapes it lives |
| reducers | outcomes in any order, dropped outcomes, closed channels, full pools | the answer is the value of the rewrite, no goroutine left behind |
| iterators | Head and Next through stacks of filters and merges | every tuple once and in order, no error lost, rows released |
| fast strategies | two streams in batches, errors in between, shared visited sets | allowed exactly when there is a match, everything drained |
| shared iterators | reference counts, two timers, clones, a limiter | one database version per client, rows open exactly while used |
| datastores | row locks that do not cover missing rows; identifiers before commits; a replica that lags; offsets | Write is atomic, answers are true, pages are exact, acknowledgements hold |
| type system | branches that share maps of visited relations | accepted models have entrypoints and no cycles |
| queries | four traversals of the same rewrites over four backends | all agree with one definition of what a model and tuples mean |
| batches | equal checks share a run while the store changes | every item gets an answer of its own check |

## Modules

| module | models | state |
|---|---|---|
| `CycleGroup` | `pipeline/internal/track/reporting.go`, `worker/cycle.go`, `basic.go`, `core.go`, `medium.go` | the workers of one cycle |
| `Fifo` | what both containers promise | abstract queue |
| `MpmcQueue`, `MpscAccumulator` | `internal/containers/mpmc`, `mpsc` | every atomic step |
| `Pipeline` | `pipeline/pipeline.go`, `worker/*.go` | an acyclic network and its caller |
| `CheckCache` | `internal/cachecontroller`, `graph/cached_resolver.go`, `storagewrappers/cached_datastore.go`, `iterator_cache.go` | the caches of one store |
| `CheckReducers` | reducers of `internal/graph/check.go`, `internal/check/check.go` | nested reducers of both generations |
| `Iterators` | `pkg/storage/tuple_iterators.go`, `internal/iterator`, the datastores' iterators | one stack and its client |
| `FastPaths` | `graph/weight_two_resolver.go`, `recursive_resolver.go`, `internal/check/bottom_up.go`, `weight2.go`, `recursive.go` | a set operation, the consumer, a recursive search |
| `SharedIterators` | `storagewrappers/sharediterator`, `bounded_datastore.go` | items, clones, timers, limiters |
| `TupleStore` | what the storage interface promises of Write | abstract store and log |
| `TupleBackends` | Write, Read, ReadChanges of the four datastores and their commands | rows, log, transactions, two paging readers |
| `Catalog` | stores, models, assertions, readiness; the resolvers of models | primary, replica, shared lookups, caches |
| `Typesystem` | `pkg/typesystem`, `internal/validation`, edges of `internal/graph/graph.go` | operators |
| `TupleReads` | the four reads of each datastore, `combinedtuplereader.go` | operators |
| `CheckResolution` | `internal/graph` with the default strategy, the Check command | operators |
| `ListUsers`, `Expand` | `commands/listusers`, `commands/expand.go` | operators |
| `Relationships` | nothing: the meaning of a model and tuples | reference operators |
| `Queries` | the write and query commands around these | models, rows, the last call |
| `ListObjects` | `commands/list_objects.go`, `commands/reverseexpand` | tasks, candidates, the consumer |
| `Evaluations` | `pkg/server/authzen.go`, `batch_check.go`, `commands/batch_check_command.go` | the pool, the outcomes, a store that changes |
| `Scenarios` | nothing: models and tuples to ask about | |

`*Proofs` modules, and `SharedIteratorsSteps`, hold the theorems about the module
they are named after (see Proofs). `MC*` modules give the constants their values for TLC. Where several components
share a run, the variable `part`, chosen in the initial state, says which one is
at work; the others rest in an initial state, and each property says of which
part it speaks. Definitions whose comment begins with "Mutant" are plausible
bugs: each replaces one definition, and TLC must then find the property it is
paired with violated.

**CycleGroup.** `inflight`, `sawZero`, `zero`, `pending`, `ready` are the
`StatusPool`; `awake` and `main` the `Membership` ring and the program counter
of `Basic.Execute` (run standard senders, report, decrement, wait for all
ready, wait for quiescence, wait for the turn, clean up, wake the next, wait
for the recursive senders); `loop` and `proc` the message loop and the
processing goroutines of `ProcessSender`; `loc` says who owns each message. A
message is an identity: a worker that processes one may emit any chunk of
values it has not emitted before, and `fresh` counts those, because
`outputBuffer` emits nothing twice. The decrement that returns zero and the
close of the quiescence channel are two steps. `Drain` uses a context that is
never cancelled, as the code does. Members number 1..N in the order they
joined; the newest leads. Upstream and downstream workers are environment.

**Fifo.** A queue with the sequences `items` and `taken`, and `shut`: a value
is appended at the end while the queue is open, a reader takes the first, and
the queue is shut once.

**MpmcQueue.** Each load, compare-and-swap, store and channel operation of
`Send`, `Recv`, `extend`, `Grow` and `Close` is an action. Actions under the
read lock keep a goroutine in the set `Reading`; actions under the write lock
need `MayWrite` and are one step. `full` and `empty` are the one-token
channels; a goroutine that found no token is in `sWait` or `rWait`, and a
signal is handed to a waiting goroutine directly, as Go's channels do.
Positions are unbounded integers: no execution comes near 2^63.

**MpscAccumulator.** `head`, `tail` and `next` are the list; `Send` is load,
compare-and-swap, link, signal; `Close` sets the flag, swaps the head to nil,
links the sentinel and closes `done`. One consumer mixes `Recv` and `TryRecv`.

**Pipeline.** A network `g` is chosen in the initial state and never changes:
kinds of workers, edges, what a read over an edge finds for an object. A task
is a processing goroutine of an edge or `Execute` itself while it broadcasts;
its state is what it still has to look at (`todo`), the chunk it is filling
(`buf`) and the listeners the chunk has still to go to (`pend`). `ReadFails`
can strike before any result. An Intersection or Difference collects per edge
(`bag`), reads the error counters of its senders, and emits; its own context is
cancelled when it gives up. Cancellation of the request reaches the pipeline's
context and a worker's own in steps of their own. Reporting an error is two
steps (`ReportCas`, `ReportLink`), as in the accumulator. The caller is `Recv`
(check the context, try the errors, take from the buffer, wait for output) and
`Close` (cancel, drain, wait).

**CheckCache.** Time is a counter that every step with a compared timestamp
advances. `log` is the changelog with the timestamp the datastore gave a change
and the true time. A cached iterator is the length of the changelog it saw
(`snap`), the timestamp that guards it (`lm`) and the moment it was stored
(`flushed`). The controller runs get, read, set the changelog entry, mark the
store or mark entities one by one, with failure and timeout of the read.
A request determines the invalidation time, looks into the query cache and the
iterator cache, opens an iterator, wraps it (this is where the timestamp is
taken), consumes it, and caches its response; the goroutine of a stopped
iterator checks and flushes later. `Eager` and `Grain` are what the backends
differ in: when a snapshot is taken, and the resolution of changelog
timestamps. `Jitter` is the most that is added to a time to live, by version 1
only (`LargestJitter`). `conf` selects the generation of the iterator cache and the
enabled caches.

**CheckReducers.** A tree of reducers over leaves. A leaf is a datastore read
with a fixed outcome: yes, no, failure, cycle, or nothing until its context is
done. A reducer starts handlers as its pool allows, receives from its channel,
decides as soon as an outcome settles it, concludes when all were received, and
its return cancels everything below. `TrySend` may drop an outcome when the
context is done. In version 1 a closed channel yields iterations; an exclusion
drops a closed channel from its select; version 2 waits for its handlers.

**Iterators.** A stack is a tree of records, one per Go value; `Head`, `Next`
and `Stop` of every kind of iterator are operators that return the stack they
leave, a value and an error. The client calls them in any order, on a context
that is live, cancelled, or live while the database fails or sends a row that cannot
be read. Rows fail at the query (`fetchBuffer`) or in the middle of the stream
(`scanRow`): lost rows report their error from then on, an unreadable row is gone
after the call that met it.

**FastPaths.** A load fixes the streams of the children (batches, iterators that
fail, errors), the tuples on the object's side and, for recursion, a graph of
usersets. `weight2` asks an iterator that failed again (`AskAgain`): it has ended,
goes on with the rest, or fails every time. The node goroutine takes heads, skips, merges and sends batches of at
least `BatchMin`; the consumer selects between both sides as the code does, and
the recursive strategies go on with a breadth-first search (version 1, with its
depth limit) or a pool of goroutines that share the visited map (version 2).

**SharedIterators.** `entry` is the map of items, `ctr` its counter, an item has
its once, its reference count, position and buffer, both timers and the version
of the database its rows come from. A client loads or stores, unwraps, reads
from the buffer or fetches, stops; timers fire when they may; the limiter and
the throttle of a request's `BoundedTupleReader` are taken below it.

**TupleBackends.** One statement is one step, except SELECT ... FOR UPDATE and
INSERT, which take one row at a time because they may wait for each. A tuple key
is its position in the lock order. `tx` is the transaction of a writer: rows
locked, rows seen, rows inserted, identifiers drawn; commits, rollbacks,
duplicate-key errors, deadlocks and busy databases end or repeat it. `page` and
`feed` are the two readers that follow continuation tokens; `clock` dates
changes for the horizon offset. Row locks, snapshots and unique indexes are the
databases' (external), written from how the code relies on them.

**Catalog.** A client runs a program of operations. `replica` follows `db` at any
distance; the reads of the catalog go there. `tsFlight` and `dbFlight`
are the two nested single-flight groups a lookup of the latest model goes
through, `cached` the three caches of models, `versionReady` the flag of
`IsReady`. Identifiers grow as ULIDs do.

**Typesystem, TupleReads, CheckResolution, ListUsers, Expand.** Translations of
the functions, on records instead of strings: a user is a type, an id and a
relation, a rewrite a tree. Where goroutines compete for an outcome, an operator
returns the set of outcomes they can produce: `CheckResolution` one of allowed,
denied, cycle or error for every order of its handlers, `ListUsers` bags of
messages, from which a map keeps whichever came last. Conditions have a verdict
per name (met, unmet, cannot be evaluated); reads of a relation may fail.

**Queries.** Models and tuples arrive one by one through the validation of their
commands, and any query may be asked between two writes, under any accepted
model: this is what makes tuples of an older model meet a newer one.

**ListObjects.** A task is an expansion of a user or a read over an edge; tasks
run in any order and share `visited` and `candidates`. The consumer, the Checks
of its pool, the limit, the deadline, errors and the cancellation they cause are
separate steps. Counting an object (`trySendObject`) and sending it (`SendObject`,
which loses it when the context has ended) are two steps. `chan` is unbounded.

**Evaluations.** A load is a history of two versions of the store and a request.
The store may change between any two steps, a batch runs one Check per distinct
key in any order, the caller may go, and the sequential endpoints stop early. A
Check makes two reads, in either order and not of one moment, and combines them as
a union or an exclusion does (`Says`).

### How the models fit together

`Pipeline` uses the containers by what `MpmcQueue` and `MpscAccumulator` show of
them: a channel or queue is a sequence, and the accumulator keeps only its
two-step Send, because that gap is visible to `Recv`. `CycleGroup` treats a
`QueueMedium` as an unordered set of queued messages, which is weaker than the
FIFO order and therefore safe. `CheckReducers` has every interleaving of nested
reducers; `CheckResolution` uses the set of outcomes they have. `FastPaths`
stands for the strategies `CheckResolution` leaves out. `TupleBackends` has the
steps of a write and `TupleReads` what a read of committed rows returns, for the
same backends. `ListObjects` and `Queries` compose typesystem, reads and Check;
`Evaluations` has a Check of two reads, with the reducers of `CheckResolution`,
because what matters is that the store changes between them. Two refinements tie the detailed models to abstract ones: the
containers implement `Fifo`, and the four datastores implement `TupleStore`.

## Runs

Passing runs:

| run | instance | shows |
|---|---|---|
| `cycle_group` | two Basic workers feeding each other, one standard input, one output of capacity one, one panic, cancellation at any point | `InflightExact`, `QuiescenceIsFinal`, `NoSendOnClosed`, `OrderedTeardown`; `Terminates`: the group ends unless all goroutines of one sender died, and after a cancellation even then |
| `containers` | a ring of two slots under four workloads: two receivers and a Close; extension by a full Send and by Grow; a ring that cannot grow, with a Close and a cancelled sender, and without; the accumulator with two producers of two values, Close and cancellation | `Linearizable` (refinement of `Fifo`), `OwnershipExact`, `EndIsFinal`, `CallsReturn` |
| `pipeline` | six networks: a difference and an intersection with a failing read, a fan-in of a wildcard and a direct subtract, an exclusion at the end of the pipeline with a cancelled request, the same with a caller that stops while a read may fail, an exclusion without a base | `Sound`, `NoDuplicates`, `Complete`, `ErrorSurfaces`, `Terminates` |
| `check_cache` | both generations, lazy iterators, exact timestamps, jitter of two on a time to live of three, three writes, five time steps | `StaleGone`, `StaleDetected`, `RecomputedFresh`, `AnswersCurrent` |
| `check_parts` | reducers: all pairs of different operators, one inside the other, in both versions, exclusions in both orders, flat ones with cancellation; iterators: every stack the engine builds over six contents; fast paths: every operation over five kinds of child, errors on either side, an iterator asked again after a failure, five graphs of usersets; shared iterators: five pairs of clients | `AnswerSound`, `IteratorsExact`, `FastPathExact`, `SharedReadsExact`, `RowsReleased`, `PartsEnd` |
| `storage` | each backend: two writers that move, cross, replace and retry over three keys, a reader of pages, a follower of the changelog; three clients on stores, models, assertions and readiness, with a replica under PostgreSQL, evictions and failures | `WritesAtomically` (refinement of `TupleStore`), `AnswerTruthful`, `RowsSeenStay`, `PagesExact`, `SkipsOnlyOverlapping`, `AcknowledgedHolds`, `LatestMonotone`, `StorageEnds` |
| `queries` | eight scenarios (nesting, cycles, intersections, wildcards, conditions, a replaced model, exclusions) on four backends, with every subset of their tuples, contextual tuples, failing reads and limits; every model of three relations from a small grammar; ListObjects with limits, deadlines and errors; Reads on every backend; batches and evaluations of up to three items over a store that changes once | `AcceptedModelsUsable`, `CheckExact`, `ListUsersExact`, `ExpandAgrees`, `ReadsAgree`, `ListObjectsExact`, `EvaluationsExact`, `QueriesEnd` |

Violation runs. Each states what a comment or document of the repository says
and shows an execution of the code that differs; `PROJECT.json` quotes the
lines under "findings".

| run | what happens |
|---|---|
| `pipeline_gap` | Two reads fail. The first error is claimed in the accumulator and not linked yet, so `TryRecv` does not see the second one, whose Send has returned, and `Recv` delivers an object computed from a truncated subtract set. |
| `cache_late_stamp` | The in-memory datastore takes its snapshot when the iterator is created, the guard timestamp is read after that, and a write with its invalidation fits in between. |
| `reducer_cancelled` | An intersection whose caller has its answer already drops its operands' outcomes, takes the closed channel for them and returns allowed. The caller is gone, but the response of a relation is cached. |
| `list_users_nested` | Both sides of an exclusion are exclusions themselves, and each reports the user as having no relation; the outer one negates the subtracted status without looking at the base, and returns the user. |
| `sqlite_list_objects` | SQLite's reverse read of `user:bob` also matches the rows of `user:bob#friend`; ListObjects does not check a candidate it read directly. Read of SQLite has the same condition. |

Behaviour the properties leave room for, because the code has it and no document
rules it out:

* a receiver of the MPMC queue may stay parked beside an item when another one
  took its wake-up and nobody calls again (`CallsReturn` lets receivers keep
  calling, as the pipeline's do);
* with changelog timestamps in whole seconds, as MySQL's column has them
  (`Grain` above 1 in `CheckCache`), a response cached in the second of a write
  outlives it, and `AnswersCurrent` does not hold;
* the controller marks only changes within the time to live of an iterator, because
  older entries "would not live in the iterator cache anyway"
  (`cachecontroller/cache_controller.go:323`; `docs/caching.md:147` says the same).
  An iterator that was read before a write and flushed after it, or flushed before it
  by less than the jitter of `docs/caching.md:249`, does live longer: once the time to
  live of the write is over it may be served again. `StaleGone` says exactly which
  entries these are and that they are not served before, and `RecomputedFresh` what a
  response made of them can miss;
* a request whose read fails every time is asked again by `weight2` without an end
  (`graph/weight_two_resolver.go:169-178`); its deadline ends it (`PartsEnd`);
* ListObjects counts an object before it sends it, and the limit cancels the Checks
  that are about to send: fewer objects than the limit may be returned although more
  are related (`ListObjectsExact` allows this once the limit was counted);
* the reads of one Check are not of one moment, so that a write between them can give
  an answer the check had neither before nor after it (`EvaluationsExact`);
* a Read of SQLite for a user also returns the rows of that user's usersets, against
  `pkg/storage/storage.go:153` (`ReadsAgree`; see `sqlite_list_objects`);
* the SQL datastores refuse to repeat a write of a conditional tuple without context,
  also when duplicates are to be ignored, because they compare it with the empty
  context they read back (`AnswerTruthful` says of a refusal that it changed nothing);
* the SQL datastores may skip a change in ReadChanges when its call overlapped
  with one returned before it (`SkipsOnlyOverlapping` says exactly which);
* the memory datastore pages by offset, so that a deletion shifts later pages
  (`PagesExact`);
* a store that the replica has not heard of is "deleted" without effect
  (`AcknowledgedHolds`);
* version 2 of the recursive strategy marks a userset as visited before the
  condition of the tuple is evaluated, and may deny what another tuple with a
  met condition allows (`Shadowed` in `FastPathExact`);
* a failing producer leaves the counter of shared iterators one too high, which
  after enough failures turns sharing off and changes no answer;
* a relation that excludes itself over a cycle of tuples is denied, and a
  contextual tuple may carry another condition than the stored one of the same
  key: the resolvers disagree on purpose or by order, and the exactness
  properties are stated for loads without either.

Deadlock checking stays on in `cycle_group`. The other systems really stop (all
calls made, the request answered, the bounds reached); there, that nobody waits
for good is what the liveness properties say.

### Bounds, and why they are enough

* `cycle_group`: two members are the smallest ring with a leader and a
  follower; one chunk of new values per member and one arriving message let a
  message go around while the members report; one panic and one cancellation
  meet every step. Four message structs are all that can ever be needed: one
  chunk per member goes to three listeners together, and one message arrives.
  The theorems remove these bounds.
* `containers`: a ring of two slots wraps with three items, so stale positions
  and recycled slots occur; growth to four happens while it wraps. `Always` (nine
  calls) is more than there are items: the receiver keeps receiving. Two
  producers suffice for a claimed, unlinked node to hide a later one; two values
  each give a chain behind it.
* `pipeline`: one goroutine per edge, chunks of one object and channels of
  capacity one give the most interleavings and the most backpressure per state;
  two objects distinguish base, subtract and intersection. Fan-in into a Basic
  worker provides the concurrent duplicate. One fault at a time, except in
  `pipeline_gap`.
* `check_cache`: one request at a time and one drain in flight besides the
  controller; TTL 3 with 5 time steps, so entries expire, with a jitter of 2, so that
  one outlives the time to live of a write that follows it; a page of three changes
  and three writes reach "page full", "all recent" and "some recent" with several to
  mark. Settings split what would not fit in one state space.
* `check_parts`: two levels of reducers and a pool limit of two, with every
  outcome on one leaf while the others answer or fail, and flat reducers with two
  leaves that fail or find a cycle together; up to three tuples per source and seven calls of a
  client, with one fault (the query, the stream or a row), so that a stack is read to
  its end in any mix of Head and Next; children of up to two batches and right sides that match early, late
  or never; graphs with a diamond, a cycle, disagreeing conditions, a failing
  read and a chain longer than the depth limit; two clients, two rows and a
  buffer of one, so that a clone overtakes the fetch of another.
* `storage`: two writers over three keys can lock in opposite orders, meet each
  other's uncommitted inserts and miss each other's locks; statements take two
  rows, so that three need two; pages of one make every write fall between two
  pages; three clients let two wait for a lookup the third has made stale.
* `queries`: two users tell a wildcard from a user; two objects of a type and two
  groups make chains and cycles; each scenario has the smallest set of tuples
  that exercises its rewrite, and all of its subsets are stored. The grammar of
  models has every operator over direct, computed and tuple-to-userset operands.
  Three items give a duplicate and a different one; two reads and one change of the
  store are the least with an answer of no single moment. The filters of Read have no
  userset of a type without an id.

### Fairness

Go's scheduler runs every goroutine that can run, and a writer waiting for an
`RWMutex` blocks later readers. Where work is finite, one weak fairness
condition on "some goroutine moves" says this and no more (`CycleGroup`,
`Pipeline`, and the parts of `check_parts`, `storage` and `queries`). The
containers need it per goroutine, plus strong fairness of `SendExtend`, the
writer's turn. In `queries` a task or a Check that runs also returns. Nothing
forces a Close, a Grow, a panic, a failure, a write or a cancellation, except
that the timeout of a request expires: where a read can fail every time, the request
has the deadline `config.DefaultRequestTimeout` gives it, and without one it would not
end. `CycleGroup` also assumes that upstream
workers finish and that downstream workers read until their medium is closed,
which is what `Core.ProcessSender` and `Pipeline.Close` do. The databases
resolve deadlocks by aborting one transaction, as they document.

## Proofs

Each proof module extends the module it is about; `SharedIteratorsSteps` holds
the inductive invariant of `SharedIterators` and the lemmas about its steps, on
which `SharedIteratorsProofs` builds. A leaf of a proof names the prover that
finds it; two limits for the same prover mean that a second attempt is made.

| module | theorem | states |
|---|---|---|
| `CycleGroupProofs` | `TypeCorrect` | `TypeOK` always; the in-flight count never goes below zero |
| | `CountExact` | `InflightExact` always |
| | `QuiescenceSound` | `QuiescenceIsFinal` always |
| | `CloseSafe` | `NoSendOnClosed` always |
| | `TeardownInOrder` | every step satisfies `OrderedTeardown` |
| `MpmcQueueProofs` | `RingCorrect` | `RingInv` always: one owner per slot, a winner of the head has a free slot, a winner of the tail an item |
| | `QueueLinearizable` | the ring implements `Fifo` |
| | `QueueOwnership` | `OwnershipExact` always |
| `MpscAccumulatorProofs` | `ListCorrect` | `ListInv` always: the nodes form one chain |
| | `AccumulatorLinearizable` | the list implements `Fifo` |
| | `SendOwnership` | `OwnershipExact` always |
| | `StreamEnds` | `EndIsFinal` always |
| `PipelineProofs` | `ShutdownOrderly` | `ShutInv` always |
| | `ErrorsSurface` | `ErrorSurfaces` always |
| | `CloseLeavesNothing` | after Close no goroutine runs and no message is left |
| `CheckCacheProofs` | `InvalidatedIteratorsGone` | `StaleGone` always |
| | `RecomputedResponsesFresh` | `RecomputedFresh` always |
| | `AnswersAreCurrent` | every step satisfies `AnswersCurrent` |
| | `LateEntriesDetected` | `StaleDetected` always |
| `CheckReducersProofs` | `AnswersSound` | `AnswerSound` always |
| | `OnlyCutShortUnsound` | at every level, `Sound` unless the context is done |
| `SharedIteratorsProofs` | `SharedReads` | `SharedReadsExact` always |
| | `ReferencesCounted` | `RowsReleased` always |
| | `StalenessIsBounded` | `StalenessBounded` always |
| | `LimiterHolds` | `BoundHolds` always |

### Cycle groups

The theorems hold for every size of the group, topology of edges,
number of goroutines, supply of messages and every bound on panics and chunks.

The only assumption is `GroupAssumption`: the group is not empty, the sets of
media are disjoint, every listener has a source and every sender a destination
in the group, and `None` is neither a medium nor a goroutine. Messages need not
be finite in number; only the counted ones are shown to be.

None of the properties is inductive. That the count is exact does not say that
a busy goroutine shows in it, and quiescence follows from exactly that. The
inductive invariant `IInv` adds to the types:

* `CountOK`: the counted messages are finitely many, and the count is exact;
* `ZeroOK`: a decrement that saw zero means that the count is still zero, and
  the channel is closed only after such a decrement;
* `BusyOK`: a busy goroutine owns a message that arrived on its sender, and its
  message loop has not got past waiting for it;
* `StandardOK`: a standard sender that is not done keeps its member in its
  first phase, where the member itself counts;
* `TeardownOK`: listeners are closed, and members are past the second wait,
  only after quiescence.

The argument: a goroutine that is busy on a cyclical sender owns a counted
message; one that is busy on a standard sender belongs to a member that has not
signalled ready (`BusyCounts`). Either way the count is positive
(`CountPositive`), so after a zero nobody is busy, nobody can send, and the
count can never rise again. The proof has a lemma per group of actions (message
loop, processing goroutine, `Execute`, surroundings), with a step per action.
`DoneCounts` is the arithmetic of `Message.Done`. The ordered teardown needs a
second invariant (`RingOK`), proved from the program counters and the injectivity of the
ring (`FollowInjective`): a member that was woken has a predecessor that closed
all its listeners.

### MPMC queue

For every capacity of at least two, every number of senders, receivers, closers
and growers, every workload and every limit on extensions (`QueueAssumption`:
the roles are disjoint, workloads have the right types, a sender has at most
`MaxItems` items). None of the run's properties mentions sequence numbers, and
they are what the algorithm rests on. `RingInv` says which sequence number each
slot holds, as a function of who has claimed its position:

* `Window`: owners of a slot lie inside the window of positions, takers less
  than a lap behind it, and a position has one of each at most;
* `Slots`: the position itself while it is free or claimed, one more once
  published, the position of the next lap once recycled;
* `Claims`: what a goroutine saw before its compare-and-swap still holds if the
  swap succeeds;
* `Open`, `Contents`: no Send that passed the check of `done` overlaps a
  completed Close, and a published slot holds the item of its sender.

`extend` renumbers all of this at once; `Slots` says why that is safe: it holds
the write lock, so nobody owns a slot. The refinement maps a Send to its
compare-and-swap of the head and a Recv to that of the tail; `ItemFacts` and
`TakenFacts` replace the choices in the refinement mapping by what they choose.
`Placement`, the inductive form of `OwnershipExact`, says of every item that it
is in one place at most, and in one exactly if it was handed over.

### MPSC accumulator

For every finite set of producers and every number of items each sends
(`AccumulatorAssumption`: at least one, and the names of the nodes are different).
`ListInv` says that there is a sequence `q` of items such that the nodes form the
chain of `q`, except that a producer between its swap of the tail and its link
leaves a gap right before its own node; that the consumer stands at a node of
the chain; and that `q` holds exactly the accepted items, in order, once each.
`Behind`, a recursive function that walks the list, is unfolded by showing that
`q` solves its equation. Send takes effect at its compare-and-swap; linking is a
stuttering step, which is why a consumer may see an empty list that is not.

### Pipeline

For every network that satisfies `GraphOK` (what the builder of the pipeline
guarantees: one output, a subscriber for every worker, two senders for a
difference, an order of the workers apart from cyclical edges, which
`CycleGroup` covers), every number of goroutines per sender, chunk size and
channel capacity, and every schedule of failures, cancellations, Recv and Close.
`ErrorSurfaces` speaks of the end only; `ShutInv` carries it there along the
chain from a goroutine to the end of its worker: a goroutine that is not idle
belongs to a sender that has not joined (`TaskFine`), a worker ends after its
senders (`EndOK`), a channel is closed exactly when its worker has ended
(`OpenOK`), a drained channel stays empty (`DrainedOK`), and a failure is in the
list of errors or in the hands of a goroutine about to put it there
(`ReportOK`, `LinkOK`).

### Check caches

`InvalidatedIteratorsGone`, `RecomputedResponsesFresh` and `AnswersAreCurrent`
hold for all keys, tuples, time-to-lives, jitters, page sizes and settings under the
hypothesis `Exact`: changelog timestamps are as fine as the clock. It is needed: with
coarser timestamps TLC finds a cached entry that outlives the run which should have
removed it. `CacheInv` relates three orders: the changelog's, the clock's and that of
the cache. Its core is `CoveredOK` and `CtlOK`: whatever branch a run of the controller
takes, every change up to `done` is older than the time to live, or the readers it
concerns look at a marker that was made after it and lives as long. `RequestsOK`
follows what a request has read into the response it stores (`QueryOK`).

`LateEntriesDetected` needs another hypothesis: the datastore
takes its snapshot at the first `Next` (`Eager = FALSE`, the SQL datastores). It
is the counterpart of the finding `cache_late_stamp`, which shows that the
property fails with the in-memory datastore. `LateInv` follows the timestamp of
an iterator from the wrapper through the draining goroutine into the cache. The two
invariants are used together (`CacheAndLateCorrect`): a marker exists by the first,
and by the second it is newer than the timestamp of every lazy iterator that misses the
write, however late that was stored.

### Check reducers

For every finite tree of unions, intersections and exclusions (`ReducersAssumption`:
every operand has one reducer, lists of operands are not empty and repeat
nothing, an exclusion has two operands at most, and `None` is not a response),
both versions, every limit of the pool and every outcome of the leaves. What
a node answers is right only if what its operands answered is, so the invariant
speaks of all nodes: `SoundOK` says that a node is sound unless its context is done.
Between the two stands what a reducer in its loop has received. `HandlersOK` and
`ChannelsOK` say that a handler gives up sending only when its context is done and
that an outcome is in the channel once; so a reducer whose context is not done has
counted exactly what it received (`CountOK`). `HeardOK` says what it knows of
those: that none of them decided, and that errors and cycles are remembered.
When all are in, nothing else is needed (`AllReceived`). An exclusion of version 2
may answer before that, when the channel of its second operand is closed; that this is not
premature is the one case where two operands meet (`DecisionSound`). The context of
the root is the request's, which gives `AnswersSound`. Below it the bound is sharp:
`reducer_cancelled` is an intersection whose context is done.

The value of a rewrite is a recursive function over the tree. That it satisfies its
equations is proved from the height of a node: a least height at
which they could not be solved does not exist (`ValueSolved`).

### Shared iterators

For every finite number of clients, requests, rows and failures, every buffer of
at least one row and every limit of the reader (`SharedAssumption`, which the MC
module evaluates for the run's instance). The four properties hold one another
up, so they are proved from one invariant. `SharedInv` says

* of a client (`ClientOK`, `GotOK`, `ItemOfOK`): what it holds at each place of
  the code, that it has read a prefix of the rows, and that its own head is never
  past the position of the item it shares;
* of an item (`ItemOK`, `FetchOK`, `CountOK`): that it is as it was made until
  its producer is through, that its buffer is the prefix of the rows read so far,
  that the one client that fetches is really at it, and that its references are
  its live clones plus one until its timer has stopped it. The rows are open exactly while
  there is a reference: a client that found the item just before its timer stopped
  it gets no clone and reads for itself, so that no count rises again from zero
  and no fetch meets stopped rows;
* of the maps (`EntryOK`): that an entry's timer has not taken it out, which with
  `BeganOK` bounds what a client that comes later can be given;
* of the limiters (`SlotsOK`): that the places taken are the clients between
  `bound` and `done`.

The counts are cardinalities of sets of clients. All that the steps need of
`Cardinality` is written down once (`ClientSets`) and follows from the finiteness of
`Clients` (`ClientCounts`). TLC checks the same properties through definitions of
`MCCheckParts` that say which part is at work.

## What is only model-checked

All liveness (`Terminates`, `CallsReturn`, `PartsEnd`, `StorageEnds`,
`QueriesEnd`): the prover handles neither fairness nor `ENABLED`. `Sound`,
`NoDuplicates` and `Complete` of the pipeline: they relate the delivered objects to a recursive denotation of the network, and stay with TLC. Everything about
storage, type system, resolvers, the iterator stacks, fast paths and queries: most of these
modules define their reference by recursive operators, which the prover does not
accept; what a recursive definition computes for every input (`Relationships`,
the resolvers) needs an induction over data that is out of its reach. The proofs
that meet a recursive function (`Behind`, `Value`) get by with the least element of a
set of numbers. Of the shared iterators, that everything is released in the end
(`Ended` in `PartsEnd`).

## What is not modelled

* In the modelled parts: the traversal in `Build` that turns a weighted graph
  into workers (networks are given); eviction from a full cache and the encoding
  of its keys; wrap-around of 64-bit positions; the deadline of ListUsers; the
  capacity of the result channel of ListObjects; streaming; logging, tracing and
  metrics.
* The weighted graph of a model comes from an external library, and with it the
  default strategy of version 2 of Check and the weighted reverse expansion
  (off by default).
* Search endpoints of AuthZEN, which translate answers of ListUsers and
  ListObjects; the shadow runs, which compare and log.
* Authentication and access control: every request is taken as admitted.
* Conditions: an external expression evaluator; a condition has a verdict.
* Thompson sampling in the planner is floating point and random. Throttlers
  delay and do not change an answer, except the one of the bounded reader, which
  is in `SharedIterators`.
* Configuration, telemetry, migrations, command-line tools, byte encodings and
  token encryption: input and output, or pure functions of one value.

## Plan

Theorems worth proving next: the refinement of `TupleStore` by `TupleBackends`
and `RowsSeenStay` for any number of writers and keys; `EvaluationsExact` of `Evaluations`;
`Sound` and `Complete` of `Pipeline`. `Typesystem` and the modules above it use recursive operators and
stay with TLC.
