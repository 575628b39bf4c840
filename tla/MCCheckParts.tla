---------------------------- MODULE MCCheckParts ----------------------------
(***************************************************************************)
(* The parts Check is put together from: the reducers, the iterators it    *)
(* reads with, the fast paths and the shared iterators.  One of them is at *)
(* work in a behaviour, the others rest in an initial state.               *)
(***************************************************************************)
EXTENDS Integers, Sequences, SequencesExt, FiniteSets, FiniteSetsExt, TLC

CONSTANTS None, Parts, Trees, w1, w2, reqA, reqB

VARIABLES
  part,
  tree, does, cancelled, pc, next, handler, resp, outcomes, gone, received, seen,
  stack, first, out, last, calls, faults,
  request, kids, node, left, right, cons, rec, timedOut,
  load, entry, ctr, item, cl, slots, reads, ctxDone, db, failures

reducerVars == <<tree, does, cancelled, pc, next, handler, resp, outcomes, gone, received, seen>>
iteratorVars == <<stack, first, out, last, calls, faults>>
fastPathVars == <<request, kids, node, left, right, cons, rec, timedOut>>
sharedVars == <<load, entry, ctr, item, cl, slots, reads, ctxDone, db, failures>>
vars == <<part, reducerVars, iteratorVars, fastPathVars, sharedVars>>

(***************************************************************************)
(* Reducers: rewrites of two levels, for both resolvers.                   *)
(***************************************************************************)
All(version) == {"yes", "no", "fail", "slow"} \cup (IF version = 1 THEN {"cycle"} ELSE {})

(* An outer reducer over an inner one with leaves a and b, and leaf c,     *)
(* which is the first operand or the last.                                 *)
Nested(version, outer, inner, leafFirst) ==
  [version |-> version, limit |-> 2, mayCancel |-> FALSE, root |-> "r",
   kind |-> [r |-> outer, s |-> inner],
   operands |-> [r |-> IF leafFirst THEN <<"c", "s">> ELSE <<"s", "c">>, s |-> <<"a", "b">>],
   above |-> [r |-> {}, s |-> {"r"}, c |-> {"r"}, a |-> {"r", "s"}, b |-> {"r", "s"}],
   may |-> [a |-> All(version), b |-> {"yes", "no"}, c |-> {"yes", "no", "fail"}]]

Flat(version, kind, leaves) ==
  [version |-> version, limit |-> 2, mayCancel |-> TRUE, root |-> "r",
   kind |-> [r |-> kind], operands |-> [r |-> leaves],
   above |-> [n \in {"r"} \cup ToSet(leaves) |-> IF n = "r" THEN {} ELSE {"r"}],
   may |-> [l \in ToSet(leaves) |-> CASE l = "a" -> All(version)
                                      [] l = "b" -> All(version) \ {"slow"}
                                      [] l = "c" -> {"yes", "no"}]]

Kinds == {"union", "intersection", "exclusion"}

ReducerTrees ==
  UNION {{Nested(v, o, i, FALSE) : v \in {1, 2}, i \in Kinds \ {o}} : o \in Kinds}
  \cup {Nested(v, "exclusion", i, TRUE) : v \in {1, 2}, i \in {"union", "intersection"}}
  \cup {Flat(v, k, <<"a", "b", "c">>) : v \in {1, 2}, k \in {"union", "intersection"}}
  \cup {Flat(v, "exclusion", <<"a", "b">>) : v \in {1, 2}} \cup {Flat(2, "exclusion", <<"a">>)}

(* The three reads answer, and the union has its yes before the            *)
(* intersection is through.                                                *)
CancelledTrees ==
  {[Nested(1, "union", "intersection", FALSE) EXCEPT !.may = [l \in {"a", "b", "c"} |-> {"yes", "no"}]]}

(***************************************************************************)
(* Iterators: the stacks the engine builds, over up to three tuples per    *)
(* source.                                                                 *)
(***************************************************************************)
Build == INSTANCE Iterators WITH Stacks <- {}, MaxCalls <- 0, MaxFaults <- 0

T(o, c) == [obj |-> o, cond |-> c, typed |-> TRUE]
Old(o) == [obj |-> o, cond |-> "yes", typed |-> FALSE]

\* Sorted contents of a source: every verdict of a condition, twice the same object.
Sources ==
  { <<>>, <<T(1, "yes")>>, <<T(1, "no"), T(2, "yes")>>, <<T(1, "err"), T(1, "yes")>>,
    <<T(2, "err"), T(3, "err")>>, <<T(1, "yes"), Old(2), T(3, "no")>> }

Sql(s) == Build!NewSQLTupleIterator(s)
Key(i) == Build!NewTupleKeyIterator(i)
ThreeTies == { <<T(1, "yes")>>, <<T(1, "no"), T(2, "yes")>>, <<T(1, "err"), T(1, "yes")>> }

IteratorStacks ==
  \* checkutil.go, graph/check.go: contextual tuples and rows, both filters of Check.
  { Build!NewConditionsFilteredTupleKeyIterator(Build!NewFilteredTupleKeyIterator(Key(
      Build!NewCombinedIterator(<<Build!NewStaticIterator(c), Sql(s)>>)))) : c \in Sources, s \in Sources }
  \cup
  \* combinedtuplereader.go: the sorted reads of the fast paths.
  { Build!NewConditionsFilteredTupleKeyIterator(Key(
      Build!NewOrderedCombinedIterator(<<Build!NewStaticIterator(c), Sql(s)>>))) :
      c \in Sources, s \in Sources }
  \cup { Build!NewOrderedCombinedIterator(<<Build!NewMemoryIterator(c), Build!NewSqliteIterator(s)>>) :
           c \in Sources, s \in Sources }
  \cup { Build!NewFilteredTupleKeyIterator(Key(Build!NewCombinedIterator(
           <<Build!NewMemoryIterator(c), Build!NewErrorIterator>>))) : c \in Sources }
  \cup
  \* internal/check: Concat before rows, Merge in the bottom-up strategy, channels.
  { Build!NewFilteredIterator(Build!NewConcat(Build!NewStaticIterator(c), Key(Sql(s)))) :
      c \in Sources, s \in Sources }
  \cup { Build!NewFilteredIterator(Build!NewMerge(Key(Sql(s)), Build!NewStaticIterator(c), f)) :
           c \in ThreeTies, s \in ThreeTies, f \in {"strict", "threeWay"} }
  \cup { Build!FromChannel(<<Key(Sql(c)), Key(Build!NewMemoryIterator(s))>>, h) :
           c \in ThreeTies, s \in ThreeTies, h \in BOOLEAN }
  \cup { Build!FromChannel(<<Build!NewStaticIterator(c), None, Sql(c)>>, FALSE) : c \in ThreeTies }
  \cup
  \* listobjects/pipeline/store.go: rows behind the validator, or the error of the read.
  { Build!NewValidate(Sql(s)) : s \in Sources } \cup { Build!NewValidate(Build!NewErrorIterator) }

(***************************************************************************)
(* Fast paths: every set operation over small children that end, fail or   *)
(* send errors at different places, against right sides that match early,  *)
(* late or never, and the recursive searches over small graphs.            *)
(***************************************************************************)
Vals(vals) == [vals |-> vals, fail |-> FALSE, rest |-> {}, isErr |-> FALSE]
Fails(vals, rest) == [vals |-> vals, fail |-> TRUE, rest |-> rest, isErr |-> FALSE]
Error(rest) == [vals |-> <<>>, fail |-> FALSE, rest |-> rest, isErr |-> TRUE]

\* The streams a child may be: one iterator, batches, an iterator that fails, an error.
Children == {<<Vals(<<1, 3>>)>>, <<Vals(<<1>>), Vals(<<2>>)>>, <<Vals(<<>>)>>,
             <<Fails(<<1>>, {2})>>, <<Vals(<<2, 3>>)>>}
ErrorChild(ver) == IF ver = 1 THEN <<Error({2}), Vals(<<1>>)>> ELSE <<Vals(<<1>>), Error({2})>>

Weight2(ver, op, ks, r, rightErr, rest) ==
  [ver |-> ver, op |-> op, kids |-> ks, right |-> r, rightErr |-> rightErr, rightRest |-> rest,
   recursive |-> FALSE, graph |-> <<>>, ordered |-> FALSE, deadline |-> rightErr = "forever",
   again |-> "done", openErr |-> FALSE]

Operations ==
  {Weight2(ver, op, <<a, b>>, r, "none", {}) :
     ver \in {1, 2}, op \in {"union", "intersection", "difference"}, a \in Children, b \in Children,
     r \in {<<2>>, <<3, 1>>}}
  \cup {Weight2(ver, op, k, <<2>>, "none", {}) :
          ver \in {1}, op \in {"union", "intersection", "difference"},
          k \in {<<ErrorChild(1), <<Vals(<<1, 3>>)>>>>, <<<<Vals(<<1, 2>>)>>, ErrorChild(1)>>}}
  \cup {Weight2(ver, op, k, <<2>>, "none", {}) :
          ver \in {2}, op \in {"union", "intersection", "difference"},
          k \in {<<ErrorChild(2), <<Vals(<<1, 3>>)>>>>, <<<<Vals(<<1, 2>>)>>, ErrorChild(2)>>}}

Rights ==
  {Weight2(ver, IF ver = 1 THEN "direct" ELSE "union", <<child>>, r, rightErr, rest) :
     ver \in {1, 2}, child \in Children, r \in {<<>>, <<2>>},
     rightErr \in {"once", "forever"}, rest \in {{1}}}
  \cup {[Weight2(1, "direct", <<<<Fails(vals, {2})>>>>, r, "none", {}) EXCEPT
            !.again = again, !.deadline = again = "forever"] :
          vals \in {<<>>, <<1>>}, r \in {<<2>>, <<3, 2>>, <<1, 3>>}, again \in {"rest", "forever"}}
  \cup {Weight2(2, "difference", <<child>>, <<3>>, "none", {}) : child \in Children}
  \cup {Weight2(2, "union", <<<<Vals(<<1, 1>>)>>, <<Vals(<<1, 2>>)>>, <<Vals(<<3>>)>>>>, <<3>>, "none", {})}
  \cup {[Weight2(ver, "union", <<a, b>>, <<1, 2>>, "none", {}) EXCEPT !.deadline = TRUE] :
          ver \in {1, 2}, a \in {<<Vals(<<3>>)>>}, b \in {<<Vals(<<1>>)>>, <<Vals(<<>>)>>}}
  \cup {[Weight2(ver, "difference", <<a, a>>, <<1, 2>>, "none", {}) EXCEPT !.deadline = TRUE] :
          ver \in {1, 2}, a \in {<<Vals(<<1, 2>>)>>}}
  \cup {[Weight2(2, "union", <<a, b>>, r, "none", {}) EXCEPT !.ordered = TRUE] :
          a \in Children, b \in {<<Vals(<<3>>), Vals(<<4>>)>>, <<Vals(<<2>>), Vals(<<5>>)>>},
          r \in {<<4>>, <<1, 5>>, <<2, 3, 4>>}}
  \cup {[Weight2(ver, "union", <<<<Vals(<<1>>)>>>>, <<1>>, "none", {}) EXCEPT !.openErr = TRUE] :
          ver \in {1, 2}}

\* Usersets that point to usersets: a diamond, a cycle, conditions that disagree, a read that
\* fails, a chain as deep as the limit.
To(u, cond) == [to |-> u, cond |-> cond]
Graphs == {(1 :> <<To(2, "yes"), To(3, "yes")>>) @@ (2 :> <<To(4, "yes")>>) @@ (3 :> <<To(4, "yes"), To(1, "yes")>>)
             @@ (4 :> <<To(1, "yes"), To(5, "yes")>>),
           (1 :> <<To(3, "no"), To(2, "yes")>>) @@ (2 :> <<To(3, "yes")>>) @@ (3 :> <<To(5, "yes")>>),
           (1 :> <<To(2, "yes"), To(3, "db")>>) @@ (2 :> <<To(4, "err"), To(1, "yes")>>) @@ (3 :> <<To(5, "yes")>>),
           (1 :> <<To(2, "err")>>) @@ (2 :> <<To(5, "no")>>),
           (1 :> <<To(2, "yes")>>) @@ (2 :> <<To(3, "yes")>>) @@ (3 :> <<To(4, "yes")>>)
             @@ (4 :> <<To(6, "yes")>>) @@ (6 :> <<To(5, "yes")>>)}

Recursions ==
  {[ver |-> ver, op |-> IF ver = 1 THEN "direct" ELSE "union", kids |-> <<child>>, right |-> r,
    rightErr |-> rightErr, rightRest |-> IF rightErr = "none" THEN {} ELSE {4},
    recursive |-> TRUE, graph |-> g, ordered |-> FALSE,
    deadline |-> rightErr = "forever", again |-> "done", openErr |-> FALSE] :
     ver \in {1, 2}, g \in Graphs, r \in {<<1>>, <<1, 2>>}, rightErr \in {"none", "once", "forever"},
     child \in {<<Vals(<<5>>)>>, <<Vals(<<4, 7>>)>>, <<Vals(<<>>)>>, <<Fails(<<7>>, {5})>>, <<Error({1})>>}}
  \cup {[ver |-> ver, op |-> "union", kids |-> <<<<Vals(<<7>>)>>, <<Vals(<<5>>)>>>>, right |-> <<1>>,
         rightErr |-> "none", rightRest |-> {}, recursive |-> TRUE, graph |-> g, ordered |-> FALSE,
         deadline |-> TRUE, again |-> "done", openErr |-> o] : ver \in {1, 2}, g \in Graphs, o \in BOOLEAN}

FastPathLoads == Operations \cup Rights \cup Recursions

(***************************************************************************)
(* Shared iterators: clients of one request and of two, of which one       *)
(* cancels, leaves early or asks for higher consistency, over a datastore  *)
(* that may fail once.                                                     *)
(***************************************************************************)
Plain(r) == [request |-> r, op |-> "Read", higher |-> FALSE, cancels |-> FALSE, leaves |-> FALSE]

Higher(r) == [Plain(r) EXCEPT !.higher = TRUE]
Cancels(r) == [Plain(r) EXCEPT !.cancels = TRUE]
Leaves(r) == [Plain(r) EXCEPT !.leaves = TRUE]

\* A client of another of the three reads.
Over(client, op) == [client EXCEPT !.op = op]

\* Two clients, the failures the datastore may have and the limit of the storage.
Pair(a, b, faulty, lim) ==
  [client |-> (w1 :> a) @@ (w2 :> b), faults |-> faulty, limit |-> lim, writes |-> FALSE]

SharedLoads ==
  {[Pair(Plain(reqA), Higher(reqB), 0, 2) EXCEPT !.writes = TRUE],
   Pair(Over(Plain(reqA), "ReadUsersetTuples"), Over(Cancels(reqA), "ReadUsersetTuples"), 0, 2),
   Pair(Cancels(reqA), Leaves(reqB), 0, 2),
   Pair(Plain(reqA), Plain(reqB), 1, 2),
   Pair(Over(Plain(reqA), "ReadStartingWithUser"), Plain(reqB), 0, 1)}

(***************************************************************************)
(* The parts.                                                              *)
(***************************************************************************)
R == INSTANCE CheckReducers WITH out <- outcomes, got <- received
I == INSTANCE Iterators WITH Stacks <- IteratorStacks, MaxCalls <- 7, MaxFaults <- 1
F == INSTANCE FastPaths WITH Loads <- FastPathLoads, BatchMin <- 1, MaxDepth <- 4,
                             load <- request, ctxDone <- timedOut
S == INSTANCE SharedIterators WITH
       Clients <- {w1, w2}, Loads <- SharedLoads, Rows <- 2, BufferSize <- 1, Concurrency <- 1,
       Threshold <- 1, MaxVersion <- 1, faults <- failures

ASSUME R!ReducersAssumption /\ S!SharedAssumption

\* The parts that rest.
Rest(p) ==
  CASE p = "reducers" -> tree = (CHOOSE t \in Trees : TRUE) /\ does = [l \in DOMAIN tree.may |-> "yes"]
    [] p = "iterators" -> first = CHOOSE s \in IteratorStacks : TRUE
    [] p = "fastPaths" -> request = CHOOSE l \in FastPathLoads : TRUE
    [] p = "shared" -> load = CHOOSE l \in SharedLoads : TRUE

Init ==
  /\ part \in Parts
  /\ IF part = "reducers" THEN TRUE ELSE Rest("reducers")
  /\ IF part = "iterators" THEN TRUE ELSE Rest("iterators")
  /\ IF part = "fastPaths" THEN TRUE ELSE Rest("fastPaths")
  /\ IF part = "shared" THEN TRUE ELSE Rest("shared")
  /\ R!Init /\ I!Init /\ F!Init /\ S!Init

\* What the goroutines of a part do, and what callers, writers and errors may do.
Run ==
  \/ part = "reducers" /\ R!Next /\ UNCHANGED <<part, iteratorVars, fastPathVars, sharedVars>>
  \/ part = "fastPaths" /\ F!Run /\ UNCHANGED <<part, reducerVars, iteratorVars, sharedVars>>
  \/ part = "shared" /\ S!Run /\ UNCHANGED <<part, reducerVars, iteratorVars, fastPathVars>>

Next ==
  \/ Run
  \/ part = "iterators" /\ I!Next /\ UNCHANGED <<part, reducerVars, fastPathVars, sharedVars>>
  \/ part = "fastPaths" /\ F!RightCut /\ UNCHANGED <<part, reducerVars, iteratorVars, sharedVars>>
  \/ part = "shared" /\ S!Outside /\ UNCHANGED <<part, reducerVars, iteratorVars, fastPathVars>>

\* Every step of these parts is progress, so that fairness of all goroutines together is
\* fairness of each of them.
Spec == Init /\ [][Next]_vars /\ WF_vars(Run)

(***************************************************************************)
(* Properties.                                                             *)
(***************************************************************************)
\* The answer the reducers (union, intersection and exclusion of both resolvers) give to a
\* request that was not cancelled is the value of the rewrite whatever the leaves that failed,
\* were too slow or found a cycle would have said, in whichever order outcomes arrive.
AnswerSound == part = "reducers" => R!AnswerSound

\* A reducer, cancelled or not, returns an allowed or denied response only when its operands
\* have that value: an intersection "requires all of the provided CheckHandlerFunc to resolve
\* to an allowed outcome" (graph/check.go).  A relation's response is cached, also when its
\* caller has gone.
ReducerSound == R!ReducerSound

\* Whatever mix of Head and Next a caller makes, a stack of iterators returns its tuples in
\* order, each once, and ends only after the last; it loses no error and makes none up; and
\* Stop, at any moment, leaves no rows open.
IteratorsExact == part = "iterators" => I!NothingMissed /\ I!ErrorsSurface /\ I!StopReleasesRows

\* A fast strategy allows only on a real match and denies only when there is none, whatever
\* the order in which the batches, the tuples and the errors of both sides arrive.
FastPathExact == part = "fastPaths" => F!FastPathExact

\* Every client of a shared iterator gets the rows of one database version, each once and in
\* order, fails only with its own context or the iterator it shares, and is not given rows
\* staler than the admission time or than higher consistency allows.
SharedReadsExact == part = "shared" => S!SharedReadsExact /\ S!StalenessBounded

\* The reference count of a shared iterator is the number of instances not stopped, the rows
\* are open exactly while there is one, and a request stays within its read limiter.
RowsReleased == part = "shared" => S!RowsReleased /\ S!BoundHolds

\* Every request is answered and leaves nothing behind: no running handler of a reducer, no
\* goroutine or undrained batch of a fast path, no open rows, limiter place or stored item of
\* a shared iterator.  A request whose read fails every time it is asked again (weight2) has a
\* deadline, as a server gives it by default, and ends with that.
PartsEnd ==
  <>[](CASE part = "reducers" -> R!Ended
         [] part = "iterators" -> TRUE
         [] part = "fastPaths" -> F!Ended
         [] part = "shared" -> S!Ended)
=============================================================================
