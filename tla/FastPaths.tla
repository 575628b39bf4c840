----------------------------- MODULE FastPaths -----------------------------
(***************************************************************************)
(* The fast strategies of Check: instead of dispatching a sub-request per *)
(* tuple, one goroutine (the node) streams the objects the user reaches,  *)
(* in batches and in ascending order, while the resolver (the consumer)   *)
(* looks for one of them among the usersets the object's tuples point to. *)
(* Version 1 is internal/graph (weight_two_resolver, recursive_resolver   *)
(* and the streams of internal/iterator), version 2 internal/check        *)
(* (bottom_up, weight2, recursive).                                       *)
(*                                                                         *)
(* A node merges the streams of its children with a set operation.  A     *)
(* child sends messages: an iterator over ascending objects that may fail *)
(* after the last of them (fail; rest is what it would have yielded), or  *)
(* an error.  Asked again, an iterator that failed (load.again) is at its *)
(* end ("done": a cached or shared one, which was stopped), runs its query *)
(* once more and gives the rest ("rest"), or fails each time ("forever").  *)
(* Objects are numbers.                                                   *)
(***************************************************************************)
EXTENDS Integers, Sequences, SequencesExt, FiniteSets, FiniteSetsExt

CONSTANTS None,
          Loads,      \* the requests: see Init
          BatchMin,   \* IteratorMinBatchThreshold
          MaxDepth    \* maxResolutionDepth of the version 1 resolver

VARIABLES load,   \* the request, chosen once
          kids,   \* the children's streams: what is buffered and what is still to come
          node,   \* the goroutine of the set operation
          left,   \* the channel from the node to the consumer
          right,  \* the tuples of the object: values still to come, and their error
          cons,   \* the consumer
          rec,    \* the search of a recursive strategy
          ctxDone \* the request's context is cancelled or past its deadline

vars == <<load, kids, node, left, right, cons, rec, ctxDone>>

V1 == load.ver = 1
V2 == load.ver = 2

-----------------------------------------------------------------------------
(* The truth: what the operation stands for, what failures hid included. *)

All(child) == UNION {ToSet(child[i].vals) \cup child[i].rest : i \in DOMAIN child}

Left ==
  LET S == [i \in DOMAIN load.kids |-> All(load.kids[i])] IN
  CASE load.op \in {"direct", "union"} -> UNION {S[i] : i \in DOMAIN S}
    [] load.op = "intersection" -> {x \in S[1] : \A i \in DOMAIN S : x \in S[i]}
    [] load.op = "difference" -> S[1] \ UNION {S[i] : i \in DOMAIN S \ {1}}

\* The usersets reached from a set over tuples whose condition holds (a tuple the database
\* failed to return, "db", counts as one of them).
RECURSIVE Closure(_)
Closure(S) ==
  LET tuples == UNION {ToSet(load.graph[u]) : u \in S \cap DOMAIN load.graph}
      more == S \cup {t.to : t \in {x \in tuples : x.cond \in {"yes", "db"}}}
  IN IF more = S THEN S ELSE Closure(more)

Right == ToSet(load.right) \cup load.rightRest

Truth == Left \cap (IF load.recursive THEN Closure(Right) ELSE Right) # {}

-----------------------------------------------------------------------------
(* Version 1: a Stream is a buffered iterator and the channel it came from. *)

NewStream(child) == [buffer |-> None, source |-> child, sourceIsClosed |-> FALSE]

fetchSource(s) ==
  IF s.buffer # None \/ s.sourceIsClosed THEN [s |-> s, err |-> FALSE]
  ELSE IF s.source = <<>> THEN [s |-> [s EXCEPT !.sourceIsClosed = TRUE], err |-> FALSE]
  ELSE [s |-> [s EXCEPT !.source = Tail(@),
                        !.buffer = IF Head(s.source).isErr THEN None ELSE Head(s.source)],
        err |-> Head(s.source).isErr]

isDone(s) == s.sourceIsClosed /\ s.buffer = None

\* Head of a stream: a value, the end of the buffer (which is dropped), or an error.
HeadState(s) ==
  IF s.buffer = None THEN "done"
  ELSE IF s.buffer.vals # <<>> THEN "ok"
  ELSE IF s.buffer.fail THEN "err" ELSE "done"

StreamHead(s) == Head(s.buffer.vals)

DropBuffer(s) == [s EXCEPT !.buffer = None]

StreamNext(s) == [s EXCEPT !.buffer.vals = Tail(@)]

\* Mutant: the target itself is skipped as well.
MutSkipToTargetObject(s, target) ==
  IF s.buffer = None THEN s
  ELSE LET past == [s EXCEPT !.buffer.vals = SelectSeq(@, LAMBDA v : v > target)] IN
       IF HeadState(past) = "done" THEN DropBuffer(past) ELSE past

\* SkipToTargetObject: to the first value not below the target.
SkipToTargetObject(s, target) ==
  IF s.buffer = None THEN s
  ELSE LET past == [s EXCEPT !.buffer.vals = SelectSeq(@, LAMBDA v : v >= target)] IN
       IF HeadState(past) = "done" THEN DropBuffer(past) ELSE past

\* CleanDone: polls the streams in order, stops at an error, forgets the finished ones.
CleanDone ==
  LET polled == [i \in DOMAIN kids |->
                   IF i \in node.active THEN fetchSource(kids[i]) ELSE [s |-> kids[i], err |-> FALSE]]
      failing == {i \in node.active : polled[i].err}
      upTo == IF failing = {} THEN Len(kids) ELSE Min(failing)
  IN [kids |-> [i \in DOMAIN kids |-> IF i <= upTo THEN polled[i].s ELSE kids[i]],
      err |-> failing # {},
      active |-> {i \in node.active : ~isDone(polled[i].s)}]

\* The scan of the heads: the first stream that has none ends it.
Gaps(ks, active) == {i \in active : HeadState(ks[i]) # "ok"}

FirstGap(ks, active) == Min(Gaps(ks, active))

\* What the node sends: full batches as the loop goes, and at the end what is left.
Batch(vals) == [vals |-> vals, fail |-> FALSE, rest |-> {}, isErr |-> FALSE]
ErrorMsg == [vals |-> <<>>, fail |-> FALSE, rest |-> {}, isErr |-> TRUE]
Flushed(vals) == IF vals = <<>> THEN <<>> ELSE <<Batch(vals)>>

\* The deferred end of a version 1 operation: the error first, then the batch.
EndV1(err) ==
  node' = [node EXCEPT !.pc = "closing", !.batch = <<>>,
                       !.sends = @ \o (IF err THEN <<ErrorMsg>> ELSE <<>>) \o Flushed(node.batch)]

\* addNextItemInSliceStreamsToBatch.
AddV1(ks, streams, active) ==
  LET i == CHOOSE j \in streams : TRUE
      batch == Append(node.batch, StreamHead(ks[i]))
      full == Len(batch) > BatchMin
  IN /\ kids' = [j \in DOMAIN ks |-> IF j \in streams THEN StreamNext(ks[j]) ELSE ks[j]]
     /\ node' = [node EXCEPT !.active = active,
                             !.batch = IF full THEN <<>> ELSE batch,
                             !.sends = IF full THEN <<Batch(batch)>> ELSE <<>>]

Running == node.pc = "loop" /\ node.sends = <<>>

\* The node's context: the consumer cancels it when it returns, except weight2 of version 2,
\* whose own context is made after the node's.
Stopped == ctxDone \/ (cons.pc = "returned" /\ (V1 \/ load.recursive))

\* What every loop of version 1 begins with: cancellation, polling, a head per stream.
\* Go(ks, active) is the rest of the turn, when every active stream has a head.
LoopV1(Go(_, _), short(_)) ==
  LET c == CleanDone
      gap == FirstGap(c.kids, c.active)
      Move(ks) == kids' = ks /\ node' = [node EXCEPT !.active = c.active]
  IN IF Stopped THEN (EndV1(FALSE) \/ EndV1(TRUE)) /\ UNCHANGED kids
     ELSE IF c.err THEN EndV1(TRUE) /\ kids' = c.kids
     ELSE IF short(c.active) THEN node' = [node EXCEPT !.pc = "short", !.active = c.active] /\ kids' = c.kids
     ELSE IF Gaps(c.kids, c.active) = {} THEN Go(c.kids, c.active)
     ELSE IF HeadState(c.kids[gap]) = "err" THEN EndV1(TRUE) /\ kids' = c.kids
     ELSE Move([c.kids EXCEPT ![gap] = DropBuffer(@)])

HeadsOf(ks, active) == {StreamHead(ks[i]) : i \in active}

fastPathUnion ==
  /\ V1 /\ load.op = "union" /\ Running
  /\ LoopV1(LAMBDA ks, active :
              AddV1(ks, {i \in active : StreamHead(ks[i]) = Min(HeadsOf(ks, active))}, active),
            LAMBDA active : active = {})

fastPathIntersection ==
  /\ V1 /\ load.op = "intersection" /\ Running
  /\ LoopV1(LAMBDA ks, active :
              LET top == Max(HeadsOf(ks, active))
                  skipped == [i \in DOMAIN ks |-> SkipToTargetObject(ks[i], top)]
              IN IF HeadsOf(ks, active) = {top} THEN AddV1(ks, active, active)
                 ELSE IF \E i \in active : HeadState(skipped[i]) = "err"
                 THEN EndV1(TRUE) /\ kids' = skipped
                 ELSE kids' = skipped /\ node' = [node EXCEPT !.active = active],
            LAMBDA active : active # DOMAIN kids)

fastPathDifference ==
  /\ V1 /\ load.op = "difference" /\ Running
  /\ LoopV1(LAMBDA ks, active :
              LET base == StreamHead(ks[1])
                  diff == StreamHead(ks[2])
                  skipped == SkipToTargetObject(ks[2], base)
              IN IF base = diff
                 THEN kids' = [i \in DOMAIN ks |-> StreamNext(ks[i])] /\ UNCHANGED node
                 ELSE IF diff > base THEN AddV1(ks, {1}, active)
                 ELSE IF HeadState(skipped) = "err" THEN EndV1(TRUE) /\ kids' = ks
                 ELSE kids' = [ks EXCEPT ![2] = skipped] /\ UNCHANGED node,
            LAMBDA active : active # DOMAIN kids)

\* A loop that ran out of streams: an operation is over, but a difference drains its base.
AfterLoop ==
  /\ V1 /\ node.pc = "short" /\ node.sends = <<>>
  /\ IF load.op # "difference" \/ 1 \notin node.active \/ Stopped
     THEN EndV1(FALSE) /\ UNCHANGED kids
     ELSE LET c == CleanDone
              b == c.kids[1]
              batch == node.batch \o b.buffer.vals
              full == Len(batch) > BatchMin
          IN /\ kids' = IF c.err \/ b.buffer = None THEN c.kids ELSE [c.kids EXCEPT ![1] = DropBuffer(b)]
             /\ IF c.err THEN EndV1(TRUE)
                ELSE IF b.buffer = None THEN EndV1(FALSE)
                ELSE IF b.buffer.fail THEN EndV1(TRUE)
                ELSE node' = [node EXCEPT !.batch = IF full THEN <<>> ELSE batch,
                                          !.sends = IF full THEN <<Batch(batch)>> ELSE <<>>,
                                          !.active = {1}]

-----------------------------------------------------------------------------
(* Version 2: a child is a channelIterator (see Iterators); heads holds the *)
(* value taken from each child, None for a child that is finished.          *)

RECURSIVE ChannelNext(_)
ChannelNext(s) ==
  IF s.buffer = None
  THEN IF s.source = <<>> THEN [s |-> s, val |-> None, err |-> "done"]
       ELSE IF Head(s.source).isErr
       THEN [s |-> [s EXCEPT !.source = Tail(@)], val |-> None, err |-> "err"]
       ELSE ChannelNext([s EXCEPT !.source = Tail(@), !.buffer = Head(s.source)])
  ELSE CASE HeadState(s) = "ok" -> [s |-> StreamNext(s), val |-> StreamHead(s), err |-> "ok"]
         [] HeadState(s) = "err" -> [s |-> [s EXCEPT !.buffer.fail = FALSE], val |-> None, err |-> "err"]
         [] HeadState(s) = "done" -> ChannelNext(DropBuffer(s))

\* skipTo: values are taken until one is not below the target.
RECURSIVE skipTo(_, _)
skipTo(s, target) ==
  LET r == ChannelNext(s) IN
  IF r.err # "ok" \/ r.val >= target THEN r ELSE skipTo(r.s, target)

\* batcher.add, and the close of a batcher: the batch first, then the error.
Added(v) == Append(node.batch, v)

Add(v) == [node EXCEPT !.batch = IF Len(Added(v)) >= BatchMin THEN <<>> ELSE Added(v),
                       !.sends = IF Len(Added(v)) >= BatchMin THEN <<Batch(Added(v))>> ELSE <<>>]

Close(n, err) ==
  [n EXCEPT !.pc = "closing", !.batch = <<>>,
            !.sends = @ \o Flushed(n.batch) \o (IF err THEN <<ErrorMsg>> ELSE <<>>)]

\* The first value of every child; a child that has none is out of the operation.
TakeHeads ==
  LET r == [i \in DOMAIN kids |-> ChannelNext(kids[i])] IN
  [kids |-> [i \in DOMAIN kids |-> r[i].s],
   heads |-> [i \in DOMAIN kids |-> r[i].val],
   errs |-> {i \in DOMAIN kids : r[i].err = "err"},
   gone |-> {i \in DOMAIN kids : r[i].err # "ok"}]

Fresh == node.heads = None

Start(n) == /\ kids' = TakeHeads.kids
            /\ node' = n

\* resolveUnion: the least head is sent and advanced, and so is every head the scan finds
\* equal to the least before it.  An error of a child is remembered and sent last.
resolveUnion ==
  /\ V2 /\ load.op = "union" /\ Running
  /\ IF Stopped THEN node' = Close(node, FALSE) /\ UNCHANGED kids
     ELSE IF Fresh
     THEN Start([node EXCEPT !.heads = TakeHeads.heads, !.err = TakeHeads.errs # {}])
     ELSE LET live == {i \in DOMAIN kids : node.heads[i] # None}
              least == Min({node.heads[i] : i \in live})
              earlier(i) == {node.heads[j] : j \in {x \in live : x < i}}
              same == {Min({i \in live : node.heads[i] = least})}
                        \cup {i \in live : earlier(i) # {} /\ node.heads[i] = Min(earlier(i))}
              r == [i \in DOMAIN kids |-> IF i \in same THEN ChannelNext(kids[i])
                                          ELSE [s |-> kids[i], val |-> node.heads[i], err |-> "ok"]]
          IN IF live = {} THEN node' = Close(node, node.err) /\ UNCHANGED kids
             ELSE /\ kids' = [i \in DOMAIN kids |-> r[i].s]
                  /\ node' = [Add(least) EXCEPT !.heads = [i \in DOMAIN kids |-> r[i].val],
                                                !.err = @ \/ \E i \in same : r[i].err = "err"]

\* resolveIntersection: all heads equal, or those below the greatest skip to it; the first
\* child, in order, that ends or fails ends the operation.
FirstOf(S, r) == LET i == Min(S) IN r[i].err = "err"

resolveIntersection ==
  /\ V2 /\ load.op = "intersection" /\ Running
  /\ IF Stopped THEN node' = Close(node, FALSE) /\ UNCHANGED kids
     ELSE IF Fresh
     THEN Start(IF TakeHeads.gone = {} THEN [node EXCEPT !.heads = TakeHeads.heads]
                ELSE Close(node, Min(TakeHeads.gone) \in TakeHeads.errs))
     ELSE LET top == Max({node.heads[i] : i \in DOMAIN kids})
              same == \A i \in DOMAIN kids : node.heads[i] = top
              r == [i \in DOMAIN kids |->
                      IF same THEN ChannelNext(kids[i])
                      ELSE IF node.heads[i] < top THEN skipTo(kids[i], top)
                      ELSE [s |-> kids[i], val |-> top, err |-> "ok"]]
              n == IF same THEN Add(top) ELSE node
              ends == {i \in DOMAIN kids : r[i].err # "ok"}
          IN /\ kids' = [i \in DOMAIN kids |-> r[i].s]
             /\ node' = IF ends # {} THEN Close(n, FirstOf(ends, r))
                        ELSE [n EXCEPT !.heads = [i \in DOMAIN kids |-> r[i].val]]

\* resolveDifference, until the subtracted side is finished; then the base is drained.
resolveDifference ==
  /\ V2 /\ load.op = "difference" /\ Running /\ ~node.draining
  /\ LET t == TakeHeads
         base == node.heads[1]
         diff == node.heads[2]
         nextBase == ChannelNext(kids[1])
         nextDiff == IF base = diff THEN ChannelNext(kids[2]) ELSE skipTo(kids[2], base)
         \* The subtracted side has answered d with n the node after it.
         Diff(n, d) == IF d.err = "err" THEN Close(n, TRUE)
                       ELSE IF d.err = "done" THEN [n EXCEPT !.draining = TRUE]
                       ELSE [n EXCEPT !.heads[2] = d.val]
     IN IF Stopped THEN node' = Close(node, FALSE) /\ UNCHANGED kids
        ELSE IF Fresh
        THEN Start(IF 1 \in t.gone THEN Close(node, 1 \in t.errs)
                   ELSE IF t.errs # {} THEN Close(node, TRUE)
                   ELSE [node EXCEPT !.heads = t.heads, !.draining = t.gone # {} \/ Len(kids) = 1])
        ELSE IF base = diff
        THEN IF nextBase.err # "ok"
             THEN /\ kids' = [kids EXCEPT ![1] = nextBase.s]
                  /\ node' = Close(node, nextBase.err = "err")
             ELSE /\ kids' = [kids EXCEPT ![1] = nextBase.s, ![2] = nextDiff.s]
                  /\ node' = Diff([node EXCEPT !.heads[1] = nextBase.val], nextDiff)
        ELSE IF diff > base
        THEN /\ kids' = [kids EXCEPT ![1] = nextBase.s]
             /\ node' = IF nextBase.err # "ok" THEN Close(Add(base), nextBase.err = "err")
                        ELSE [Add(base) EXCEPT !.heads[1] = nextBase.val]
        ELSE /\ kids' = [kids EXCEPT ![2] = nextDiff.s]
             /\ node' = Diff(node, nextDiff)

drainBase ==
  /\ V2 /\ Running /\ node.draining
  /\ LET r == ChannelNext(kids[1]) IN
     IF Stopped THEN node' = Close(node, FALSE) /\ UNCHANGED kids
     ELSE /\ kids' = [kids EXCEPT ![1] = r.s]
          /\ node' = IF r.err # "ok" THEN Close(Add(node.heads[1]), r.err = "err")
                     ELSE [Add(node.heads[1]) EXCEPT !.heads[1] = r.val]

-----------------------------------------------------------------------------
(* The channel between them holds one message per child.                   *)

fastPathRewrite == fastPathUnion \/ fastPathIntersection \/ fastPathDifference \/ AfterLoop

resolveRewrite == resolveUnion \/ resolveIntersection \/ resolveDifference \/ drainBase

Operate ==
  /\ fastPathRewrite \/ resolveRewrite
  /\ UNCHANGED <<load, left, right, cons, rec, ctxDone>>

\* TrySendThroughChannel: a message goes out when there is room; after a cancellation it
\* may as well be dropped.
Send ==
  /\ node.sends # <<>>
  /\ \/ Len(left.msgs) < Len(load.kids) /\ left' = [left EXCEPT !.msgs = Append(@, Head(node.sends))]
     \/ Stopped /\ UNCHANGED left
  /\ node' = [node EXCEPT !.sends = Tail(@)]
  /\ UNCHANGED <<load, kids, right, cons, rec, ctxDone>>

CloseOut ==
  /\ node.pc = "closing" /\ node.sends = <<>>
  /\ node' = [node EXCEPT !.pc = "closed"]
  /\ left' = [left EXCEPT !.closed = TRUE]
  /\ UNCHANGED <<load, kids, right, cons, rec, ctxDone>>

\* Mutant: the channel is drained once it is closed, while its sender waits for room.
MutDrain ==
  /\ cons.pc = "returned" /\ left.closed /\ left.msgs # <<>>
  /\ left' = [left EXCEPT !.msgs = Tail(@)]
  /\ UNCHANGED <<load, kids, node, right, cons, rec, ctxDone>>

\* Drain: what the consumer leaves in the channel is taken out and stopped.
Drain ==
  /\ cons.pc = "returned" /\ left.msgs # <<>>
  /\ left' = [left EXCEPT !.msgs = Tail(@)]
  /\ UNCHANGED <<load, kids, node, right, cons, rec, ctxDone>>

-----------------------------------------------------------------------------
(* The consumers: weight2 of both versions and the bootstrap of the        *)
(* recursive strategies, which look for a value that comes from both sides. *)

Return(c, res) == cons' = [c EXCEPT !.pc = "returned", !.res = res]

Denied(c) == IF c.err THEN "error" ELSE "denied"

\* fastPathDirect: one iterator, and no node.
fastPathDirect == [msgs |-> load.kids[1], closed |-> TRUE]

\* produceLeftChannels / resolveRewrite: the node starts, or its children cannot be read.
produceLeftChannels ==
  /\ cons.pc = "start"
  /\ IF load.openErr THEN Return(cons, "error") /\ UNCHANGED <<node, left>>
     ELSE /\ cons' = [cons EXCEPT !.pc = IF V1 /\ ~load.recursive THEN "first" ELSE "loop"]
          /\ node' = [node EXCEPT !.pc = IF load.op = "direct" THEN "closed" ELSE "loop"]
          /\ left' = IF load.op = "direct" THEN fastPathDirect ELSE left
  /\ UNCHANGED <<load, kids, right, rec, ctxDone>>

\* What the tuples of the object give next: a value, an error or the end.  Version 1 stops at
\* an error; ToChannel of version 2 asks the iterator again.
RightMsg == IF right.vals # <<>> THEN "value" ELSE IF right.err # "none" THEN "err" ELSE "closed"

AfterRight ==
  CASE RightMsg = "value" -> [right EXCEPT !.vals = Tail(@)]
    [] RightMsg = "err" -> [right EXCEPT !.err = IF V2 /\ @ = "forever" THEN @ ELSE "none"]
    [] RightMsg = "closed" -> right

\* Version 1 looks at the first tuple before anything else.
FirstRight ==
  /\ cons.pc = "first"
  /\ right' = AfterRight
  /\ IF RightMsg # "value" THEN Return(cons, IF RightMsg = "err" \/ ctxDone THEN "error" ELSE "denied")
     ELSE cons' = [cons EXCEPT !.pc = IF load.recursive THEN "start" ELSE "loop",
                               !.rightSeen = {Head(right.vals)}]
  /\ UNCHANGED <<load, kids, node, left, rec, ctxDone>>

\* The values of one message, in order: the first that the other side has seen is a match.
\* Version 2 with an ordered right side does not keep what can no longer match.
TakeLeft(c, vals) ==
  FoldLeft(LAMBDA a, v : IF a.found \/ v \in a.c.rightSeen THEN [a EXCEPT !.found = TRUE]
                         ELSE IF load.ordered /\ a.c.lastLeft # 0 /\ a.c.lastRight # 0 /\ v <= a.c.lastRight
                         THEN a
                         ELSE [a EXCEPT !.c.leftSeen = @ \cup {v}, !.c.lastLeft = v],
           [c |-> c, found |-> FALSE], vals)

TakeRight(c, v) ==
  IF v \in c.leftSeen THEN [c |-> c, found |-> TRUE]
  ELSE IF load.ordered /\ c.lastLeft # 0 /\ c.lastRight # 0 /\ v <= c.lastLeft
  THEN [c |-> c, found |-> FALSE]
  ELSE [c |-> [c EXCEPT !.rightSeen = @ \cup {v}, !.lastRight = v], found |-> FALSE]

\* A message of the left side, of which took is what its values came to.
\* weight2 of version 1 gives up at an error message; the failure of an iterator is remembered,
\* and the same iterator asked again.
weight2(msg, took) ==
  IF msg.isErr THEN Return(cons, "error")
  ELSE IF took.found THEN Return(took.c, "allowed")
  ELSE IF msg.fail /\ ~ctxDone THEN cons' = [took.c EXCEPT !.err = TRUE, !.pc = "asking", !.rest = msg.rest]
  ELSE cons' = took.c

\* The inner loop of weight2 after a failure: it is left at the end of the iterator, with a
\* match, or when the context is done, and goes round as long as the iterator fails.
AskAgain ==
  /\ cons.pc = "asking"
  /\ LET took == TakeLeft([cons EXCEPT !.pc = "loop", !.rest = {}],
                          IF load.again = "rest" /\ ~ctxDone THEN SetToSortSeq(cons.rest, <) ELSE <<>>)
     IN /\ load.again # "forever" \/ ctxDone
        /\ IF took.found THEN Return(took.c, "allowed") ELSE cons' = took.c
  /\ UNCHANGED <<load, kids, node, left, right, rec, ctxDone>>

\* Weight2.execute of version 2 remembers both; its left side always comes from a node, whose
\* batches do not fail.
execute(msg, took) ==
  IF took.found THEN Return(took.c, "allowed")
  ELSE cons' = [took.c EXCEPT !.err = @ \/ msg.isErr \/ msg.fail]

\* The recursive strategy of version 1 gives up at either.
iteratorsToUserset(msg, took) ==
  IF took.found THEN Return(took.c, "allowed")
  ELSE IF msg.isErr \/ msg.fail THEN Return(took.c, "error")
  ELSE cons' = took.c

\* Recursive.execute gives up at an error message with nothing before it.
executeRecursive(msg, took) ==
  IF msg.isErr /\ cons.leftSeen = {} THEN Return(cons, "error") ELSE execute(msg, took)

\* The left side is finished: without a value of it there is no match.
LeftClosed ==
  LET c == [cons EXCEPT !.leftOpen = FALSE] IN
  IF cons.leftSeen # {} THEN cons' = c
  ELSE Return(c, IF ctxDone THEN "error" ELSE Denied(c))

RecvLeft ==
  /\ cons.pc = "loop" /\ cons.leftOpen
  /\ V1 \/ ~ctxDone
  /\ IF left.msgs = <<>> THEN left.closed /\ LeftClosed /\ UNCHANGED left
     ELSE LET msg == Head(left.msgs)
              took == TakeLeft(cons, IF ctxDone THEN <<>> ELSE msg.vals)
          IN /\ left' = [left EXCEPT !.msgs = Tail(@)]
             /\ CASE V1 /\ ~load.recursive -> weight2(msg, took)
                  [] V2 /\ ~load.recursive -> execute(msg, took)
                  [] V1 /\ load.recursive -> iteratorsToUserset(msg, took)
                  [] V2 /\ load.recursive -> executeRecursive(msg, took)
  /\ UNCHANGED <<load, kids, node, right, rec, ctxDone>>

RecvRight ==
  /\ cons.pc = "loop" /\ cons.rightOpen
  /\ V1 \/ ~ctxDone
  /\ right' = AfterRight
  /\ CASE RightMsg = "closed" ->
            LET c == [cons EXCEPT !.rightOpen = FALSE] IN
            IF V2 /\ cons.rightSeen = {} THEN Return(c, Denied(c)) ELSE cons' = c
       [] RightMsg = "err" ->
            IF V1 /\ load.recursive THEN Return(cons, "error") ELSE cons' = [cons EXCEPT !.err = TRUE]
       [] RightMsg = "value" ->
            LET took == TakeRight(cons, Head(right.vals)) IN
            IF took.found THEN Return(took.c, "allowed") ELSE cons' = took.c
  /\ UNCHANGED <<load, kids, node, left, rec, ctxDone>>

\* Both sides are finished: weight2 has its answer, a recursive strategy starts its search.
BothDone ==
  /\ cons.pc = "loop" /\ ~cons.leftOpen /\ ~cons.rightOpen
  /\ IF ~load.recursive THEN Return(cons, Denied(cons)) /\ UNCHANGED rec
     ELSE /\ cons' = [cons EXCEPT !.pc = "match"]
          /\ rec' = [rec EXCEPT !.todo = cons.rightSeen,
                                !.visited = IF V2 THEN cons.rightSeen ELSE {},
                                !.pc = IF V2 THEN "scan" ELSE "level"]
  /\ UNCHANGED <<load, kids, node, left, right, ctxDone>>

\* The request's context is done: the consumer may notice at any of its waits.
CtxReturn ==
  /\ ctxDone /\ cons.pc \in {"first", "loop", "match"}
  /\ Return(cons, "error")
  /\ UNCHANGED <<load, kids, node, left, right, rec, ctxDone>>

\* With its context done the tuples' iterator is at its end.
RightCut ==
  /\ ctxDone /\ RightMsg # "closed"
  /\ right' = [vals |-> <<>>, err |-> "none"]
  /\ UNCHANGED <<load, kids, node, left, cons, rec, ctxDone>>

-----------------------------------------------------------------------------
(* The search of the recursive strategies, once neither side has a match. *)

\* One tuple of a userset, in a with what its iterator gave so far.
MapTuple(a, t) ==
  CASE t.cond = "db" -> [a EXCEPT !.err = TRUE]
    [] t.cond = "no" -> a
    [] t.cond = "err" -> [a EXCEPT !.condErr = TRUE]
    [] t.cond = "yes" -> [a EXCEPT !.found = t.to \in cons.leftSeen, !.next = @ \cup {t.to}]

\* buildRecursiveMapper of version 1 filters on the condition.
buildRecursiveMapper(a, t) == IF a.found \/ a.err THEN a ELSE MapTuple(a, t)

\* buildTupleMapperForID of version 2 first drops the usersets visited and marks the others,
\* whatever their condition says.
buildTupleMapperForID(a, t) ==
  IF a.found \/ a.err \/ (t.cond # "db" /\ t.to \in a.visited) THEN a
  ELSE MapTuple(IF t.cond = "db" THEN a ELSE [a EXCEPT !.visited = @ \cup {t.to}], t)

\* The usersets of u; an error of a condition counts when no tuple is valid.
Lookup(u, visited) ==
  LET none == [found |-> FALSE, err |-> FALSE, condErr |-> FALSE, next |-> {}, visited |-> visited]
      tuples == IF u \in DOMAIN load.graph THEN load.graph[u] ELSE <<>>
      r == IF V1 THEN FoldLeft(buildRecursiveMapper, none, tuples)
           ELSE FoldLeft(buildTupleMapperForID, none, tuples)
  IN [r EXCEPT !.err = @ \/ (r.condErr /\ r.next = {})]

\* breadthFirstRecursiveMatch: a level begins, unless it is too deep or empty.
BeginLevel ==
  /\ V1 /\ cons.pc = "match" /\ rec.pc = "level"
  /\ LET depth == rec.depth + 1 IN
     rec' = IF depth = MaxDepth THEN [rec EXCEPT !.pc = "closed", !.err = TRUE]
            ELSE IF rec.todo = {} \/ ctxDone THEN [rec EXCEPT !.pc = "closed"]
            ELSE [rec EXCEPT !.pc = "scan", !.depth = depth, !.todo = @ \ rec.visited,
                             !.visited = @ \cup rec.todo, !.next = {}]
  /\ UNCHANGED <<load, kids, node, left, right, cons, ctxDone>>

\* A task of the level's pool, and the end of the level.
breadthFirstRecursiveMatch ==
  /\ V1 /\ cons.pc = "match" /\ rec.pc = "scan"
  /\ IF rec.todo = {} THEN rec' = [rec EXCEPT !.pc = "level", !.todo = rec.next]
     ELSE \E u \in rec.todo :
            LET r == Lookup(u, {}) IN
            rec' = [rec EXCEPT !.todo = @ \ {u}, !.next = @ \cup r.next,
                               !.err = @ \/ r.err, !.found = r.found,
                               !.pc = IF r.found THEN "closed" ELSE @]
  /\ UNCHANGED <<load, kids, node, left, right, cons, ctxDone>>

\* recursiveMatchResolver: a worker takes an object, and hands on the ones it finds.
recursiveMatchResolver ==
  /\ V2 /\ cons.pc = "match" /\ rec.pc = "scan"
  /\ IF rec.todo = {} THEN rec' = [rec EXCEPT !.pc = "closed"]
     ELSE \E u \in rec.todo :
            LET r == Lookup(u, rec.visited) IN
            rec' = [rec EXCEPT !.todo = (@ \ {u}) \cup r.next, !.visited = r.visited,
                               !.err = @ \/ r.err, !.found = r.found,
                               !.pc = IF r.found THEN "closed" ELSE @]
  /\ UNCHANGED <<load, kids, node, left, right, cons, ctxDone>>

\* The answer of a search: a match outlives the errors before it.
recursiveMatchUserUserset ==
  /\ V1 /\ cons.pc = "match" /\ rec.pc = "closed"
  /\ Return(cons, IF ctxDone \/ (rec.err /\ ~rec.found) THEN "error"
                  ELSE IF rec.found THEN "allowed" ELSE "denied")
  /\ UNCHANGED <<load, kids, node, left, right, rec, ctxDone>>

\* Version 2 also reports the errors of its bootstrap.
recursiveMatch ==
  /\ V2 /\ cons.pc = "match" /\ rec.pc = "closed"
  /\ Return(cons, IF ctxDone THEN "error" ELSE IF rec.found THEN "allowed"
                  ELSE IF rec.err \/ cons.err THEN "error" ELSE "denied")
  /\ UNCHANGED <<load, kids, node, left, right, rec, ctxDone>>

Cancel ==
  /\ load.deadline /\ ~ctxDone /\ cons.pc # "returned"
  /\ ctxDone' = TRUE
  /\ UNCHANGED <<load, kids, node, left, right, cons, rec>>

-----------------------------------------------------------------------------
Init ==
  /\ load \in Loads
  /\ kids = [i \in DOMAIN load.kids |-> NewStream(load.kids[i])]
  /\ node = [pc |-> "idle", active |-> DOMAIN load.kids, batch |-> <<>>, sends |-> <<>>,
             heads |-> None, draining |-> FALSE, err |-> FALSE]
  /\ left = [msgs |-> <<>>, closed |-> FALSE]
  /\ right = [vals |-> load.right, err |-> load.rightErr]
  /\ cons = [pc |-> IF V1 /\ load.recursive THEN "first" ELSE "start", leftOpen |-> TRUE,
             rightOpen |-> TRUE, leftSeen |-> {}, rightSeen |-> {}, lastLeft |-> 0, lastRight |-> 0,
             rest |-> {}, err |-> FALSE, res |-> "none"]
  /\ rec = [pc |-> "idle", depth |-> 0, todo |-> {}, next |-> {}, visited |-> {},
            found |-> FALSE, err |-> FALSE]
  /\ ctxDone = FALSE

Produce == Operate \/ Send \/ CloseOut
Consume == produceLeftChannels \/ FirstRight \/ AskAgain \/ BothDone \/ CtxReturn \/ BeginLevel
             \/ breadthFirstRecursiveMatch \/ recursiveMatchResolver
             \/ recursiveMatchUserUserset \/ recursiveMatch

Run == Produce \/ Drain \/ Consume \/ RecvLeft \/ RecvRight \/ Cancel
Next == Run \/ RightCut

Spec == Init /\ [][Next]_vars

\* Goroutines are scheduled and a deadline passes; every step is progress of one of them.  A
\* load whose reads fail forever has a deadline: nothing else ends such a request.
FairSpec == Spec /\ WF_vars(Run)

-----------------------------------------------------------------------------
(* Properties *)

\* The tuples to a userset disagree: one has a condition that holds, another has not.
Shadowed ==
  LET tuples == UNION {ToSet(load.graph[u]) : u \in DOMAIN load.graph} IN
  \E s, t \in tuples : s.to = t.to /\ s.cond = "yes" /\ t.cond \in {"no", "err"}

\* A fast strategy (weight2, recursiveFastPath, Recursive.execute) answers what the tuples say,
\* whatever the order in which the batches, the tuples and the errors of both sides arrive: it
\* allows only on a real match and denies only when there is none, what a failed read hid
\* included, unless the context was cancelled.  recursiveMatchResolver marks a userset as
\* visited before it looks at the condition, so where tuples to it disagree version 2 may deny.
FastPathExact ==
  /\ cons.res = "allowed" => Truth
  /\ cons.res = "denied" => ctxDone \/ ~Truth \/ (V2 /\ load.recursive /\ Shadowed)

\* The request is answered, the goroutine of the set operation has ended, and what it sent and
\* nobody took is drained, so that no iterator stays open.
Ended == cons.pc = "returned" /\ node.pc \in {"idle", "closed"} /\ left.msgs = <<>>
=============================================================================
