---------------------------- MODULE MCContainers ----------------------------
(***************************************************************************)
(* The two containers of internal/containers, the ring buffer and the      *)
(* accumulator.  One of them is at work in a behaviour, the other rests in *)
(* an initial state.                                                       *)
(***************************************************************************)
EXTENDS Integers, Sequences, FiniteSets, TLC

CONSTANTS s1, s2, r1, r2, c1, g1, Nil, Root, End

VARIABLES
  part,  \* "mpmc" or "mpsc"
  load, seq, val, capacity, extended, done, head, tail, full, empty, pc, pos,
  snap, value, sending, outcome, got, cancelled,
  ahead, atail, next, signal, closed, adone, closing, oldHead, apc, cur,
  asending, aoutcome, agot, acancelled

queueVars == <<load, seq, val, capacity, extended, done, head, tail, full, empty, pc, pos,
               snap, value, sending, outcome, got, cancelled>>
listVars == <<ahead, atail, next, signal, closed, adone, closing, oldHead, apc, cur,
              asending, aoutcome, agot, acancelled>>
vars == <<part, queueVars, listVars>>

Calls(s, t, q, r, c, g) ==
  (s1 :> s) @@ (s2 :> t) @@ (r1 :> q) @@ (r2 :> r) @@ (c1 :> c) @@ (g1 :> g)

Always == 9   \* more calls of Recv than there are items

(* Two receivers and a Close; a buffer that is extended by a full Send and *)
(* by Grow; a buffer that cannot grow and overflows, with a Close and a    *)
(* sender that is cancelled, and without.                                  *)
Workloads ==
  { [extensions |-> 0, calls |-> Calls(1, 1, Always, Always, 1, 0), cancels |-> {}],
    [extensions |-> -1, calls |-> Calls(2, 1, Always, 0, 0, 1), cancels |-> {}],
    [extensions |-> 0, calls |-> Calls(2, 1, Always, 0, 1, 0), cancels |-> {s1}],
    [extensions |-> 0, calls |-> Calls(2, 2, Always, 0, 0, 0), cancels |-> {}] }

Q == INSTANCE MpmcQueue WITH
       Senders <- {s1, s2}, Receivers <- {r1, r2}, Closers <- {c1}, Growers <- {g1},
       Capacity <- 2, GrowTo <- 4, MaxItems <- 2
A == INSTANCE MpscAccumulator WITH
       Producers <- {s1, s2}, NumItems <- 2, Consumer <- r1, Null <- Nil,
       head <- ahead, tail <- atail, done <- adone, pc <- apc, sending <- asending,
       outcome <- aoutcome, got <- agot, cancelled <- acancelled

ASSUME Q!QueueAssumption /\ A!AccumulatorAssumption

Init ==
  /\ part \in {"mpmc", "mpsc"}
  /\ IF part = "mpmc" THEN TRUE ELSE load = CHOOSE w \in Workloads : TRUE
  /\ Q!Init /\ A!Init

\* A step of one of the two, the other at rest.
OfQueue(step) == part = "mpmc" /\ step /\ UNCHANGED <<part, listVars>>
OfList(step) == part = "mpsc" /\ step /\ UNCHANGED <<part, queueVars>>

Next == OfQueue(Q!Next) \/ OfList(A!Next)

\* The fairness of MpmcQueue and of MpscAccumulator.
Spec ==
  /\ Init /\ [][Next]_vars
  /\ WF_vars(OfQueue(Q!SendStep(s1)) \/ OfList(A!Send(s1)))
  /\ WF_vars(OfQueue(Q!SendStep(s2)) \/ OfList(A!Send(s2)))
  /\ WF_vars(OfQueue(Q!RecvStep(r1)) \/ OfList(A!Recv \/ A!TryRecv))
  /\ WF_vars(OfQueue(Q!RecvStep(r2)) \/ OfList(A!Closing))
  /\ SF_vars(OfQueue(Q!SendExtend(s1)))
  /\ SF_vars(OfQueue(Q!SendExtend(s2)))

(***************************************************************************)
(* Properties.                                                             *)
(***************************************************************************)
\* What the container at work stands for.
Abstract == INSTANCE Fifo WITH
  Items <- Q!Items, Readers <- {r1, r2},
  items <- IF part = "mpmc" THEN Q!QueueItems ELSE A!QueueItems,
  taken <- IF part = "mpmc" THEN Q!QueueTaken ELSE (r1 :> agot @@ r2 :> <<>>),
  shut  <- IF part = "mpmc" THEN done ELSE ahead = Nil

(* Both containers are linearizable: whatever the interleaving of senders, *)
(* receivers, extensions and Close, Send and Recv behave as those of a     *)
(* first-in first-out queue that accepts nothing after Close.              *)
Linearizable == Abstract!FifoSpec

(* Send returns true exactly when it handed its item over, once: a caller  *)
(* that gets false still owns the message and releases it, so that an item *)
(* queued all the same, or queued twice, would be released twice.          *)
OwnershipExact == IF part = "mpmc" THEN Q!OwnershipExact ELSE A!OwnershipExact

(* The accumulator's Recv reports the end of the stream only when nothing  *)
(* is left and nothing can follow, also when Close overtakes a producer    *)
(* that has claimed its node and not linked it yet.                        *)
EndIsFinal == part = "mpsc" => A!EndIsFinal

(* No wake-up is lost: as long as receivers keep calling, every Send       *)
(* returns, also when the buffer cannot grow and several senders park on   *)
(* the one-token channel, nobody stays parked while there is an item, and  *)
(* Close ends every call.                                                  *)
CallsReturn == <>[](IF part = "mpmc" THEN Q!Settled ELSE A!Settled)
=============================================================================
