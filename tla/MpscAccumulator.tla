-------------------------- MODULE MpscAccumulator --------------------------
(***************************************************************************)
(* internal/containers/mpsc/accumulator.go: a linked list that producers   *)
(* extend with a compare-and-swap on its head, followed by a separate      *)
(* store that links the new node, and that one consumer walks from the     *)
(* tail. Every atomic operation is a step. A node is named after the value *)
(* it carries; Root is the node NewAccumulator allocates, End the sentinel *)
(* Close inserts.                                                          *)
(***************************************************************************)
EXTENDS Integers, Sequences, FiniteSets

CONSTANTS
  Producers,     \* goroutines that call Send
  NumItems,      \* bound: values each producer sends
  Consumer,      \* the goroutine that calls Recv and TryRecv
  Root, End, Null

Items == Producers \X (1..NumItems)
Nodes == Items \cup {Root, End}

AccumulatorAssumption ==
  /\ IsFiniteSet(Producers) /\ NumItems \in Nat \ {0}
  /\ Root \notin Items \cup {End, Null} /\ End \notin Items \cup {Null}
  /\ Null \notin Items /\ Consumer \notin Producers

VARIABLES
  head, tail, next,
  signal,     \* the signal channel holds its token
  closed,     \* the closed flag
  done,       \* the done channel is closed
  closing,    \* where the goroutine that calls Close is
  oldHead,    \* the head Close swapped out
  pc,         \* producers and the consumer
  cur,        \* the head a producer loaded
  sending,    \* index of the value a producer is sending
  outcome,    \* results of the calls to Send, in order
  got,        \* values the consumer received, in order
  cancelled

list == <<head, tail, next>>
shutdown == <<closed, done, closing, oldHead>>
log == <<sending, outcome, got>>
vars == <<head, tail, next, signal, closed, done, closing, oldHead, pc, cur, sending,
          outcome, got, cancelled>>

Item(s) == <<s, sending[s]>>

Goto(t, from, to) ==
  /\ pc[t] = from
  /\ pc' = [pc EXCEPT ![t] = to]

Init ==
  /\ head = Root /\ tail = Root
  /\ next = [n \in Nodes |-> Null]
  /\ signal = FALSE /\ closed = FALSE /\ done = FALSE
  /\ closing = "open" /\ oldHead = Null
  /\ pc = [t \in Producers \cup {Consumer} |-> IF t = Consumer THEN "cIdle" ELSE "sLoad"]
  /\ cur = [s \in Producers |-> Null]
  /\ sending = [s \in Producers |-> 1]
  /\ outcome = [s \in Producers |-> <<>>]
  /\ got = <<>>
  /\ cancelled = FALSE

-----------------------------------------------------------------------------
(* Send. A producer that got false gives up.                               *)

Return(s, ok) ==
  /\ outcome' = [outcome EXCEPT ![s] = Append(@, ok)]
  /\ sending' = [sending EXCEPT ![s] = @ + 1]
  /\ UNCHANGED got

AfterSend(s, ok) == IF ok /\ sending[s] < NumItems THEN "sLoad" ELSE "sEnd"

(* Mutant: the head is stored, not compared and swapped. *)
SendCasBlind(s) ==
  /\ Goto(s, "sCas", "sLink") /\ head' = Item(s)
  /\ UNCHANGED <<tail, next, signal, shutdown, cur, log, cancelled>>

SendLoad(s) ==
  /\ \/ /\ head = Null
        /\ Goto(s, "sLoad", "sEnd")
        /\ Return(s, FALSE)
     \/ /\ head # Null
        /\ Goto(s, "sLoad", "sCas")
        /\ UNCHANGED log
  /\ cur' = [cur EXCEPT ![s] = head]
  /\ UNCHANGED <<list, signal, shutdown, cancelled>>

(* Mutant: the node is linked behind the tail instead of the old head. *)
SendLinkTail(s) ==
  /\ Goto(s, "sLink", "sSignal")
  /\ next' = [next EXCEPT ![tail] = Item(s)]
  /\ UNCHANGED <<head, tail, signal, shutdown, cur, log, cancelled>>

SendCas(s) ==
  /\ \/ head = cur[s] /\ Goto(s, "sCas", "sLink") /\ head' = Item(s)
     \/ head # cur[s] /\ Goto(s, "sCas", "sLoad") /\ UNCHANGED head
  /\ UNCHANGED <<tail, next, signal, shutdown, cur, log, cancelled>>

SendLink(s) ==
  /\ Goto(s, "sLink", "sSignal")
  /\ next' = [next EXCEPT ![cur[s]] = Item(s)]
  /\ UNCHANGED <<head, tail, signal, shutdown, cur, log, cancelled>>

(* Mutant: Send only signals a consumer that is already waiting. *)
SendSignalUnbuffered(s) ==
  /\ pc[s] = "sSignal"
  /\ pc' = [pc EXCEPT ![s] = AfterSend(s, TRUE),
                      ![Consumer] = IF @ = "cWait" THEN "cRecv" ELSE @]
  /\ Return(s, TRUE)
  /\ UNCHANGED <<list, signal, shutdown, cur, cancelled>>

(* The non-blocking send on signal: a waiting consumer gets the token at   *)
(* once, otherwise it stays in the channel.                                *)
SendSignal(s) ==
  /\ pc[s] = "sSignal"
  /\ \/ /\ pc[Consumer] = "cWait"
        /\ pc' = [pc EXCEPT ![s] = AfterSend(s, TRUE), ![Consumer] = "cRecv"]
        /\ UNCHANGED signal
     \/ /\ pc[Consumer] # "cWait"
        /\ pc' = [pc EXCEPT ![s] = AfterSend(s, TRUE)]
        /\ signal' = TRUE
  /\ Return(s, TRUE)
  /\ UNCHANGED <<list, shutdown, cur, cancelled>>

Send(s) == SendLoad(s) \/ SendCas(s) \/ SendLink(s) \/ SendSignal(s)

-----------------------------------------------------------------------------
(* Close: the flag, the swap of the head, the sentinel, the done channel.  *)
(* It may run while producers are still sending.                           *)

CloseStep(from, to) == closing = from /\ closing' = to

(* Mutant: Close reads the head and leaves it in place. *)
CloseSwapNot ==
  /\ CloseStep("swap", "link")
  /\ oldHead' = head
  /\ UNCHANGED <<list, signal, closed, done, pc, cur, log, cancelled>>

CloseFlag ==
  /\ CloseStep("open", "swap") /\ ~closed
  /\ closed' = TRUE
  /\ UNCHANGED <<list, signal, done, oldHead, pc, cur, log, cancelled>>

CloseSwap ==
  /\ CloseStep("swap", "link")
  /\ oldHead' = head
  /\ head' = Null
  /\ UNCHANGED <<tail, next, signal, closed, done, pc, cur, log, cancelled>>

CloseLink ==
  /\ CloseStep("link", "finish")
  /\ next' = [next EXCEPT ![oldHead] = End]
  /\ UNCHANGED <<head, tail, signal, closed, done, oldHead, pc, cur, log, cancelled>>

CloseDone ==
  /\ CloseStep("finish", "end")
  /\ done' = TRUE
  /\ UNCHANGED <<list, signal, closed, oldHead, pc, cur, log, cancelled>>

Close == CloseFlag \/ CloseSwap \/ CloseLink \/ CloseDone

-----------------------------------------------------------------------------
(* The consumer.                                                           *)

Advance(n) ==
  /\ tail' = n
  /\ got' = Append(got, n)
  /\ UNCHANGED <<head, next, sending, outcome>>

RecvCall ==
  /\ Goto(Consumer, "cIdle", "cRecv")
  /\ UNCHANGED <<list, signal, shutdown, cur, log, cancelled>>

(* Loads the next node: nothing there yet, the sentinel, or a value.       *)
RecvLoad ==
  LET n == next[tail]
  IN /\ \/ n = Null /\ Goto(Consumer, "cRecv", "cPark") /\ UNCHANGED <<list, log>>
        \/ n = End /\ Goto(Consumer, "cRecv", "cEnd") /\ UNCHANGED <<list, log>>
        \/ n \in Items /\ Goto(Consumer, "cRecv", "cIdle") /\ Advance(n)
     /\ UNCHANGED <<signal, shutdown, cur, cancelled>>

(* Mutant: a blocked Recv does not watch the done channel. *)
RecvParkDeaf ==
  /\ pc[Consumer] \in {"cPark", "cWait"}
  /\ \/ /\ signal /\ signal' = FALSE
        /\ pc' = [pc EXCEPT ![Consumer] = "cRecv"]
     \/ /\ cancelled /\ UNCHANGED signal
        /\ pc' = [pc EXCEPT ![Consumer] = "cCancelled"]
     \/ /\ ~signal /\ ~cancelled /\ UNCHANGED signal
        /\ Goto(Consumer, "cPark", "cWait")
  /\ UNCHANGED <<list, shutdown, cur, log, cancelled>>

(* The select on signal, done and ctx.Done.                                *)
RecvPark ==
  /\ pc[Consumer] \in {"cPark", "cWait"}
  /\ \/ /\ signal /\ signal' = FALSE
        /\ pc' = [pc EXCEPT ![Consumer] = "cRecv"]
     \/ /\ done /\ UNCHANGED signal
        /\ pc' = [pc EXCEPT ![Consumer] = "cRecv"]
     \/ /\ cancelled /\ UNCHANGED signal
        /\ pc' = [pc EXCEPT ![Consumer] = "cCancelled"]
     \/ /\ ~signal /\ ~done /\ ~cancelled /\ UNCHANGED signal
        /\ Goto(Consumer, "cPark", "cWait")
  /\ UNCHANGED <<list, shutdown, cur, log, cancelled>>

TryRecv ==
  LET n == next[tail]
  IN /\ pc[Consumer] = "cIdle" /\ UNCHANGED pc
     /\ IF n \in Items THEN Advance(n) ELSE UNCHANGED <<list, log>>
     /\ UNCHANGED <<signal, shutdown, cur, cancelled>>

Cancel ==
  /\ ~cancelled /\ cancelled' = TRUE
  /\ UNCHANGED <<list, signal, shutdown, pc, cur, log>>

Recv == RecvCall \/ RecvLoad \/ RecvPark

Next ==
  \/ \E s \in Producers : Send(s)
  \/ Close \/ Recv \/ TryRecv \/ Cancel

Closing == CloseSwap \/ CloseLink \/ CloseDone

Spec == Init /\ [][Next]_vars

(* Every runnable goroutine runs, and the consumer keeps calling Recv      *)
(* between its calls of TryRecv. Nobody has to cancel or to call Close,    *)
(* but a call that began finishes.                                         *)
FairSpec ==
  /\ Spec
  /\ \A s \in Producers : WF_vars(Send(s))
  /\ WF_vars(Closing)
  /\ WF_vars(Recv \/ TryRecv)

-----------------------------------------------------------------------------
(* The node that follows n once every claimed link is stored.              *)
Succ == [n \in Nodes \cup {Null} |->
  LET claim == {s \in Producers : pc[s] = "sLink" /\ cur[s] = n}
  IN CASE n \in {End, Null} -> Null
       [] n \notin {End, Null} /\ claim = {} -> next[n]
       [] OTHER -> Item(CHOOSE s \in claim : TRUE)]

(* The k-th node behind the tail.                                          *)
Behind[k \in 0..Cardinality(Items)] == IF k = 0 THEN tail ELSE Succ[Behind[k - 1]]

Length == Cardinality({k \in 1..Cardinality(Items) : Behind[k] \in Items})

(* The queue the list stands for: Send takes effect at its CAS.            *)
QueueItems == [k \in 1..Length |-> Behind[k]]

(* Send returns true exactly when its value is in the queue or delivered.  *)
OwnershipExact ==
  \A s \in Producers : \A k \in 1..Len(outcome[s]) :
    LET all == got \o QueueItems
    IN outcome[s][k] <=> \E i \in DOMAIN all : all[i] = <<s, k>>

(* Recv reports the end of the stream ("closed and drained") only when     *)
(* nothing is left and nothing can follow, also when Close overtakes a     *)
(* producer that has claimed its node and not linked it yet.               *)
EndIsFinal == pc[Consumer] = "cEnd" => head = Null /\ Length = 0

(* A consumer that keeps calling Recv and is not cancelled has everything  *)
(* Send accepted, whether or not the accumulator is closed, and after      *)
(* Close its stream has ended.                                             *)
Settled ==
  /\ cancelled \/ Length = 0
  /\ closed => pc[Consumer] \in {"cEnd", "cCancelled"}
=============================================================================
