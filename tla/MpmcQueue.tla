----------------------------- MODULE MpmcQueue -----------------------------
(***************************************************************************)
(* internal/containers/mpmc/queue.go: a ring buffer with a sequence number *)
(* per slot, claimed by compare-and-swap under a shared read lock, grown   *)
(* and closed under the write lock, with two one-token channels on which   *)
(* full senders and empty receivers park.                                  *)
(*                                                                         *)
(* Every load, store and compare-and-swap of a shared location is a step.  *)
(* What only changes under the write lock (data, capacity, extended, done) *)
(* may be read together with the step that follows, because the reader     *)
(* holds the read lock. Positions are unbounded: no run wraps int64.       *)
(***************************************************************************)
EXTENDS Integers, Sequences, FiniteSets

CONSTANTS
  Senders,     \* goroutines that call Send
  Receivers,   \* goroutines that call Recv
  Closers,     \* goroutines that call Close
  Growers,     \* goroutines that call Grow(GrowTo)
  Capacity,    \* capacity given to NewQueue
  GrowTo,      \* the argument of Grow
  Workloads,   \* what the goroutines do, see below
  MaxItems,    \* bound: items a sender sends
  Nil          \* the zero value of T

Threads == Senders \cup Receivers \cup Closers \cup Growers
Items   == Senders \X (1..MaxItems)

(* A workload: the extensions given to NewQueue (negative for unlimited),  *)
(* how many calls each goroutine makes, one after the other, and whose     *)
(* context may be cancelled.                                               *)
QueueAssumption ==
  /\ Capacity \in Nat /\ Capacity >= 2 /\ GrowTo \in Nat /\ MaxItems \in Nat
  /\ Workloads \subseteq [extensions : Int, calls : [Threads -> Nat], cancels : SUBSET Threads]
  /\ \A w \in Workloads, s \in Senders : w.calls[s] <= MaxItems
  /\ Nil \notin Items
  /\ Senders \cap Receivers = {} /\ Senders \cap Closers = {}
  /\ Receivers \cap Closers = {} /\ Growers \cap (Senders \cup Receivers \cup Closers) = {}

VARIABLES
  load,       \* the workload, which never changes
  seq, val,   \* the slots: Sequence and Data, functions on 0..capacity-1
  capacity, extended, done,
  head, tail,
  full, empty,  \* a token is in the channel
  pc,
  pos,        \* the position a Send or Recv is working on
  snap,       \* the capacity a Send saw before it released the read lock
  value,      \* what a Recv copied out of its slot
  sending,    \* index of the item a sender is sending
  outcome,    \* results of the calls to Send, in order
  got,        \* values the calls to Recv returned, in order
  cancelled   \* goroutines whose context is done

ring == <<load, seq, val, capacity, extended, done>>
ends == <<head, tail>>
chans == <<full, empty>>
local == <<pos, snap, value>>
log  == <<sending, outcome, got>>
vars == <<load, seq, val, capacity, extended, done, head, tail, full, empty, pc, pos,
          snap, value, sending, outcome, got, cancelled>>

mask(p) == p % capacity
Item(s) == <<s, sending[s]>>

(* Between RLock and RUnlock. A write-locked section is one step, taken    *)
(* when nobody reads. That a waiting writer keeps new readers out, so that *)
(* it gets its turn, is the strong fairness of FairSpec.                   *)
Reading(t) == pc[t] \in {"sLoop", "sCas", "sWrite", "sPublish", "sSignal", "sReload",
                         "rLoop", "rCas", "rRead", "rRecycle", "rSignal", "rReload"}
MayWrite == \A t \in Threads : ~Reading(t)

Goto(t, from, to) ==
  /\ pc[t] = from
  /\ pc' = [pc EXCEPT ![t] = to]

First(t) ==
  CASE t \in Senders   -> IF load.calls[t] = 0 THEN "sEnd" ELSE "sStart"
    [] t \in Receivers -> IF load.calls[t] = 0 THEN "rEnd" ELSE "rStart"
    [] t \in Closers   -> IF load.calls[t] = 0 THEN "cEnd" ELSE "cStart"
    [] t \in Growers   -> IF load.calls[t] = 0 THEN "gEnd" ELSE "gStart"

Init ==
  /\ load \in Workloads
  /\ capacity = Capacity
  /\ seq = [i \in 0..Capacity - 1 |-> i]
  /\ val = [i \in 0..Capacity - 1 |-> Nil]
  /\ extended = 0 /\ done = FALSE
  /\ head = 0 /\ tail = 0
  /\ full = FALSE /\ empty = FALSE
  /\ pc = [t \in Threads |-> First(t)]
  /\ pos = [t \in Threads |-> 0] /\ snap = [t \in Threads |-> 0]
  /\ value = [r \in Receivers |-> Nil]
  /\ sending = [s \in Senders |-> 1]
  /\ outcome = [s \in Senders |-> <<>>]
  /\ got = [r \in Receivers |-> <<>>]
  /\ cancelled = {}

-----------------------------------------------------------------------------
(* Send. The next item follows at once; a sender that got false gives up.  *)

Return(s, ok, woken) ==
  /\ pc' = [t \in Threads |->
              CASE t = s -> IF ok /\ sending[s] < load.calls[s] THEN "sStart" ELSE "sEnd"
                [] t = woken /\ t # s -> "rRelock"
                [] OTHER -> pc[t]]
  /\ outcome' = [outcome EXCEPT ![s] = Append(@, ok)]
  /\ sending' = [sending EXCEPT ![s] = @ + 1]
  /\ UNCHANGED got

SendBegin(s) ==
  /\ pc[s] = "sStart"
  /\ \/ /\ done \/ s \in cancelled
        /\ Return(s, FALSE, s)
        /\ UNCHANGED pos
     \/ /\ ~done /\ s \notin cancelled
        /\ pos' = [pos EXCEPT ![s] = head]
        /\ pc' = [pc EXCEPT ![s] = "sLoop"]
        /\ UNCHANGED log
  /\ UNCHANGED <<ring, ends, chans, snap, value, cancelled>>

(* Mutant: head advanced by a store instead of a compare-and-swap. *)
SendCasBlind(s) ==
  /\ Goto(s, "sCas", "sWrite") /\ head' = pos[s] + 1
  /\ UNCHANGED <<ring, tail, chans, local, log, cancelled>>

SendLoop(s) ==
  LET diff == seq[mask(pos[s])] - pos[s]
      full_ == IF load.extensions < 0 \/ extended < load.extensions THEN "sLock" ELSE "sPark"
  IN /\ pc[s] = "sLoop"
     /\ \/ /\ done \/ s \in cancelled
           /\ Return(s, FALSE, s)
           /\ UNCHANGED snap
        \/ /\ ~done /\ s \notin cancelled
           /\ pc' = [pc EXCEPT ![s] = IF diff = 0 THEN "sCas"
                                      ELSE IF diff < 0 THEN full_ ELSE "sReload"]
           /\ snap' = [snap EXCEPT ![s] = IF diff < 0 THEN capacity ELSE @]
           /\ UNCHANGED log
     /\ UNCHANGED <<ring, ends, chans, pos, value, cancelled>>

SendCas(s) ==
  /\ \/ head = pos[s] /\ Goto(s, "sCas", "sWrite") /\ head' = head + 1
     \/ head # pos[s] /\ Goto(s, "sCas", "sLoop") /\ UNCHANGED head
  /\ UNCHANGED <<ring, tail, chans, local, log, cancelled>>

SendWrite(s) ==
  /\ Goto(s, "sWrite", "sPublish")
  /\ val' = [val EXCEPT ![mask(pos[s])] = Item(s)]
  /\ UNCHANGED <<load, seq, capacity, extended, done, ends, chans, local, log, cancelled>>

SendPublish(s) ==
  /\ Goto(s, "sPublish", "sSignal")
  /\ seq' = [seq EXCEPT ![mask(pos[s])] = pos[s] + 1]
  /\ UNCHANGED <<load, val, capacity, extended, done, ends, chans, local, log, cancelled>>

(* Mutant: Send does not signal the empty channel. *)
SendSignalNot(s) ==
  /\ pc[s] = "sSignal" /\ Return(s, TRUE, s)
  /\ UNCHANGED <<ring, ends, chans, local, cancelled>>

(* The non-blocking send on the empty channel: a receiver waiting in its   *)
(* select gets the token at once, otherwise it stays in the buffer; if     *)
(* there is one already, it is dropped.                                    *)
SendSignal(s) ==
  /\ pc[s] = "sSignal"
  /\ \/ \E r \in Receivers : /\ pc[r] = "rWait"
                             /\ Return(s, TRUE, r)
                             /\ UNCHANGED empty
     \/ /\ \A r \in Receivers : pc[r] # "rWait"
        /\ Return(s, TRUE, s)
        /\ empty' = TRUE
  /\ UNCHANGED <<ring, ends, full, local, cancelled>>

SendReload(s) ==
  /\ Goto(s, "sReload", "sLoop")
  /\ pos' = [pos EXCEPT ![s] = head]
  /\ UNCHANGED <<ring, ends, chans, snap, value, log, cancelled>>

(* Mutant: the items keep their physical index instead of moving to 0. *)
ExtendInPlace(n) ==
  LET size == head - tail
  IN IF capacity >= n THEN UNCHANGED <<ring, ends>>
     ELSE /\ seq' = [i \in 0..n - 1 |-> IF i < size THEN i + 1 ELSE i]
          /\ val' = [i \in 0..n - 1 |-> IF i < capacity THEN val[i] ELSE Nil]
          /\ tail' = 0 /\ head' = size
          /\ extended' = extended + 1
          /\ capacity' = n
          /\ UNCHANGED <<load, done>>

(* extend: compact the ring so that the tail becomes index 0 of a buffer   *)
(* of n slots.                                                             *)
Extend(n) ==
  LET size == head - tail
  IN IF capacity >= n THEN UNCHANGED <<ring, ends>>
     ELSE /\ seq' = [i \in 0..n - 1 |-> IF i < size THEN i + 1 ELSE i]
          /\ val' = [i \in 0..n - 1 |-> IF i < size THEN val[mask(tail + i)] ELSE Nil]
          /\ tail' = 0 /\ head' = size
          /\ extended' = extended + 1
          /\ capacity' = n
          /\ UNCHANGED <<load, done>>

(* The write-locked part of Send is one step: nobody else holds the lock.  *)
SendExtend(s) ==
  /\ MayWrite /\ Goto(s, "sLock", "sRelock")
  /\ IF snap[s] = capacity /\ ~done /\ s \notin cancelled
     THEN Extend(2 * capacity) ELSE UNCHANGED <<ring, ends>>
  /\ UNCHANGED <<chans, local, log, cancelled>>

(* Mutant: Close does not close the full channel. *)
SendParkDeaf(s) ==
  /\ \/ Goto(s, "sPark", "sRelock") /\ full /\ full' = FALSE
     \/ Goto(s, "sPark", "sWait") /\ ~full /\ UNCHANGED full
     \/ Goto(s, "sWait", "sRelock") /\ s \in cancelled /\ UNCHANGED full
  /\ UNCHANGED <<ring, ends, empty, local, log, cancelled>>

(* The select on full and ctx.Done: ready at once, or wait. Close closes   *)
(* the channel, which makes it ready for good.                             *)
SendPark(s) ==
  /\ \/ Goto(s, "sPark", "sRelock") /\ full /\ full' = FALSE
     \/ /\ done \/ s \in cancelled
        /\ \/ Goto(s, "sPark", "sRelock")
           \/ Goto(s, "sWait", "sRelock")
        /\ UNCHANGED full
     \/ /\ Goto(s, "sPark", "sWait")
        /\ ~full /\ ~done /\ s \notin cancelled
        /\ UNCHANGED full
  /\ UNCHANGED <<ring, ends, empty, local, log, cancelled>>

SendRelock(s) ==
  /\ Goto(s, "sRelock", "sLoop")
  /\ pos' = [pos EXCEPT ![s] = head]
  /\ UNCHANGED <<ring, ends, chans, snap, value, log, cancelled>>

-----------------------------------------------------------------------------
(* Recv, called until it returns false or the workload is done.            *)

AfterRecv(r) == IF Len(got[r]) + 1 < load.calls[r] THEN "rStart" ELSE "rEnd"

RecvBegin(r) ==
  /\ Goto(r, "rStart", "rLoop")
  /\ pos' = [pos EXCEPT ![r] = tail]
  /\ UNCHANGED <<ring, ends, chans, snap, value, log, cancelled>>

RecvLoop(r) ==
  LET diff == seq[mask(pos[r])] - (pos[r] + 1)
      none == IF done \/ r \in cancelled THEN "rEnd" ELSE "rPark"
  IN /\ Goto(r, "rLoop", IF diff = 0 THEN "rCas" ELSE IF diff < 0 THEN none ELSE "rReload")
     /\ UNCHANGED <<ring, ends, chans, local, log, cancelled>>

RecvCas(r) ==
  /\ \/ tail = pos[r] /\ Goto(r, "rCas", "rRead") /\ tail' = tail + 1
     \/ tail # pos[r] /\ Goto(r, "rCas", "rLoop") /\ UNCHANGED tail
  /\ UNCHANGED <<ring, head, chans, local, log, cancelled>>

RecvRead(r) ==
  /\ Goto(r, "rRead", "rRecycle")
  /\ value' = [value EXCEPT ![r] = val[mask(pos[r])]]
  /\ val' = [val EXCEPT ![mask(pos[r])] = Nil]
  /\ UNCHANGED <<load, seq, capacity, extended, done, ends, chans, pos, snap, log, cancelled>>

(* Mutant: Recv does not signal the full channel. *)
RecvSignalNot(r) ==
  /\ Goto(r, "rSignal", AfterRecv(r))
  /\ got' = [got EXCEPT ![r] = Append(@, value[r])]
  /\ value' = [value EXCEPT ![r] = Nil]
  /\ UNCHANGED <<ring, ends, chans, pos, snap, sending, outcome, cancelled>>

RecvRecycle(r) ==
  /\ Goto(r, "rRecycle", "rSignal")
  /\ seq' = [seq EXCEPT ![mask(pos[r])] = pos[r] + capacity]
  /\ UNCHANGED <<load, val, capacity, extended, done, ends, chans, local, log, cancelled>>

RecvSignal(r) ==
  /\ pc[r] = "rSignal"
  /\ \/ \E s \in Senders : /\ ~done /\ pc[s] = "sWait"
                           /\ pc' = [pc EXCEPT ![r] = AfterRecv(r), ![s] = "sRelock"]
                           /\ UNCHANGED full
     \/ /\ done \/ \A s \in Senders : pc[s] # "sWait"
        /\ pc' = [pc EXCEPT ![r] = AfterRecv(r)]
        /\ full' = (full \/ ~done)
  /\ got' = [got EXCEPT ![r] = Append(@, value[r])]
  /\ value' = [value EXCEPT ![r] = Nil]
  /\ UNCHANGED <<ring, ends, empty, pos, snap, sending, outcome, cancelled>>

RecvReload(r) ==
  /\ Goto(r, "rReload", "rLoop")
  /\ pos' = [pos EXCEPT ![r] = tail]
  /\ UNCHANGED <<ring, ends, chans, snap, value, log, cancelled>>

RecvPark(r) ==
  /\ \/ Goto(r, "rPark", "rRelock") /\ empty /\ empty' = FALSE
     \/ /\ done \/ r \in cancelled
        /\ \/ Goto(r, "rPark", "rRelock")
           \/ Goto(r, "rWait", "rRelock")
        /\ UNCHANGED empty
     \/ /\ Goto(r, "rPark", "rWait")
        /\ ~empty /\ ~done /\ r \notin cancelled
        /\ UNCHANGED empty
  /\ UNCHANGED <<ring, ends, full, local, log, cancelled>>

RecvRelock(r) ==
  /\ Goto(r, "rRelock", "rLoop")
  /\ pos' = [pos EXCEPT ![r] = tail]
  /\ UNCHANGED <<ring, ends, chans, snap, value, log, cancelled>>

-----------------------------------------------------------------------------
(* Close and Grow run alone, under the write lock.                         *)

Close(t) ==
  /\ MayWrite /\ Goto(t, "cStart", "cEnd")
  /\ done' = TRUE
  /\ UNCHANGED <<load, seq, val, capacity, extended, ends, chans, local, log, cancelled>>

Grow(t) ==
  /\ MayWrite /\ Goto(t, "gStart", "gEnd")
  /\ Extend(GrowTo)
  /\ UNCHANGED <<chans, local, log, cancelled>>

Cancel(t) ==
  /\ t \notin cancelled
  /\ cancelled' = cancelled \cup {t}
  /\ UNCHANGED <<ring, ends, chans, pc, local, log>>

SendStep(s) ==
  \/ SendBegin(s) \/ SendLoop(s) \/ SendCas(s) \/ SendWrite(s) \/ SendPublish(s)
  \/ SendSignal(s) \/ SendReload(s) \/ SendExtend(s) \/ SendPark(s) \/ SendRelock(s)

RecvStep(r) ==
  \/ RecvBegin(r) \/ RecvLoop(r) \/ RecvCas(r) \/ RecvRead(r) \/ RecvRecycle(r)
  \/ RecvSignal(r) \/ RecvReload(r) \/ RecvPark(r) \/ RecvRelock(r)

Next ==
  \/ \E s \in Senders : SendStep(s)
  \/ \E r \in Receivers : RecvStep(r)
  \/ \E t \in Closers : Close(t)
  \/ \E t \in Growers : Grow(t)
  \/ \E t \in load.cancels : Cancel(t)

Spec == Init /\ [][Next]_vars

(* Go runs every goroutine that is runnable, and a writer gets the lock it *)
(* waits for. Nobody has to call Close or Grow, or to cancel.              *)
FairSpec ==
  /\ Spec
  /\ \A s \in Senders : WF_vars(SendStep(s))
  /\ \A r \in Receivers : WF_vars(RecvStep(r))
  /\ \A s \in Senders : SF_vars(SendExtend(s))

-----------------------------------------------------------------------------
(* The sender that claimed position p and has not written it yet.          *)
Claimant(p) == {s \in Senders : pc[s] = "sWrite" /\ pos[s] = p}

ItemAt(p) == IF Claimant(p) = {} THEN val[mask(p)]
             ELSE Item(CHOOSE s \in Senders : s \in Claimant(p))

(* The queue the ring stands for: a Send takes effect when it wins the     *)
(* head, a Recv when it wins the tail.                                     *)
QueueItems == [i \in 1..head - tail |-> ItemAt(tail + i - 1)]
QueueTaken == [r \in Receivers |->
  CASE pc[r] = "rRead" -> Append(got[r], val[mask(pos[r])])
    [] pc[r] \in {"rRecycle", "rSignal"} -> Append(got[r], value[r])
    [] OTHER -> got[r]]

(* Where item x is: in the queue or among the values a receiver got.       *)
Places(x) ==
  {<<i>> : i \in {j \in DOMAIN QueueItems : QueueItems[j] = x}} \cup
  UNION {{<<r, i>> : i \in {j \in DOMAIN QueueTaken[r] : QueueTaken[r][j] = x}} :
         r \in Receivers}

(* Send returns true exactly when it handed its item over, once: a caller  *)
(* that gets false still owns the message and releases it, so an item that *)
(* is queued all the same, or queued twice, would be released twice.       *)
OwnershipExact ==
  \A s \in Senders : \A k \in 1..Len(outcome[s]) :
    Cardinality(Places(<<s, k>>)) = IF outcome[s][k] THEN 1 ELSE 0

(* Every Send has returned, no receiver is parked while the buffer holds   *)
(* an item ("Recv dequeues and returns the next item, blocking if the      *)
(* buffer is empty"), and after Close no call is left.                     *)
Settled ==
  /\ \A s \in Senders : pc[s] = "sEnd"
  /\ \A r \in Receivers : ~(pc[r] = "rWait" /\ head > tail) /\ (done => pc[r] = "rEnd")
=============================================================================
