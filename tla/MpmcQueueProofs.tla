-------------------------- MODULE MpmcQueueProofs --------------------------
(***************************************************************************)
(* Proofs about MpmcQueue, for every number of goroutines, capacity,       *)
(* workload and extension limit: no two goroutines ever work on one slot   *)
(* of the ring, a sender that wins the head has a free slot, and a         *)
(* receiver that wins the tail has a published item.                       *)
(*                                                                         *)
(* RingInv is the inductive invariant. It says which sequence number each  *)
(* slot of the current window holds as a function of who has claimed it; a *)
(* compare-and-swap that succeeds then finds the slot free (or full), also *)
(* across the laps of the ring and across the compaction that extend       *)
(* makes.                                                                  *)
(*                                                                         *)
(* The second part is what the ring promises from that invariant: it is    *)
(* linearizable (it implements Fifo, where a Send takes effect when it     *)
(* wins the head and a Recv when it wins the tail), and Send hands an item *)
(* over exactly when it returns true. Every step but the two winning       *)
(* compare-and-swaps and Close is invisible to Fifo. An item counts as     *)
(* queued from the moment its position is claimed, so that QueueItems      *)
(* reads a slot only once its sender has written it. Placement is the      *)
(* inductive form of OwnershipExact.                                       *)
(***************************************************************************)
EXTENDS MpmcQueue, TLAPS

(* The control points of Send and of Recv.                                 *)
SendPcs == {"sStart", "sLoop", "sCas", "sWrite", "sPublish", "sSignal", "sReload",
            "sLock", "sPark", "sWait", "sRelock", "sEnd"}
RecvPcs == {"rStart", "rLoop", "rCas", "rRead", "rRecycle", "rSignal", "rReload",
            "rPark", "rWait", "rRelock", "rEnd"}

(* The type invariant, in three parts: control, the ring, and what belongs *)
(* to single calls.                                                        *)
PcOK ==
  /\ pc \in [Threads -> SendPcs \cup RecvPcs \cup {"cStart", "cEnd", "gStart", "gEnd"}]
  /\ \A s \in Senders : pc[s] \in SendPcs
  /\ \A r \in Receivers : pc[r] \in RecvPcs
  /\ \A t \in Closers : pc[t] \in {"cStart", "cEnd"}
  /\ \A t \in Growers : pc[t] \in {"gStart", "gEnd"}

RingOK ==
  /\ load \in Workloads
  /\ capacity \in Nat /\ capacity >= 2
  /\ seq \in [0..capacity - 1 -> Int]
  /\ val \in [0..capacity - 1 -> Items \cup {Nil}]
  /\ extended \in Nat /\ done \in BOOLEAN
  /\ head \in Nat /\ tail \in Nat

CallsOK ==
  /\ full \in BOOLEAN /\ empty \in BOOLEAN
  /\ pos \in [Threads -> Nat] /\ snap \in [Threads -> Nat]
  /\ value \in [Receivers -> Items \cup {Nil}]
  /\ sending \in [Senders -> Nat \ {0}]
  /\ outcome \in [Senders -> Seq(BOOLEAN)]
  /\ got \in [Receivers -> Seq(Items \cup {Nil})]
  /\ cancelled \subseteq Threads

TypeOK == PcOK /\ RingOK /\ CallsOK

(* A sender between its compare-and-swap and the store of the sequence     *)
(* number, a receiver likewise: they own the slot of their position.       *)
Owner(s) == pc[s] \in {"sWrite", "sPublish"}
Taker(r) == pc[r] \in {"rRead", "rRecycle"}

(* The positions in use. The queue is tail..head-1; senders that own a     *)
(* slot are inside it, receivers that own one are behind it, less than one *)
(* lap away; and a position has one owner.                                 *)
Window ==
  /\ tail <= head /\ head <= tail + capacity
  /\ \A s \in Senders : Owner(s) => tail <= pos[s] /\ pos[s] < head
  /\ \A r \in Receivers : Taker(r) => head - capacity <= pos[r] /\ pos[r] < tail
  /\ \A s, q \in Senders : Owner(s) /\ Owner(q) /\ pos[s] = pos[q] => s = q
  /\ \A r, q \in Receivers : Taker(r) /\ Taker(q) /\ pos[r] = pos[q] => r = q

(* The sequence numbers. A slot of the window holds its position while the *)
(* sender has not published, and one more afterwards; a slot behind the    *)
(* window that is being read still holds one more than its position, and   *)
(* every other slot holds the position of the next lap.                    *)
Slots ==
  /\ \A s \in Senders : Owner(s) => seq[mask(pos[s])] = pos[s]
  /\ \A r \in Receivers : Taker(r) => seq[mask(pos[r])] = pos[r] + 1
  /\ \A p \in Int : tail <= p /\ p < head /\ (\A s \in Senders : Owner(s) => pos[s] # p)
                    => seq[mask(p)] = p + 1
  /\ \A p \in Int : head <= p /\ p < tail + capacity
                    /\ (\A r \in Receivers : Taker(r) => pos[r] # p - capacity)
                    => seq[mask(p)] = p

(* What a goroutine saw in its slot still holds when its compare-and-swap  *)
(* succeeds: the position it works on was at the head (the tail) or has    *)
(* been passed.                                                            *)
Claims ==
  /\ \A s \in Senders : pc[s] \in {"sLoop", "sCas", "sReload"} => pos[s] <= head
  /\ \A r \in Receivers : pc[r] \in {"rLoop", "rCas", "rReload"} => pos[r] <= tail
  /\ \A s \in Senders : pc[s] = "sCas" /\ pos[s] = head => seq[mask(pos[s])] = pos[s]
  /\ \A r \in Receivers : pc[r] = "rCas" /\ pos[r] = tail => seq[mask(pos[r])] = pos[r] + 1

(* No Send that passed the check of done is under way after Close, which   *)
(* takes the write lock; and a sender is at most one item ahead of its     *)
(* results.                                                                *)
Open == \A s \in Senders :
  /\ pc[s] \in {"sCas", "sWrite", "sPublish", "sSignal", "sReload"} => ~done
  /\ pc[s] # "sEnd" => sending[s] <= load.calls[s]
  /\ sending[s] = Len(outcome[s]) + 1

(* Between the write of the data and the store of the sequence number, the *)
(* slot holds the item.                                                    *)
Contents ==
  /\ \A s \in Senders : pc[s] = "sPublish" => val[mask(pos[s])] = Item(s)

RingInv == Window /\ Slots /\ Claims /\ Open /\ Contents

-----------------------------------------------------------------------------
(* A goroutine has one role.                                               *)
LEMMA Disjoint ==
  ASSUME QueueAssumption
  PROVE  /\ Senders \subseteq Threads /\ Receivers \subseteq Threads
         /\ Closers \subseteq Threads /\ Growers \subseteq Threads
         /\ \A t \in Senders : t \notin Receivers /\ t \notin Closers /\ t \notin Growers
         /\ \A t \in Receivers : t \notin Senders /\ t \notin Closers /\ t \notin Growers
         /\ \A t \in Closers : t \notin Senders /\ t \notin Receivers /\ t \notin Growers
         /\ \A t \in Growers : t \notin Senders /\ t \notin Receivers /\ t \notin Closers
BY ZenonT(30) DEF QueueAssumption, Threads


(* What a workload is.                                                     *)
LEMMA LoadType ==
  ASSUME QueueAssumption, load \in Workloads
  PROVE  /\ load.calls \in [Threads -> Nat] /\ load.cancels \subseteq Threads
         /\ load.extensions \in Int
         /\ \A s \in Senders : load.calls[s] <= MaxItems
BY ZenonT(30) DEF QueueAssumption

(* The types hold initially.                                               *)
LEMMA InitTypeOK ==
  ASSUME QueueAssumption, Init
  PROVE  TypeOK
<1>1. RingOK
  <2>1. Capacity \in Nat /\ Capacity >= 2
    BY ZenonT(30) DEF QueueAssumption
  <2>2. done \in BOOLEAN
    BY ZenonT(30) DEF Init
  <2>3. /\ seq \in [0..Capacity - 1 -> Int]
        /\ val \in [0..Capacity - 1 -> Items \cup {Nil}]
    BY <2>1, SMT, SMTT(30) DEF Init
  <2>4. /\ load \in Workloads /\ capacity = Capacity /\ extended = 0
        /\ head = 0 /\ tail = 0
    BY ZenonT(30) DEF Init
  <2> QED BY <2>1, <2>2, <2>3, <2>4, ZenonT(30) DEF RingOK
<1>2. PcOK
  <2>1. pc = [t \in Threads |-> First(t)]
    BY ZenonT(30) DEF Init
  <2>2. /\ \A s \in Senders : pc[s] \in SendPcs
        /\ \A r \in Receivers : pc[r] \in RecvPcs
        /\ \A t \in Closers : pc[t] \in {"cStart", "cEnd"}
        /\ \A t \in Growers : pc[t] \in {"gStart", "gEnd"}
    BY <2>1, Disjoint, ZenonT(30) DEF First, SendPcs, RecvPcs
  <2> QED BY <2>1, <2>2, ZenonT(30) DEF PcOK, Threads
<1>3. CallsOK
  <2>1. full \in BOOLEAN /\ empty \in BOOLEAN
    BY ZenonT(30) DEF Init
  <2> QED BY <2>1, SMT, SMTT(30) DEF Init, CallsOK
<1> QED BY <1>1, <1>2, <1>3, ZenonT(30) DEF TypeOK

(* A sender that has not ended is sending one of its items.                *)
LEMMA ItemType ==
  ASSUME QueueAssumption, TypeOK, Open, NEW s \in Senders, pc[s] # "sEnd"
  PROVE  Item(s) \in Items
<1>1. sending[s] \in Nat \ {0} /\ load \in Workloads
  BY ZenonT(30) DEF TypeOK, RingOK, CallsOK
<1>2. sending[s] <= load.calls[s]
  BY ZenonT(30) DEF Open
<1>3. load.calls[s] \in Nat /\ load.calls[s] <= MaxItems /\ MaxItems \in Nat
  BY <1>1, LoadType, Disjoint, ZenonT(30) DEF QueueAssumption
<1>4. sending[s] \in 1..MaxItems
  BY <1>1, <1>2, <1>3, SMT, SMTT(30)
<1> QED BY <1>4, ZenonT(30) DEF Item, Items

(* Moving one goroutine to a control point of its role keeps the control   *)
(* well-typed.                                                             *)
LEMMA GotoPcOK ==
  ASSUME QueueAssumption, PcOK, NEW t, NEW to, pc' = [pc EXCEPT ![t] = to],
         \/ t \in Senders /\ to \in SendPcs
         \/ t \in Receivers /\ to \in RecvPcs
         \/ t \in Closers /\ to \in {"cStart", "cEnd"}
         \/ t \in Growers /\ to \in {"gStart", "gEnd"}
  PROVE  PcOK'
BY Disjoint, ZenonT(30) DEF PcOK, Threads

(* So does returning from Send, also when it wakes up a receiver.          *)
LEMMA ReturnTypeOK ==
  ASSUME QueueAssumption, TypeOK, NEW s \in Senders, NEW ok \in BOOLEAN,
         NEW w, w = s \/ w \in Receivers, Return(s, ok, w)
  PROVE  /\ PcOK'
         /\ sending' \in [Senders -> Nat \ {0}]
         /\ outcome' \in [Senders -> Seq(BOOLEAN)]
         /\ got' = got
<1>1. /\ \A t \in Senders : pc'[t] \in SendPcs
      /\ \A t \in Receivers : pc'[t] \in RecvPcs
      /\ \A t \in Closers : pc'[t] = pc[t]
      /\ \A t \in Growers : pc'[t] = pc[t]
  BY Disjoint, SMT, SMTT(30) DEF TypeOK, PcOK, Return, SendPcs, RecvPcs
<1>2. pc' = [t \in Threads |-> pc'[t]]
  BY ZenonT(30) DEF Return
<1>3. PcOK'
  BY <1>1, <1>2, ZenonT(30) DEF TypeOK, PcOK, Threads
<1>4. /\ sending' \in [Senders -> Nat \ {0}]
      /\ outcome' \in [Senders -> Seq(BOOLEAN)]
      /\ got' = got
  BY SMT, SMTT(30) DEF TypeOK, CallsOK, Return
<1> QED BY <1>3, <1>4, ZenonT(30)

(* A position is masked to a slot of the ring.                             *)
LEMMA MaskType ==
  ASSUME RingOK, NEW p \in Int
  PROVE  mask(p) \in 0..capacity - 1
BY SMT, SMTT(30) DEF RingOK, mask

(* extend keeps the ring well-typed.                                       *)
LEMMA ExtendRingOK ==
  ASSUME RingOK, Window, NEW n \in Nat, Extend(n)
  PROVE  RingOK'
<1>1. CASE capacity >= n
  BY <1>1, ZenonT(30) DEF Extend, RingOK, ring, ends
<1>2. CASE ~(capacity >= n)
  <2>1. head - tail \in Nat /\ n > capacity
    BY <1>2, SMT, SMTT(30) DEF RingOK, Window
  <2>2. /\ seq' = [i \in 0..n - 1 |-> IF i < head - tail THEN i + 1 ELSE i]
        /\ val' = [i \in 0..n - 1 |-> IF i < head - tail THEN val[mask(tail + i)] ELSE Nil]
        /\ tail' = 0 /\ head' = head - tail
        /\ extended' = extended + 1 /\ capacity' = n /\ load' = load /\ done' = done
    BY <1>2, ZenonT(30) DEF Extend
  <2>3. seq' \in [0..n - 1 -> Int]
    BY <2>1, <2>2, SMT, SMTT(30)
  <2>4. val' \in [0..n - 1 -> Items \cup {Nil}]
    <3>1. ASSUME NEW i \in 0..n - 1
          PROVE  val[mask(tail + i)] \in Items \cup {Nil}
      <4>1. tail + i \in Int
        BY SMT, SMTT(30) DEF RingOK
      <4>2. mask(tail + i) \in 0..capacity - 1
        BY <4>1, MaskType, ZenonT(30)
      <4> QED BY <4>2, ZenonT(30) DEF RingOK
    <3> QED BY <2>2, <3>1, ZenonT(30)
  <2>5. n \in Nat /\ n >= 2 /\ extended + 1 \in Nat
    BY <2>1, SMT, SMTT(30) DEF RingOK
  <2> QED BY <2>1, <2>2, <2>3, <2>4, <2>5, ZenonT(30) DEF RingOK
<1> QED BY <1>1, <1>2, ZenonT(30)

(* Every step of Send keeps the types.                                     *)
LEMMA SendTypeOK ==
  ASSUME QueueAssumption, TypeOK, Window, Open, NEW s \in Senders, SendStep(s)
  PROVE  TypeOK'
<1> USE Disjoint
<1>1. CASE SendBegin(s)
  <2>1. RingOK'
    BY <1>1, ZenonT(30) DEF SendBegin, TypeOK, RingOK, ring, ends
  <2>2. CASE Return(s, FALSE, s) /\ UNCHANGED pos
    BY <1>1, <2>1, <2>2, ReturnTypeOK, ZenonT(30) DEF SendBegin, TypeOK, CallsOK, chans
  <2>3. CASE pos' = [pos EXCEPT ![s] = head] /\ pc' = [pc EXCEPT ![s] = "sLoop"] /\ UNCHANGED log
    <3>1. PcOK'
      BY <2>3, GotoPcOK, ZenonT(30) DEF TypeOK, SendPcs
    <3> QED BY <1>1, <2>1, <2>3, <3>1, ZenonT(30) DEF SendBegin, TypeOK, CallsOK, RingOK, chans, log
  <2> QED BY <1>1, <2>2, <2>3, ZenonT(30) DEF SendBegin
<1>2. CASE SendLoop(s)
  <2>1. RingOK'
    BY <1>2, ZenonT(30) DEF SendLoop, TypeOK, RingOK, ring, ends
  <2>2. CASE Return(s, FALSE, s) /\ UNCHANGED snap
    BY <1>2, <2>1, <2>2, ReturnTypeOK, ZenonT(30) DEF SendLoop, TypeOK, CallsOK, chans
  <2>3. CASE ~(Return(s, FALSE, s) /\ UNCHANGED snap)
    <3>1. PICK to \in SendPcs : pc' = [pc EXCEPT ![s] = to]
      BY <1>2, <2>3, ZenonT(30) DEF SendLoop, SendPcs
    <3>2. PcOK'
      BY <3>1, GotoPcOK, ZenonT(30) DEF TypeOK
    <3>3. UNCHANGED log
      BY <1>2, <2>3, ZenonT(30) DEF SendLoop
    <3>4. \E n \in Nat : snap' = [snap EXCEPT ![s] = n]
      <4>1. capacity \in Nat /\ snap[s] \in Nat
        BY ZenonT(30) DEF TypeOK, CallsOK, RingOK
      <4> QED BY <1>2, <2>3, <4>1, ZenonT(30) DEF SendLoop
    <3>5. snap' \in [Threads -> Nat]
      BY <3>4, ZenonT(30) DEF TypeOK, CallsOK
    <3> QED BY <1>2, <2>1, <3>2, <3>3, <3>5, ZenonT(30) DEF SendLoop, TypeOK, CallsOK, chans, log
  <2> QED BY <2>2, <2>3, ZenonT(30)
<1>3. CASE SendCas(s)
  <2>1. PICK to \in {"sWrite", "sLoop"} : pc' = [pc EXCEPT ![s] = to]
    BY <1>3, ZenonT(30) DEF SendCas, Goto
  <2>2. PcOK'
    BY <2>1, GotoPcOK, ZenonT(30) DEF TypeOK, SendPcs
  <2>3. RingOK'
    BY <1>3, SMT, SMTT(30) DEF SendCas, TypeOK, RingOK, ring
  <2> QED BY <1>3, <2>2, <2>3, ZenonT(30) DEF SendCas, TypeOK, CallsOK, chans, local, log
<1>4. CASE SendWrite(s)
  <2>1. PcOK'
    BY <1>4, GotoPcOK, ZenonT(30) DEF TypeOK, SendPcs, SendWrite, Goto
  <2>2. Item(s) \in Items
    BY <1>4, ItemType, ZenonT(30) DEF SendWrite, Goto
  <2>3. RingOK'
    BY <1>4, <2>2, ZenonT(30) DEF SendWrite, TypeOK, RingOK, ends
  <2> QED BY <1>4, <2>1, <2>3, ZenonT(30) DEF SendWrite, TypeOK, CallsOK, chans, local, log
<1>5. CASE SendPublish(s)
  <2>1. PcOK'
    BY <1>5, GotoPcOK, ZenonT(30) DEF TypeOK, SendPcs, SendPublish, Goto
  <2>2. pos[s] \in Nat
    BY ZenonT(30) DEF TypeOK, CallsOK
  <2>3. seq' \in [0..capacity - 1 -> Int]
    <3>1. seq' = [seq EXCEPT ![mask(pos[s])] = pos[s] + 1]
      BY <1>5, ZenonT(30) DEF SendPublish
    <3>2. seq \in [0..capacity - 1 -> Int] /\ pos[s] + 1 \in Int
      BY <2>2, SMT, SMTT(30) DEF TypeOK, RingOK
    <3> QED BY <3>1, <3>2, ZenonT(30)
  <2>4. RingOK'
    BY <1>5, <2>3, ZenonT(30) DEF SendPublish, TypeOK, RingOK, ends
  <2> QED BY <1>5, <2>1, <2>4, ZenonT(30) DEF SendPublish, TypeOK, CallsOK, chans, local, log
<1>6. CASE SendSignal(s)
  <2>1. PICK w : (w = s \/ w \in Receivers) /\ Return(s, TRUE, w)
    BY <1>6, ZenonT(30) DEF SendSignal
  <2>2. empty' \in BOOLEAN
    BY <1>6, ZenonT(30) DEF SendSignal, TypeOK, CallsOK
  <2> QED BY <1>6, <2>1, <2>2, ReturnTypeOK, ZenonT(30) DEF SendSignal, TypeOK, CallsOK, RingOK, ring, ends, local
<1>7. CASE SendReload(s) \/ SendRelock(s)
  <2>1. PcOK'
    BY <1>7, GotoPcOK, ZenonT(30) DEF TypeOK, SendPcs, SendReload, SendRelock, Goto
  <2>2. RingOK'
    BY <1>7, ZenonT(30) DEF SendReload, SendRelock, TypeOK, RingOK, ring, ends
  <2> QED BY <1>7, <2>1, <2>2, ZenonT(30) DEF SendReload, SendRelock, TypeOK, CallsOK, RingOK, chans, log
<1>8. CASE SendPark(s)
  <2>1. PICK to \in {"sRelock", "sWait"} : pc' = [pc EXCEPT ![s] = to]
    BY <1>8, ZenonT(30) DEF SendPark, Goto
  <2>2. PcOK'
    BY <2>1, GotoPcOK, ZenonT(30) DEF TypeOK, SendPcs
  <2>3. RingOK'
    BY <1>8, ZenonT(30) DEF SendPark, TypeOK, RingOK, ring, ends
  <2>4. full' \in BOOLEAN
    BY <1>8, ZenonT(30) DEF SendPark, TypeOK, CallsOK
  <2> QED BY <1>8, <2>2, <2>3, <2>4, ZenonT(30) DEF SendPark, TypeOK, CallsOK, local, log
<1>9. CASE SendExtend(s)
  <2>1. PcOK'
    BY <1>9, GotoPcOK, ZenonT(30) DEF TypeOK, SendPcs, SendExtend, Goto
  <2>2. RingOK'
    <3>1. CASE Extend(2 * capacity)
      BY <3>1, ExtendRingOK, SMT, SMTT(30) DEF TypeOK, RingOK
    <3>2. CASE UNCHANGED <<ring, ends>>
      BY <3>2, ZenonT(30) DEF TypeOK, RingOK, ring, ends
    <3> QED BY <1>9, <3>1, <3>2, ZenonT(30) DEF SendExtend
  <2> QED BY <1>9, <2>1, <2>2, ZenonT(30) DEF SendExtend, TypeOK, CallsOK, chans, local, log
<1> QED BY <1>1, <1>2, <1>3, <1>4, <1>5, <1>6, <1>7, <1>8, <1>9, ZenonT(30) DEF SendStep

(* Every step of Recv keeps the types.                                     *)
LEMMA RecvTypeOK ==
  ASSUME QueueAssumption, TypeOK, NEW r \in Receivers, RecvStep(r)
  PROVE  TypeOK'
<1> USE Disjoint
<1>1. CASE RecvBegin(r) \/ RecvReload(r) \/ RecvRelock(r)
  <2>1. PcOK'
    BY <1>1, GotoPcOK, ZenonT(30) DEF TypeOK, RecvPcs, RecvBegin, RecvReload, RecvRelock, Goto
  <2>2. RingOK'
    BY <1>1, ZenonT(30) DEF RecvBegin, RecvReload, RecvRelock, TypeOK, RingOK, ring, ends
  <2> QED BY <1>1, <2>1, <2>2, ZenonT(30)
          DEF RecvBegin, RecvReload, RecvRelock, TypeOK, CallsOK, RingOK, chans, log
<1>2. CASE RecvLoop(r)
  <2>1. PICK to \in RecvPcs : pc' = [pc EXCEPT ![r] = to]
    BY <1>2, ZenonT(30) DEF RecvLoop, RecvPcs, Goto
  <2>2. PcOK'
    BY <2>1, GotoPcOK, ZenonT(30) DEF TypeOK
  <2> QED BY <1>2, <2>2, ZenonT(30) DEF RecvLoop, TypeOK, RingOK, CallsOK, ring, ends, chans, local, log
<1>3. CASE RecvCas(r)
  <2>1. PICK to \in {"rRead", "rLoop"} : pc' = [pc EXCEPT ![r] = to]
    BY <1>3, ZenonT(30) DEF RecvCas, Goto
  <2>2. PcOK'
    BY <2>1, GotoPcOK, ZenonT(30) DEF TypeOK, RecvPcs
  <2>3. RingOK'
    BY <1>3, SMT, SMTT(30) DEF RecvCas, TypeOK, RingOK, ring
  <2> QED BY <1>3, <2>2, <2>3, ZenonT(30) DEF RecvCas, TypeOK, CallsOK, chans, local, log
<1>4. CASE RecvRead(r)
  <2>1. PcOK'
    BY <1>4, GotoPcOK, ZenonT(30) DEF TypeOK, RecvPcs, RecvRead, Goto
  <2>2. val[mask(pos[r])] \in Items \cup {Nil}
    <3>1. pos[r] \in Int /\ RingOK
      BY SMT, SMTT(30) DEF TypeOK, CallsOK
    <3>2. mask(pos[r]) \in 0..capacity - 1
      BY <3>1, MaskType, ZenonT(30)
    <3> QED BY <3>1, <3>2, ZenonT(30) DEF RingOK
  <2>3. RingOK'
    <3>1. val' \in [0..capacity - 1 -> Items \cup {Nil}]
      BY <1>4, ZenonT(30) DEF RecvRead, TypeOK, RingOK
    <3> QED BY <1>4, <3>1, ZenonT(30) DEF RecvRead, TypeOK, RingOK, ends
  <2>4. value' \in [Receivers -> Items \cup {Nil}]
    BY <1>4, <2>2, ZenonT(30) DEF RecvRead, TypeOK, CallsOK
  <2> QED BY <1>4, <2>1, <2>3, <2>4, ZenonT(30) DEF RecvRead, TypeOK, CallsOK, chans, log
<1>5. CASE RecvRecycle(r)
  <2>1. PcOK'
    BY <1>5, GotoPcOK, ZenonT(30) DEF TypeOK, RecvPcs, RecvRecycle, Goto
  <2>2. seq' \in [0..capacity - 1 -> Int]
    <3>1. seq' = [seq EXCEPT ![mask(pos[r])] = pos[r] + capacity]
      BY <1>5, ZenonT(30) DEF RecvRecycle
    <3>2. seq \in [0..capacity - 1 -> Int] /\ pos[r] + capacity \in Int
      BY SMT, SMTT(30) DEF TypeOK, RingOK, CallsOK
    <3> QED BY <3>1, <3>2, ZenonT(30)
  <2>3. RingOK'
    BY <1>5, <2>2, ZenonT(30) DEF RecvRecycle, TypeOK, RingOK, ends
  <2> QED BY <1>5, <2>1, <2>3, ZenonT(30) DEF RecvRecycle, TypeOK, CallsOK, chans, local, log
<1>6. CASE RecvSignal(r)
  <2>1. AfterRecv(r) \in RecvPcs
    BY ZenonT(30) DEF AfterRecv, RecvPcs
  <2>2. PcOK'
    <3>1. CASE pc' = [pc EXCEPT ![r] = AfterRecv(r)]
      BY <2>1, <3>1, GotoPcOK, ZenonT(30) DEF TypeOK
    <3>2. CASE \E s \in Senders : pc' = [pc EXCEPT ![r] = AfterRecv(r), ![s] = "sRelock"]
      BY <2>1, <3>2, SMT, SMTT(30) DEF TypeOK, PcOK, SendPcs, Threads
    <3> QED BY <1>6, <3>1, <3>2, ZenonT(30) DEF RecvSignal
  <2>3. full' \in BOOLEAN
    BY <1>6, ZenonT(30) DEF RecvSignal, TypeOK, CallsOK
  <2>4. /\ got' \in [Receivers -> Seq(Items \cup {Nil})]
        /\ value' \in [Receivers -> Items \cup {Nil}]
    BY <1>6, SMT, SMTT(30) DEF RecvSignal, TypeOK, CallsOK
  <2>5. RingOK'
    BY <1>6, ZenonT(30) DEF RecvSignal, TypeOK, RingOK, ring, ends
  <2> QED BY <1>6, <2>2, <2>3, <2>4, <2>5, ZenonT(30) DEF RecvSignal, TypeOK, CallsOK
<1>7. CASE RecvPark(r)
  <2>1. PICK to \in {"rRelock", "rWait"} : pc' = [pc EXCEPT ![r] = to]
    BY <1>7, ZenonT(30) DEF RecvPark, Goto
  <2>2. PcOK'
    BY <2>1, GotoPcOK, ZenonT(30) DEF TypeOK, RecvPcs
  <2>3. RingOK'
    BY <1>7, ZenonT(30) DEF RecvPark, TypeOK, RingOK, ring, ends
  <2>4. empty' \in BOOLEAN
    BY <1>7, ZenonT(30) DEF RecvPark, TypeOK, CallsOK
  <2> QED BY <1>7, <2>2, <2>3, <2>4, ZenonT(30) DEF RecvPark, TypeOK, CallsOK, local, log
<1> QED BY <1>1, <1>2, <1>3, <1>4, <1>5, <1>6, <1>7, ZenonT(30) DEF RecvStep

(* Close, Grow and a cancellation keep the types.                          *)
LEMMA OtherTypeOK ==
  ASSUME QueueAssumption, TypeOK, Window,
         \/ \E t \in Closers : Close(t)
         \/ \E t \in Growers : Grow(t)
         \/ \E t \in load.cancels : Cancel(t)
  PROVE  TypeOK'
<1> USE Disjoint
<1>1. ASSUME NEW t \in Closers, Close(t)
      PROVE  TypeOK'
  <2>1. PcOK'
    BY <1>1, GotoPcOK, ZenonT(30) DEF TypeOK, Close, Goto
  <2>2. done' \in BOOLEAN
    BY <1>1, ZenonT(30) DEF Close
  <2> QED BY <1>1, <2>1, <2>2, ZenonT(30) DEF Close, TypeOK, RingOK, CallsOK, ends, chans, local, log
<1>2. ASSUME NEW t \in Growers, Grow(t)
      PROVE  TypeOK'
  <2>1. PcOK'
    BY <1>2, GotoPcOK, ZenonT(30) DEF TypeOK, Grow, Goto
  <2>2. RingOK'
    BY <1>2, ExtendRingOK, ZenonT(30) DEF Grow, TypeOK, QueueAssumption
  <2> QED BY <1>2, <2>1, <2>2, ZenonT(30) DEF Grow, TypeOK, CallsOK, chans, local, log
<1>3. ASSUME NEW t \in load.cancels, Cancel(t)
      PROVE  TypeOK'
  <2>1. t \in Threads
    BY LoadType, ZenonT(30) DEF TypeOK, RingOK
  <2> QED BY <1>3, <2>1, ZenonT(30)
          DEF Cancel, TypeOK, PcOK, RingOK, CallsOK, ring, ends, chans, local, log
<1> QED BY <1>1, <1>2, <1>3, ZenonT(30)

-----------------------------------------------------------------------------
(* Different positions less than c apart have different remainders.        *)
LEMMA ModInjective ==
  ASSUME NEW c \in Nat, c > 0, NEW p \in Int, NEW q \in Int, p < q, q - p < c
  PROVE  p % c # q % c
<1> SUFFICES ASSUME p % c = q % c
             PROVE  FALSE
  BY ZenonT(30)
<1> DEFINE a == p \div c
           b == q \div c
           m == p % c
           d == b - a
<1>1. a \in Int /\ b \in Int /\ m \in Int
  BY SMT, SMTT(30)
<1>2. p = c * a + m /\ q = c * b + m
  BY SMT, SMTT(30)
<1> HIDE DEF a, b, m
<1>3. q - p = c * d
  BY <1>1, <1>2, SMT, SMTT(30)
<1>4. d \in Int /\ c * d > 0 /\ c * d < c
  BY <1>1, <1>2, <1>3, SMT, SMTT(30)
<1> HIDE DEF d
<1>5. CASE d <= 0
  BY <1>4, <1>5, SMT, SMTT(30)
<1>6. CASE d >= 1
  BY <1>4, <1>6, SMT, SMTT(30)
<1> QED BY <1>4, <1>5, <1>6, SMT, SMTT(30)

(* Positions less than one lap apart that share a slot are the same.       *)
LEMMA MaskInjective ==
  ASSUME RingOK, NEW p \in Int, NEW q \in Int, mask(p) = mask(q),
         p - q < capacity, q - p < capacity
  PROVE  p = q
<1>1. capacity \in Nat /\ capacity > 0 /\ p % capacity = q % capacity
  BY SMT, SMTT(30) DEF RingOK, mask
<1>2. ~(p < q)
  BY <1>1, ModInjective, ZenonT(30)
<1>3. ~(q < p)
  BY <1>1, ModInjective, ZenonT(30)
<1> QED BY <1>2, <1>3, SMT, SMTT(30)

(* A position and the one a lap later share a slot.                        *)
LEMMA MaskWraps ==
  ASSUME RingOK, NEW p \in Int
  PROVE  mask(p + capacity) = mask(p)
<1> DEFINE c == capacity
           a == p \div c
           m == p % c
           b == (p + c) \div c
           n == (p + c) % c
           d == b - a - 1
<1>0. c \in Nat /\ c > 0
  BY SMT, SMTT(30) DEF RingOK
<1> HIDE DEF c
<1>1. a \in Int /\ b \in Int /\ m \in 0..c - 1 /\ n \in 0..c - 1
  BY <1>0, SMT, SMTT(30)
<1>2. p = c * a + m /\ p + c = c * b + n
  BY <1>0, SMT, SMTT(30)
<1> HIDE DEF a, b, m, n
<1>3. d \in Int /\ c * d = m - n
  BY <1>0, <1>1, <1>2, SMT, SMTT(30)
<1>4. c * d < c /\ -c < c * d
  BY <1>0, <1>1, <1>3, SMT, SMTT(30)
<1> HIDE DEF d
<1>5. d = 0
  <2>1. CASE d >= 1
    BY <1>0, <1>3, <1>4, <2>1, SMT, SMTT(30)
  <2>2. CASE d <= -1
    BY <1>0, <1>3, <1>4, <2>2, SMT, SMTT(30)
  <2> QED BY <1>3, <2>1, <2>2, SMT, SMTT(30)
<1>6. m = n
  BY <1>0, <1>1, <1>3, <1>5, SMT, SMTT(30)
<1> QED BY <1>6, ZenonT(30) DEF mask, m, n, c

(* A step that changes neither the sequence numbers nor the owners of      *)
(* slots keeps the window and the slots as described.                      *)
LEMMA CalmRing ==
  ASSUME RingOK, Window, Slots, UNCHANGED <<seq, capacity, head, tail>>,
         \A s \in Senders : (Owner(s)' <=> Owner(s)) /\ (Owner(s) => pos'[s] = pos[s]),
         \A r \in Receivers : (Taker(r)' <=> Taker(r)) /\ (Taker(r) => pos'[r] = pos[r])
  PROVE  Window' /\ Slots'
<1>1. Window'
  BY ZenonT(30) DEF Window
<1>2. Slots'
  BY ZenonT(30) DEF Slots, mask
<1> QED BY <1>1, <1>2, ZenonT(30)

(* No two goroutines own one slot, and none is read while it is written.   *)
LEMMA SlotsExclusive ==
  ASSUME TypeOK, Window, QueueAssumption
  PROVE  /\ \A s, q \in Senders : Owner(s) /\ Owner(q) /\ mask(pos[s]) = mask(pos[q]) => s = q
         /\ \A r, q \in Receivers : Taker(r) /\ Taker(q) /\ mask(pos[r]) = mask(pos[q]) => r = q
         /\ \A s \in Senders, r \in Receivers :
              Owner(s) /\ Taker(r) => mask(pos[s]) # mask(pos[r])
<1> USE Disjoint
<1>0. RingOK /\ \A t \in Threads : pos[t] \in Int
  BY SMT, SMTT(30) DEF TypeOK, CallsOK
<1>1. ASSUME NEW s \in Senders, NEW q \in Senders, Owner(s), Owner(q),
             mask(pos[s]) = mask(pos[q])
      PROVE  s = q
  <2>1. pos[s] - pos[q] < capacity /\ pos[q] - pos[s] < capacity
    BY <1>0, <1>1, SMT, SMTT(30) DEF Window, RingOK
  <2>2. pos[s] = pos[q]
    BY <1>0, <1>1, <2>1, MaskInjective, ZenonT(30)
  <2> QED BY <1>1, <2>2, ZenonT(30) DEF Window
<1>2. ASSUME NEW r \in Receivers, NEW q \in Receivers, Taker(r), Taker(q),
             mask(pos[r]) = mask(pos[q])
      PROVE  r = q
  <2>1. pos[r] - pos[q] < capacity /\ pos[q] - pos[r] < capacity
    BY <1>0, <1>2, SMT, SMTT(30) DEF Window, RingOK
  <2>2. pos[r] = pos[q]
    BY <1>0, <1>2, <2>1, MaskInjective, ZenonT(30)
  <2> QED BY <1>2, <2>2, ZenonT(30) DEF Window
<1>3. ASSUME NEW s \in Senders, NEW r \in Receivers, Owner(s), Taker(r),
             mask(pos[s]) = mask(pos[r])
      PROVE  FALSE
  <2>1. pos[s] - pos[r] < capacity /\ pos[r] - pos[s] < capacity /\ pos[r] < pos[s]
    BY <1>0, <1>3, SMT, SMTT(30) DEF Window, RingOK
  <2> QED BY <1>0, <1>3, <2>1, MaskInjective, SMT, SMTT(30)
<1> QED BY <1>1, <1>2, <1>3, ZenonT(30)

(* The steps of Send that claim and publish nothing keep RingInv.          *)
LEMMA SendCalmRing ==
  ASSUME QueueAssumption, TypeOK, RingInv, NEW s \in Senders,
         \/ SendBegin(s) \/ SendLoop(s) \/ SendWrite(s) \/ SendSignal(s)
         \/ SendReload(s) \/ SendPark(s) \/ SendRelock(s)
         \/ SendCas(s) /\ head # pos[s]
  PROVE  RingInv'
<1> USE Disjoint DEF RingInv
<1>0. /\ capacity \in Nat /\ head \in Nat /\ tail \in Nat /\ RingOK
      /\ pos \in [Threads -> Nat] /\ pc = [t \in Threads |-> pc[t]]
      /\ sending \in [Senders -> Nat \ {0}] /\ outcome \in [Senders -> Seq(BOOLEAN)]
      /\ \A q \in Senders : pc[q] \in SendPcs
      /\ \A r \in Receivers : pc[r] \in RecvPcs
  BY ZenonT(30) DEF TypeOK, PcOK, RingOK, CallsOK
<1>1. ASSUME NEW w, w = s \/ (w \in Receivers /\ pc[w] = "rWait"),
             NEW ok \in BOOLEAN, Return(s, ok, w), pos' = pos, ~Owner(s),
             UNCHANGED <<seq, val, load, capacity, done, head, tail>>, pc[s] # "sEnd"
      PROVE  RingInv'
  <2>1. /\ \A q \in Senders : (Owner(q)' <=> Owner(q)) /\ (Owner(q) => pos'[q] = pos[q])
        /\ \A r \in Receivers : (Taker(r)' <=> Taker(r)) /\ (Taker(r) => pos'[r] = pos[r])
    BY <1>0, <1>1, ZenonT(30) DEF Return, Owner, Taker
  <2>2. Window' /\ Slots'
    BY <1>0, <1>1, <2>1, CalmRing, ZenonT(30)
  <2>3. Claims'
    BY <1>0, <1>1, ZenonT(30) DEF Return, Claims, mask
  <2>4. Open'
    <3>1. load.calls[s] \in Nat /\ load' = load
      BY <1>1, LoadType, ZenonT(30) DEF TypeOK, RingOK
    <3>2. /\ pc'[s] = IF ok /\ sending[s] < load.calls[s] THEN "sStart" ELSE "sEnd"
          /\ sending'[s] = sending[s] + 1
          /\ outcome'[s] = Append(outcome[s], ok)
      BY <1>0, <1>1, ZenonT(30) DEF Return
    <3>3. /\ pc'[s] \notin {"sCas", "sWrite", "sPublish", "sSignal", "sReload"}
          /\ pc'[s] # "sEnd" => sending'[s] <= load.calls[s]
      BY <1>0, <3>1, <3>2, SMT, SMTT(30)
    <3>4. sending'[s] = Len(outcome'[s]) + 1
      <4>1. sending[s] = Len(outcome[s]) + 1 /\ outcome[s] \in Seq(BOOLEAN)
        BY <1>0, ZenonT(30) DEF Open
      <4> QED BY <3>2, <4>1, SMT, SMTT(30)
    <3>5. \A q \in Senders : q # s => /\ pc'[q] = pc[q]
                                      /\ sending'[q] = sending[q]
                                      /\ outcome'[q] = outcome[q]
      BY <1>0, <1>1, ZenonT(30) DEF Return
    <3> QED BY <1>1, <3>1, <3>3, <3>4, <3>5, ZenonT(30) DEF Open
  <2>5. Contents'
    BY <1>0, <1>1, ZenonT(30) DEF Return, Contents, mask, Item
  <2> QED BY <2>2, <2>3, <2>4, <2>5, ZenonT(30)
<1>2. ASSUME NEW to \in SendPcs, pc' = [pc EXCEPT ![s] = to], ~Owner(s), pc[s] # "sEnd",
             to \notin {"sWrite", "sPublish", "sSignal"},
             to = "sCas" => seq[mask(pos[s])] = pos[s] /\ pos' = pos,
             to \in {"sCas", "sReload"} => ~done,
             \/ pos' = [pos EXCEPT ![s] = head]
             \/ pos' = pos /\ (to \in {"sLoop", "sCas", "sReload"} => pos[s] <= head),
             UNCHANGED <<seq, val, load, capacity, done, head, tail, sending, outcome>>
      PROVE  RingInv'
  <2>1. /\ \A q \in Senders : (Owner(q)' <=> Owner(q)) /\ (Owner(q) => pos'[q] = pos[q])
        /\ \A r \in Receivers : (Taker(r)' <=> Taker(r)) /\ (Taker(r) => pos'[r] = pos[r])
    BY <1>0, <1>2, ZenonT(30) DEF Owner, Taker
  <2>2. Window' /\ Slots'
    BY <1>0, <1>2, <2>1, CalmRing, ZenonT(30)
  <2>3. Claims'
    <3>1. \A q \in Senders \cup Receivers : q # s => pc'[q] = pc[q] /\ pos'[q] = pos[q]
      BY <1>0, <1>2, ZenonT(30)
    <3>2. pc'[s] = to /\ pos'[s] \in Nat /\ (to \in {"sLoop", "sCas", "sReload"} => pos'[s] <= head)
      BY <1>0, <1>2, SMT, SMTT(30)
    <3> QED BY <1>0, <1>2, <3>1, <3>2, ZenonT(30) DEF Claims, mask
  <2>4. Open'
    BY <1>0, <1>2, ZenonT(30) DEF Open
  <2>5. Contents'
    BY <1>0, <1>2, ZenonT(30) DEF Contents, mask, Item
  <2> QED BY <2>2, <2>3, <2>4, <2>5, ZenonT(30)
<1>3. CASE SendBegin(s)
  <2>1. CASE Return(s, FALSE, s) /\ UNCHANGED pos
    BY <1>1, <1>3, <2>1, ZenonT(30) DEF SendBegin, Owner, ring, ends
  <2>2. CASE pos' = [pos EXCEPT ![s] = head] /\ pc' = [pc EXCEPT ![s] = "sLoop"] /\ UNCHANGED log
    BY <1>2, <1>3, <2>2, ZenonT(30) DEF SendBegin, Owner, ring, ends, log, SendPcs
  <2> QED BY <1>3, <2>1, <2>2, ZenonT(30) DEF SendBegin
<1>4. CASE SendLoop(s)
  <2>1. CASE Return(s, FALSE, s)
    BY <1>1, <1>4, <2>1, ZenonT(30) DEF SendLoop, Owner, ring, ends
  <2> DEFINE diff == seq[mask(pos[s])] - pos[s]
             busy == IF load.extensions < 0 \/ extended < load.extensions THEN "sLock" ELSE "sPark"
  <2>2. CASE /\ ~done /\ UNCHANGED log
             /\ pc' = [pc EXCEPT ![s] = IF diff = 0 THEN "sCas"
                                        ELSE IF diff < 0 THEN busy ELSE "sReload"]
    <3>0. pos[s] <= head /\ pos[s] \in Int /\ seq[mask(pos[s])] \in Int
      <4>0. pc[s] = "sLoop"
        BY <1>4, ZenonT(30) DEF SendLoop
      <4>1. pos[s] <= head /\ pos[s] \in Int
        <5>1. pos[s] \in Int
          BY <1>0, SMT, SMTT(30)
        <5>2. \A q \in Senders : pc[q] \in {"sLoop", "sCas", "sReload"} => pos[q] <= head
          BY ZenonT(30) DEF Claims
        <5> QED BY <4>0, <5>1, <5>2, ZenonT(30)
      <4>2. mask(pos[s]) \in 0..capacity - 1
        BY <1>0, <4>1, MaskType, ZenonT(30)
      <4> QED BY <1>0, <4>1, <4>2, ZenonT(30) DEF RingOK
    <3>1. PICK to \in SendPcs :
            /\ pc' = [pc EXCEPT ![s] = to]
            /\ to \notin {"sWrite", "sPublish", "sSignal"}
            /\ to = "sCas" => seq[mask(pos[s])] = pos[s]
      <4>1. diff = 0 => seq[mask(pos[s])] = pos[s]
        BY <3>0, SMT, SMTT(30)
      <4>2. busy \in {"sLock", "sPark"}
        BY ZenonT(30)
      <4> HIDE DEF diff, busy
      <4> QED BY <2>2, <4>1, <4>2, ZenonT(30) DEF SendPcs
    <3> QED BY <1>2, <1>4, <2>2, <3>0, <3>1, ZenonT(30) DEF SendLoop, Owner, ring, ends, log
  <2> QED BY <1>4, <2>1, <2>2, ZenonT(30) DEF SendLoop
<1>5. CASE SendWrite(s)
  <2>0. Owner(s) /\ pos' = pos /\ pc' = [pc EXCEPT ![s] = "sPublish"] /\ pc[s] = "sWrite"
    BY <1>5, ZenonT(30) DEF SendWrite, Goto, Owner, local
  <2>1. /\ \A q \in Senders : (Owner(q)' <=> Owner(q)) /\ (Owner(q) => pos'[q] = pos[q])
        /\ \A r \in Receivers : (Taker(r)' <=> Taker(r)) /\ (Taker(r) => pos'[r] = pos[r])
    BY <1>0, <2>0, ZenonT(30) DEF Owner, Taker
  <2>2. Window' /\ Slots'
    BY <1>0, <1>5, <2>1, CalmRing, ZenonT(30) DEF SendWrite, ends
  <2>3. Claims'
    BY <1>0, <1>5, <2>0, ZenonT(30) DEF SendWrite, Claims, mask, ends
  <2>4. Open'
    BY <1>0, <1>5, <2>0, ZenonT(30) DEF SendWrite, Open, log
  <2>5. Contents'
    <3>1. val' = [val EXCEPT ![mask(pos[s])] = Item(s)] /\ UNCHANGED <<capacity, sending>>
      BY <1>5, ZenonT(30) DEF SendWrite, log
    <3>2. \A q \in Senders : mask(pos[q])' = mask(pos[q]) /\ Item(q)' = Item(q)
      BY <2>0, <3>1, ZenonT(30) DEF mask, Item
    <3>3. val'[mask(pos[s])] = Item(s)
      BY <1>0, <3>1, MaskType, SMT, SMTT(30) DEF RingOK
    <3>4. ASSUME NEW q \in Senders, q # s, pc'[q] = "sPublish"
          PROVE  val'[mask(pos[q])] = Item(q)
      <4>1. pc[q] = "sPublish" /\ Owner(q)
        BY <1>0, <2>0, <3>4, ZenonT(30) DEF Owner
      <4>2. mask(pos[q]) # mask(pos[s])
        BY <2>0, <3>4, <4>1, SlotsExclusive, ZenonT(30)
      <4>3. mask(pos[q]) \in 0..capacity - 1
        BY <1>0, MaskType, SMT, SMTT(30)
      <4>4. val'[mask(pos[q])] = val[mask(pos[q])]
        BY <1>0, <3>1, <4>2, <4>3, ZenonT(30) DEF RingOK
      <4> QED BY <4>1, <4>4, ZenonT(30) DEF Contents
    <3> QED BY <3>2, <3>3, <3>4, ZenonT(30) DEF Contents
  <2> QED BY <2>2, <2>3, <2>4, <2>5, ZenonT(30)
<1>6. CASE SendSignal(s)
  <2>1. PICK w : (w = s \/ (w \in Receivers /\ pc[w] = "rWait")) /\ Return(s, TRUE, w)
    BY <1>6, ZenonT(30) DEF SendSignal
  <2> QED BY <1>1, <1>6, <2>1, ZenonT(30) DEF SendSignal, Owner, ring, ends, local
<1>7. CASE SendReload(s) \/ SendRelock(s)
  BY <1>2, <1>7, ZenonT(30) DEF SendReload, SendRelock, Goto, Owner, ring, ends, log, SendPcs
<1>8. CASE SendPark(s)
  <2>1. PICK to \in {"sRelock", "sWait"} :
          pc' = [pc EXCEPT ![s] = to] /\ pc[s] \in {"sPark", "sWait"}
    BY <1>8, ZenonT(30) DEF SendPark, Goto
  <2> QED BY <1>2, <1>8, <2>1, ZenonT(30) DEF SendPark, Owner, ring, ends, log, local, SendPcs
<1>9. CASE SendCas(s) /\ head # pos[s]
  <2>1. pos[s] <= head
    BY <1>9, ZenonT(30) DEF SendCas, Goto, Claims
  <2> QED BY <1>2, <1>9, <2>1, ZenonT(30) DEF SendCas, Goto, Owner, ring, log, local, SendPcs
<1> QED BY <1>3, <1>4, <1>5, <1>6, <1>7, <1>8, <1>9, ZenonT(30)

(* A compare-and-swap of the head that succeeds found room in the ring:    *)
(* the slot has been recycled, and its position enters the window owned.   *)
LEMMA SendCasRing ==
  ASSUME QueueAssumption, TypeOK, RingInv, NEW s \in Senders, SendCas(s), head = pos[s]
  PROVE  /\ RingInv'
         /\ pc[s] = "sCas" /\ pc' = [pc EXCEPT ![s] = "sWrite"]
         /\ head' = head + 1 /\ head < tail + capacity
         /\ UNCHANGED <<ring, tail, chans, local, log, cancelled>>
<1> USE Disjoint DEF RingInv
<1>0. /\ capacity \in Nat /\ capacity >= 2 /\ head \in Nat /\ tail \in Nat /\ RingOK
      /\ pos \in [Threads -> Nat] /\ pc = [t \in Threads |-> pc[t]]
  BY ZenonT(30) DEF TypeOK, PcOK, RingOK, CallsOK
<1>1. /\ pc[s] = "sCas" /\ pc' = [pc EXCEPT ![s] = "sWrite"] /\ head' = head + 1
      /\ UNCHANGED <<seq, val, capacity, tail, pos, done, load, sending, outcome>>
  BY ZenonT(30) DEF SendCas, Goto, ring, local, log
<1>2. seq[mask(head)] = head
  BY <1>1, ZenonT(30) DEF Claims
<1>3. head < tail + capacity
  <2> SUFFICES ASSUME head = tail + capacity
               PROVE  FALSE
    BY <1>0, SMT, SMTT(30) DEF Window
  <2>1. seq[mask(tail)] = head
    BY <1>0, <1>2, MaskWraps, SMT, SMTT(30)
  <2>2. seq[mask(tail)] \in {tail, tail + 1}
    BY <1>0, SMT, SMTT(30) DEF Slots
  <2> QED BY <1>0, <2>1, <2>2, SMT, SMTT(30)
<1>4. \A r \in Receivers : Taker(r) => pos[r] # head - capacity
  <2> SUFFICES ASSUME NEW r \in Receivers, Taker(r), pos[r] = head - capacity
               PROVE  FALSE
    BY ZenonT(30)
  <2>1. mask(pos[r] + capacity) = mask(pos[r]) /\ pos[r] + capacity = head
    BY <1>0, MaskWraps, SMT, SMTT(30)
  <2>2. seq[mask(head)] = pos[r] + 1
    BY <2>1, ZenonT(30) DEF Slots
  <2> QED BY <1>0, <1>2, <2>1, <2>2, SMT, SMTT(30)
<1>5. /\ \A q \in Senders : Owner(q)' <=> Owner(q) \/ q = s
      /\ \A r \in Receivers : Taker(r)' <=> Taker(r)
      /\ ~Owner(s)
  BY <1>0, <1>1, ZenonT(30) DEF Owner, Taker
<1>6. Window'
  BY <1>0, <1>1, <1>3, <1>4, <1>5, SMT, SMTT(30) DEF Window
<1>7. Slots'
  <2>1. \A q \in Senders : Owner(q)' => seq'[mask(pos[q])'] = pos'[q]
    BY <1>0, <1>1, <1>2, <1>5, ZenonT(30) DEF Slots, mask
  <2>2. \A r \in Receivers : Taker(r)' => seq'[mask(pos[r])'] = pos'[r] + 1
    BY <1>0, <1>1, <1>5, ZenonT(30) DEF Slots, mask
  <2>3. ASSUME NEW p \in Int, tail <= p, p < head + 1,
               \A q \in Senders : Owner(q)' => pos[q] # p
        PROVE  seq[mask(p)] = p + 1
    <3>1. p # head
      BY <1>5, <2>3, ZenonT(30)
    <3> QED BY <1>0, <1>5, <2>3, <3>1, SMT, SMTT(30) DEF Slots
  <2>4. ASSUME NEW p \in Int, head + 1 <= p, p < tail + capacity,
               \A r \in Receivers : Taker(r)' => pos[r] # p - capacity
        PROVE  seq[mask(p)] = p
    BY <1>0, <1>5, <2>4, SMT, SMTT(30) DEF Slots
  <2> QED BY <1>1, <2>1, <2>2, <2>3, <2>4, ZenonT(30) DEF Slots, mask
<1>8. Claims'
  BY <1>0, <1>1, SMT, SMTT(30) DEF Claims, mask
<1>9. Open'
  BY <1>0, <1>1, ZenonT(30) DEF Open
<1>10. Contents'
  BY <1>0, <1>1, ZenonT(30) DEF Contents, mask, Item
<1> QED BY <1>1, <1>3, <1>6, <1>7, <1>8, <1>9, <1>10, ZenonT(30) DEF SendCas

(* Storing the sequence number makes the slot ready, and disturbs no       *)
(* other.                                                                  *)
LEMMA SendPublishRing ==
  ASSUME QueueAssumption, TypeOK, RingInv, NEW s \in Senders, SendPublish(s)
  PROVE  RingInv'
<1> USE Disjoint DEF RingInv
<1>0. /\ capacity \in Nat /\ capacity >= 2 /\ head \in Nat /\ tail \in Nat /\ RingOK
      /\ pos \in [Threads -> Nat] /\ pc = [t \in Threads |-> pc[t]]
      /\ \A p \in Int : mask(p) \in 0..capacity - 1
  BY MaskType, ZenonT(30) DEF TypeOK, PcOK, RingOK, CallsOK
<1>1. /\ pc[s] = "sPublish" /\ pc' = [pc EXCEPT ![s] = "sSignal"] /\ Owner(s)
      /\ UNCHANGED <<val, capacity, head, tail, pos, done, load, sending, outcome>>
      /\ \A p \in Int : mask(p)' = mask(p)
  BY ZenonT(30) DEF SendPublish, Goto, local, log, ends, Owner, mask
<1>2. /\ seq'[mask(pos[s])] = pos[s] + 1 /\ seq[mask(pos[s])] = pos[s]
      /\ \A p \in Int : mask(p) # mask(pos[s]) => seq'[mask(p)] = seq[mask(p)]
  <2>1. seq' = [seq EXCEPT ![mask(pos[s])] = pos[s] + 1] /\ seq \in [0..capacity - 1 -> Int]
    BY ZenonT(30) DEF SendPublish, TypeOK, RingOK
  <2>2. seq[mask(pos[s])] = pos[s]
    BY <1>1, ZenonT(30) DEF Slots
  <2> QED BY <1>0, <2>1, <2>2, SMT, SMTT(30)
<1>3. tail <= pos[s] /\ pos[s] < head /\ head <= tail + capacity
  BY <1>1, ZenonT(30) DEF Window
<1>4. /\ \A q \in Senders : Owner(q)' <=> Owner(q) /\ q # s
      /\ \A r \in Receivers : Taker(r)' <=> Taker(r)
  BY <1>0, <1>1, ZenonT(30) DEF Owner, Taker
<1>5. Window'
  BY <1>0, <1>1, <1>4, ZenonT(30) DEF Window
<1>6. Slots'
  <2>1. ASSUME NEW q \in Senders, Owner(q)'
        PROVE  seq'[mask(pos[q])] = pos[q]
    <3>1. mask(pos[q]) # mask(pos[s])
      BY <1>1, <1>4, <2>1, SlotsExclusive, ZenonT(30)
    <3> QED BY <1>0, <1>2, <1>4, <2>1, <3>1, SMT, SMTT(30) DEF Slots
  <2>2. ASSUME NEW r \in Receivers, Taker(r)'
        PROVE  seq'[mask(pos[r])] = pos[r] + 1
    <3>1. mask(pos[r]) # mask(pos[s])
      BY <1>1, <1>4, <2>2, SlotsExclusive, ZenonT(30)
    <3> QED BY <1>0, <1>2, <1>4, <2>2, <3>1, SMT, SMTT(30) DEF Slots
  <2>3. ASSUME NEW p \in Int, tail <= p, p < head,
               \A q \in Senders : Owner(q)' => pos[q] # p
        PROVE  seq'[mask(p)] = p + 1
    <3>1. CASE p = pos[s]
      BY <1>2, <3>1, ZenonT(30)
    <3>2. CASE p # pos[s]
      <4>1. mask(p) # mask(pos[s])
        BY <1>0, <1>3, <2>3, <3>2, MaskInjective, SMT, SMTT(30)
      <4> QED BY <1>2, <1>4, <2>3, <3>2, <4>1, ZenonT(30) DEF Slots
    <3> QED BY <3>1, <3>2, ZenonT(30)
  <2>4. ASSUME NEW p \in Int, head <= p, p < tail + capacity,
               \A r \in Receivers : Taker(r)' => pos[r] # p - capacity
        PROVE  seq'[mask(p)] = p
    <3>1. mask(p) # mask(pos[s])
      BY <1>0, <1>3, <2>4, MaskInjective, SMT, SMTT(30)
    <3> QED BY <1>2, <1>4, <2>4, <3>1, ZenonT(30) DEF Slots
  <2> QED BY <1>0, <1>1, <2>1, <2>2, <2>3, <2>4, SMT, SMTT(30) DEF Slots
<1>7. Claims'
  <2>1. ASSUME NEW q \in Senders, pc'[q] = "sCas", pos[q] = head
        PROVE  seq'[mask(pos[q])] = pos[q]
    <3>1. seq[mask(pos[q])] = pos[q]
      BY <1>0, <1>1, <2>1, ZenonT(30) DEF Claims
    <3>2. mask(pos[q]) # mask(pos[s])
      BY <1>0, <1>2, <1>3, <2>1, <3>1, SMT, SMTT(30)
    <3> QED BY <1>0, <1>2, <3>1, <3>2, SMT, SMTT(30)
  <2>2. ASSUME NEW r \in Receivers, pc'[r] = "rCas", pos[r] = tail
        PROVE  seq'[mask(pos[r])] = pos[r] + 1
    <3>1. seq[mask(pos[r])] = pos[r] + 1
      BY <1>0, <1>1, <2>2, ZenonT(30) DEF Claims
    <3>2. mask(pos[r]) # mask(pos[s])
      BY <1>0, <1>2, <1>3, <2>2, <3>1, MaskInjective, SMT, SMTT(30)
    <3> QED BY <1>0, <1>2, <3>1, <3>2, SMT, SMTT(30)
  <2>3. /\ \A q \in Senders : pc'[q] \in {"sLoop", "sCas", "sReload"} => pos[q] <= head
        /\ \A r \in Receivers : pc'[r] \in {"rLoop", "rCas", "rReload"} => pos[r] <= tail
    BY <1>0, <1>1, ZenonT(30) DEF Claims
  <2> QED BY <1>0, <1>1, <2>1, <2>2, <2>3, SMT, SMTT(30) DEF Claims
<1>8. Open'
  BY <1>0, <1>1, ZenonT(30) DEF Open
<1>9. Contents'
  BY <1>0, <1>1, ZenonT(30) DEF Contents, mask, Item
<1> QED BY <1>5, <1>6, <1>7, <1>8, <1>9, ZenonT(30)

(* The steps of Recv that claim and recycle nothing keep RingInv.          *)
LEMMA RecvCalmRing ==
  ASSUME QueueAssumption, TypeOK, RingInv, NEW r \in Receivers,
         \/ RecvBegin(r) \/ RecvLoop(r) \/ RecvRead(r) \/ RecvSignal(r)
         \/ RecvReload(r) \/ RecvPark(r) \/ RecvRelock(r)
         \/ RecvCas(r) /\ tail # pos[r]
  PROVE  RingInv'
<1> USE Disjoint DEF RingInv
<1>0. /\ capacity \in Nat /\ head \in Nat /\ tail \in Nat /\ RingOK
      /\ pos \in [Threads -> Nat] /\ pc = [t \in Threads |-> pc[t]]
      /\ \A q \in Senders : pc[q] \in SendPcs
      /\ \A q \in Receivers : pc[q] \in RecvPcs
  BY ZenonT(30) DEF TypeOK, PcOK, RingOK, CallsOK
<1>1. ASSUME NEW to \in RecvPcs, ~Taker(r),
             \/ pc' = [pc EXCEPT ![r] = to]
             \/ \E s \in Senders : pc[s] = "sWait" /\ pc' = [pc EXCEPT ![r] = to, ![s] = "sRelock"],
             to \notin {"rRead", "rRecycle"},
             to = "rCas" => seq[mask(pos[r])] = pos[r] + 1 /\ pos' = pos,
             \/ pos' = [pos EXCEPT ![r] = tail]
             \/ pos' = pos /\ (to \in {"rLoop", "rCas", "rReload"} => pos[r] <= tail),
             UNCHANGED <<seq, val, load, capacity, done, head, tail, sending, outcome>>
      PROVE  RingInv'
  <2>0. /\ \A q \in Receivers : q # r => pc'[q] = pc[q] /\ pos'[q] = pos[q]
        /\ \A s \in Senders : /\ pos'[s] = pos[s]
                              /\ \/ pc'[s] = pc[s]
                                 \/ pc[s] = "sWait" /\ pc'[s] = "sRelock"
        /\ pc'[r] = to
    BY <1>0, <1>1, SMT, SMTT(30)
  <2>1. /\ \A q \in Senders : (Owner(q)' <=> Owner(q)) /\ (Owner(q) => pos'[q] = pos[q])
        /\ \A q \in Receivers : (Taker(q)' <=> Taker(q)) /\ (Taker(q) => pos'[q] = pos[q])
    BY <1>0, <1>1, <2>0, ZenonT(30) DEF Owner, Taker
  <2>2. Window' /\ Slots'
    BY <1>0, <1>1, <2>1, CalmRing, ZenonT(30)
  <2>3. Claims'
    <3>1. pos'[r] \in Nat /\ (to \in {"rLoop", "rCas", "rReload"} => pos'[r] <= tail)
      BY <1>0, <1>1, SMT, SMTT(30)
    <3>2. \A s \in Senders : /\ pc'[s] \in {"sLoop", "sCas", "sReload"} => pos'[s] <= head
                             /\ pc'[s] = "sCas" /\ pos'[s] = head => seq[mask(pos[s])] = pos[s]
      BY <2>0, ZenonT(30) DEF Claims
    <3>3. \A q \in Receivers : pc'[q] \in {"rLoop", "rCas", "rReload"} => pos'[q] <= tail
      BY <2>0, <3>1, ZenonT(30) DEF Claims
    <3>4. \A q \in Receivers : pc'[q] = "rCas" /\ pos'[q] = tail
                               => pos'[q] = pos[q] /\ seq[mask(pos[q])] = pos[q] + 1
      BY <1>1, <2>0, ZenonT(30) DEF Claims
    <3>5. UNCHANGED <<seq, capacity, head, tail>>
      BY <1>1, ZenonT(30)
    <3> QED BY <2>0, <3>2, <3>3, <3>4, <3>5, ZenonT(30) DEF Claims, mask
  <2>4. Open'
    BY <1>0, <1>1, <2>0, ZenonT(30) DEF Open
  <2>5. Contents'
    BY <1>0, <1>1, <2>0, ZenonT(30) DEF Contents, mask, Item
  <2> QED BY <2>2, <2>3, <2>4, <2>5, ZenonT(30)
<1>2. CASE RecvBegin(r) \/ RecvReload(r) \/ RecvRelock(r)
  BY <1>1, <1>2, ZenonT(30) DEF RecvBegin, RecvReload, RecvRelock, Goto, Taker, ring, ends, log, RecvPcs
<1>3. CASE RecvLoop(r)
  <2> DEFINE diff == seq[mask(pos[r])] - (pos[r] + 1)
             none == IF done \/ r \in cancelled THEN "rEnd" ELSE "rPark"
  <2>0. pc[r] = "rLoop" /\ UNCHANGED <<ring, ends, chans, local, log, cancelled>>
    BY <1>3, ZenonT(30) DEF RecvLoop, Goto
  <2>1. pos[r] <= tail /\ pos[r] \in Int /\ seq[mask(pos[r])] \in Int
    <3>1. pos[r] \in Int
      BY <1>0, SMT, SMTT(30)
    <3>2. \A q \in Receivers : pc[q] \in {"rLoop", "rCas", "rReload"} => pos[q] <= tail
      BY ZenonT(30) DEF Claims
    <3>3. mask(pos[r]) \in 0..capacity - 1
      BY <1>0, <3>1, MaskType, ZenonT(30)
    <3> QED BY <1>0, <2>0, <3>1, <3>2, <3>3, ZenonT(30) DEF RingOK
  <2>2. PICK to \in RecvPcs :
          /\ pc' = [pc EXCEPT ![r] = to]
          /\ to \notin {"rRead", "rRecycle"}
          /\ to = "rCas" => seq[mask(pos[r])] = pos[r] + 1
    <3>1. diff = 0 => seq[mask(pos[r])] = pos[r] + 1
      BY <2>1, SMT, SMTT(30)
    <3>2. none \in {"rEnd", "rPark"}
      BY ZenonT(30)
    <3>3. pc' = [pc EXCEPT ![r] = IF diff = 0 THEN "rCas" ELSE IF diff < 0 THEN none ELSE "rReload"]
      BY <1>3, ZenonT(30) DEF RecvLoop, Goto
    <3> HIDE DEF diff, none
    <3> QED BY <3>1, <3>2, <3>3, ZenonT(30) DEF RecvPcs
  <2> QED BY <1>1, <2>0, <2>1, <2>2, ZenonT(30) DEF Taker, ring, ends, log, local
<1>4. CASE RecvRead(r)
  <2>0. /\ Taker(r) /\ pc[r] = "rRead" /\ pc' = [pc EXCEPT ![r] = "rRecycle"]
        /\ UNCHANGED <<seq, capacity, head, tail, pos, done, load, sending, outcome>>
        /\ val' = [val EXCEPT ![mask(pos[r])] = Nil]
    BY <1>4, ZenonT(30) DEF RecvRead, Goto, Taker, log, ends
  <2>1. /\ \A q \in Senders : (Owner(q)' <=> Owner(q)) /\ (Owner(q) => pos'[q] = pos[q])
        /\ \A q \in Receivers : (Taker(q)' <=> Taker(q)) /\ (Taker(q) => pos'[q] = pos[q])
    BY <1>0, <2>0, ZenonT(30) DEF Owner, Taker
  <2>2. Window' /\ Slots'
    BY <1>0, <2>0, <2>1, CalmRing, ZenonT(30)
  <2>3. Claims'
    BY <1>0, <2>0, ZenonT(30) DEF Claims, mask
  <2>4. Open'
    BY <1>0, <2>0, ZenonT(30) DEF Open
  <2>5. Contents'
    <3>1. \A q \in Senders : mask(pos[q])' = mask(pos[q]) /\ Item(q)' = Item(q)
      BY <2>0, ZenonT(30) DEF mask, Item
    <3>2. ASSUME NEW q \in Senders, pc'[q] = "sPublish"
          PROVE  val'[mask(pos[q])] = Item(q)
      <4>1. pc[q] = "sPublish" /\ Owner(q)
        BY <1>0, <2>0, <3>2, ZenonT(30) DEF Owner
      <4>2. mask(pos[q]) # mask(pos[r])
        BY <2>0, <4>1, SlotsExclusive, ZenonT(30)
      <4>3. mask(pos[q]) \in 0..capacity - 1
        BY <1>0, MaskType, SMT, SMTT(30)
      <4>4. val'[mask(pos[q])] = val[mask(pos[q])]
        BY <1>0, <2>0, <4>2, <4>3, ZenonT(30) DEF RingOK
      <4> QED BY <4>1, <4>4, ZenonT(30) DEF Contents
    <3> QED BY <3>1, <3>2, ZenonT(30) DEF Contents
  <2> QED BY <2>2, <2>3, <2>4, <2>5, ZenonT(30)
<1>5. CASE RecvSignal(r)
  <2>1. AfterRecv(r) \in {"rStart", "rEnd"}
    BY ZenonT(30) DEF AfterRecv
  <2> HIDE DEF AfterRecv
  <2>2. /\ \/ pc' = [pc EXCEPT ![r] = AfterRecv(r)]
           \/ \E s \in Senders : pc[s] = "sWait" /\ pc' = [pc EXCEPT ![r] = AfterRecv(r), ![s] = "sRelock"]
        /\ pc[r] = "rSignal"
        /\ UNCHANGED <<ring, ends, pos, sending, outcome>>
    BY <1>5, ZenonT(30) DEF RecvSignal
  <2> QED BY <1>1, <2>1, <2>2, ZenonT(30) DEF Taker, ring, ends, RecvPcs
<1>6. CASE RecvPark(r)
  <2>1. PICK to \in {"rRelock", "rWait"} :
          pc' = [pc EXCEPT ![r] = to] /\ pc[r] \in {"rPark", "rWait"}
    BY <1>6, ZenonT(30) DEF RecvPark, Goto
  <2> QED BY <1>1, <1>6, <2>1, ZenonT(30) DEF RecvPark, Taker, ring, ends, log, local, RecvPcs
<1>7. CASE RecvCas(r) /\ tail # pos[r]
  <2>1. pos[r] <= tail
    BY <1>7, ZenonT(30) DEF RecvCas, Goto, Claims
  <2> QED BY <1>1, <1>7, <2>1, ZenonT(30) DEF RecvCas, Goto, Taker, ring, log, local, RecvPcs
<1> QED BY <1>2, <1>3, <1>4, <1>5, <1>6, <1>7, ZenonT(30)

(* A compare-and-swap of the tail that succeeds found an item that is      *)
(* published.                                                              *)
LEMMA RecvCasRing ==
  ASSUME QueueAssumption, TypeOK, RingInv, NEW r \in Receivers, RecvCas(r), tail = pos[r]
  PROVE  /\ RingInv'
         /\ pc[r] = "rCas" /\ pc' = [pc EXCEPT ![r] = "rRead"]
         /\ tail' = tail + 1 /\ tail < head
         /\ \A s \in Senders : Owner(s) => pos[s] # tail
         /\ UNCHANGED <<ring, head, chans, local, log, cancelled>>
<1> USE Disjoint DEF RingInv
<1>0. /\ capacity \in Nat /\ capacity >= 2 /\ head \in Nat /\ tail \in Nat /\ RingOK
      /\ pos \in [Threads -> Nat] /\ pc = [t \in Threads |-> pc[t]]
  BY ZenonT(30) DEF TypeOK, PcOK, RingOK, CallsOK
<1>1. /\ pc[r] = "rCas" /\ pc' = [pc EXCEPT ![r] = "rRead"] /\ tail' = tail + 1
      /\ UNCHANGED <<seq, val, capacity, head, pos, done, load, sending, outcome>>
  BY ZenonT(30) DEF RecvCas, Goto, ring, local, log
<1>2. seq[mask(tail)] = tail + 1
  BY <1>1, ZenonT(30) DEF Claims
<1>3. tail < head
  <2> SUFFICES ASSUME tail = head
               PROVE  FALSE
    BY <1>0, SMT, SMTT(30) DEF Window
  <2>1. CASE \E q \in Receivers : Taker(q) /\ pos[q] = tail - capacity
    <3>1. PICK q \in Receivers : Taker(q) /\ pos[q] = tail - capacity
      BY <2>1, ZenonT(30)
    <3>2. mask(pos[q] + capacity) = mask(pos[q]) /\ pos[q] + capacity = tail
      BY <1>0, <3>1, MaskWraps, SMT, SMTT(30)
    <3>3. seq[mask(tail)] = pos[q] + 1
      BY <3>1, <3>2, ZenonT(30) DEF Slots
    <3> QED BY <1>0, <1>2, <3>2, <3>3, SMT, SMTT(30)
  <2>2. CASE ~\E q \in Receivers : Taker(q) /\ pos[q] = tail - capacity
    <3>1. seq[mask(tail)] = tail
      BY <1>0, <2>2, SMT, SMTT(30) DEF Slots
    <3> QED BY <1>0, <1>2, <3>1, SMT, SMTT(30)
  <2> QED BY <2>1, <2>2, ZenonT(30)
<1>4. \A s \in Senders : Owner(s) => pos[s] # tail
  <2> SUFFICES ASSUME NEW s \in Senders, Owner(s), pos[s] = tail
               PROVE  FALSE
    BY ZenonT(30)
  <2>1. seq[mask(tail)] = tail
    BY ZenonT(30) DEF Slots
  <2> QED BY <1>0, <1>2, <2>1, SMT, SMTT(30)
<1>5. /\ \A q \in Receivers : Taker(q)' <=> Taker(q) \/ q = r
      /\ \A s \in Senders : Owner(s)' <=> Owner(s)
      /\ ~Taker(r)
  BY <1>0, <1>1, ZenonT(30) DEF Owner, Taker
<1>6. Window'
  BY <1>0, <1>1, <1>3, <1>4, <1>5, SMT, SMTT(30) DEF Window
<1>7. Slots'
  <2>1. \A q \in Receivers : Taker(q)' => seq'[mask(pos[q])'] = pos'[q] + 1
    BY <1>0, <1>1, <1>2, <1>5, ZenonT(30) DEF Slots, mask
  <2>2. \A s \in Senders : Owner(s)' => seq'[mask(pos[s])'] = pos'[s]
    BY <1>0, <1>1, <1>5, ZenonT(30) DEF Slots, mask
  <2>3. ASSUME NEW p \in Int, tail + 1 <= p, p < head,
               \A q \in Senders : Owner(q)' => pos[q] # p
        PROVE  seq[mask(p)] = p + 1
    BY <1>0, <1>5, <2>3, SMT, SMTT(30) DEF Slots
  <2>4. ASSUME NEW p \in Int, head <= p, p < tail + 1 + capacity,
               \A q \in Receivers : Taker(q)' => pos[q] # p - capacity
        PROVE  seq[mask(p)] = p
    <3>1. p # tail + capacity
      BY <1>0, <1>5, <2>4, SMT, SMTT(30)
    <3> QED BY <1>0, <1>5, <2>4, <3>1, SMT, SMTT(30) DEF Slots
  <2> QED BY <1>1, <2>1, <2>2, <2>3, <2>4, ZenonT(30) DEF Slots, mask
<1>8. Claims'
  <2>1. \A q \in Senders \cup Receivers : q # r => pc'[q] = pc[q]
    BY <1>0, <1>1, ZenonT(30)
  <2>2. \A q \in Receivers : pc'[q] \in {"rLoop", "rCas", "rReload"} => pos[q] <= tail
    BY <1>0, <1>1, <2>1, ZenonT(30) DEF Claims
  <2>3. \A q \in Receivers : pos[q] \in Nat
    BY <1>0, ZenonT(30)
  <2>4. \A s \in Senders : /\ pc'[s] \in {"sLoop", "sCas", "sReload"} => pos[s] <= head
                           /\ pc'[s] = "sCas" /\ pos[s] = head => seq[mask(pos[s])] = pos[s]
    BY <2>1, ZenonT(30) DEF Claims
  <2> QED BY <1>0, <1>1, <2>2, <2>3, <2>4, SMT, SMTT(30) DEF Claims, mask
<1>9. Open'
  BY <1>0, <1>1, ZenonT(30) DEF Open
<1>10. Contents'
  BY <1>0, <1>1, ZenonT(30) DEF Contents, mask, Item
<1> QED BY <1>1, <1>3, <1>4, <1>6, <1>7, <1>8, <1>9, <1>10, ZenonT(30) DEF RecvCas

(* Storing the sequence number of the next lap frees the slot, and         *)
(* disturbs no other.                                                      *)
LEMMA RecvRecycleRing ==
  ASSUME QueueAssumption, TypeOK, RingInv, NEW r \in Receivers, RecvRecycle(r)
  PROVE  RingInv'
<1> USE Disjoint DEF RingInv
<1>0. /\ capacity \in Nat /\ capacity >= 2 /\ head \in Nat /\ tail \in Nat /\ RingOK
      /\ pos \in [Threads -> Nat] /\ pc = [t \in Threads |-> pc[t]]
      /\ \A p \in Int : mask(p) \in 0..capacity - 1
  BY MaskType, ZenonT(30) DEF TypeOK, PcOK, RingOK, CallsOK
<1>1. /\ pc[r] = "rRecycle" /\ pc' = [pc EXCEPT ![r] = "rSignal"] /\ Taker(r)
      /\ UNCHANGED <<val, capacity, head, tail, pos, done, load, sending, outcome>>
      /\ \A p \in Int : mask(p)' = mask(p)
  BY ZenonT(30) DEF RecvRecycle, Goto, local, log, ends, Taker, mask
<1>2. /\ seq'[mask(pos[r])] = pos[r] + capacity /\ seq[mask(pos[r])] = pos[r] + 1
      /\ \A p \in Int : mask(p) # mask(pos[r]) => seq'[mask(p)] = seq[mask(p)]
  <2>1. seq' = [seq EXCEPT ![mask(pos[r])] = pos[r] + capacity] /\ seq \in [0..capacity - 1 -> Int]
    BY ZenonT(30) DEF RecvRecycle, TypeOK, RingOK
  <2>2. seq[mask(pos[r])] = pos[r] + 1
    BY <1>1, ZenonT(30) DEF Slots
  <2> QED BY <1>0, <2>1, <2>2, SMT, SMTT(30)
<1>3. head - capacity <= pos[r] /\ pos[r] < tail /\ head <= tail + capacity /\ tail <= head
  BY <1>1, ZenonT(30) DEF Window
<1>4. /\ \A q \in Receivers : Taker(q)' <=> Taker(q) /\ q # r
      /\ \A s \in Senders : Owner(s)' <=> Owner(s)
  BY <1>0, <1>1, ZenonT(30) DEF Owner, Taker
<1>5. Window'
  BY <1>0, <1>1, <1>4, ZenonT(30) DEF Window
<1>6. Slots'
  <2>1. ASSUME NEW s \in Senders, Owner(s)'
        PROVE  seq'[mask(pos[s])] = pos[s]
    <3>1. mask(pos[s]) # mask(pos[r])
      BY <1>1, <1>4, <2>1, SlotsExclusive, ZenonT(30)
    <3> QED BY <1>0, <1>2, <1>4, <2>1, <3>1, SMT, SMTT(30) DEF Slots
  <2>2. ASSUME NEW q \in Receivers, Taker(q)'
        PROVE  seq'[mask(pos[q])] = pos[q] + 1
    <3>1. mask(pos[q]) # mask(pos[r])
      BY <1>1, <1>4, <2>2, SlotsExclusive, ZenonT(30)
    <3> QED BY <1>0, <1>2, <1>4, <2>2, <3>1, SMT, SMTT(30) DEF Slots
  <2>3. ASSUME NEW p \in Int, tail <= p, p < head,
               \A s \in Senders : Owner(s)' => pos[s] # p
        PROVE  seq'[mask(p)] = p + 1
    <3>1. mask(p) # mask(pos[r])
      BY <1>0, <1>3, <2>3, MaskInjective, SMT, SMTT(30)
    <3> QED BY <1>2, <1>4, <2>3, <3>1, ZenonT(30) DEF Slots
  <2>4. ASSUME NEW p \in Int, head <= p, p < tail + capacity,
               \A q \in Receivers : Taker(q)' => pos[q] # p - capacity
        PROVE  seq'[mask(p)] = p
    <3>0. mask(pos[r] + capacity) = mask(pos[r])
      BY <1>0, MaskWraps, SMT, SMTT(30)
    <3>1. CASE p = pos[r] + capacity
      BY <1>2, <3>0, <3>1, ZenonT(30)
    <3>2. CASE p # pos[r] + capacity
      <4>1. mask(p) # mask(pos[r] + capacity)
        BY <1>0, <1>3, <2>4, <3>2, MaskInjective, SMT, SMTT(30)
      <4>2. \A q \in Receivers : Taker(q) => pos[q] # p - capacity
        BY <1>0, <1>4, <2>4, <3>2, SMT, SMTT(30)
      <4> QED BY <1>2, <2>4, <3>0, <4>1, <4>2, ZenonT(30) DEF Slots
    <3> QED BY <3>1, <3>2, ZenonT(30)
  <2> QED BY <1>0, <1>1, <2>1, <2>2, <2>3, <2>4, SMT, SMTT(30) DEF Slots
<1>7. Claims'
  <2>1. ASSUME NEW s \in Senders, pc'[s] = "sCas", pos[s] = head
        PROVE  seq'[mask(pos[s])] = pos[s]
    <3>1. seq[mask(pos[s])] = pos[s]
      BY <1>0, <1>1, <2>1, ZenonT(30) DEF Claims
    <3>2. mask(pos[s]) # mask(pos[r])
      BY <1>0, <1>2, <1>3, <2>1, <3>1, MaskInjective, SMT, SMTT(30)
    <3> QED BY <1>0, <1>2, <3>1, <3>2, SMT, SMTT(30)
  <2>2. ASSUME NEW q \in Receivers, pc'[q] = "rCas", pos[q] = tail
        PROVE  seq'[mask(pos[q])] = pos[q] + 1
    <3>1. seq[mask(pos[q])] = pos[q] + 1
      BY <1>0, <1>1, <2>2, ZenonT(30) DEF Claims
    <3>2. mask(pos[q]) # mask(pos[r])
      BY <1>0, <1>2, <1>3, <2>2, <3>1, SMT, SMTT(30)
    <3> QED BY <1>0, <1>2, <3>1, <3>2, SMT, SMTT(30)
  <2>3. /\ \A s \in Senders : pc'[s] \in {"sLoop", "sCas", "sReload"} => pos[s] <= head
        /\ \A q \in Receivers : pc'[q] \in {"rLoop", "rCas", "rReload"} => pos[q] <= tail
    BY <1>0, <1>1, ZenonT(30) DEF Claims
  <2> QED BY <1>0, <1>1, <2>1, <2>2, <2>3, SMT, SMTT(30) DEF Claims
<1>8. Open'
  BY <1>0, <1>1, ZenonT(30) DEF Open
<1>9. Contents'
  BY <1>0, <1>1, ZenonT(30) DEF Contents, mask, Item
<1> QED BY <1>5, <1>6, <1>7, <1>8, <1>9, ZenonT(30)

(* A number below n is its own remainder.                                  *)
LEMMA ModSmall ==
  ASSUME NEW n \in Nat, NEW p \in Nat, p < n
  PROVE  p % n = p
BY SMT, SMTT(30)

(* extend, which runs when nobody owns a slot, keeps RingInv: the items    *)
(* move to the front of the new buffer with the sequence numbers they need *)
(* there.                                                                  *)
LEMMA ExtendRing ==
  ASSUME QueueAssumption, TypeOK, RingInv, MayWrite,
         NEW n \in Nat, Extend(n),
         NEW t \in Threads, NEW to, pc' = [pc EXCEPT ![t] = to],
         to \in {"sRelock", "gEnd"}, to = "gEnd" => t \in Growers,
         UNCHANGED <<pos, sending, outcome>>, pc[t] # "sEnd"
  PROVE  RingInv'
<1> USE Disjoint DEF RingInv
<1>0. /\ capacity \in Nat /\ capacity >= 2 /\ head \in Nat /\ tail \in Nat /\ RingOK
      /\ pos \in [Threads -> Nat] /\ pc = [u \in Threads |-> pc[u]]
  BY ZenonT(30) DEF TypeOK, PcOK, RingOK, CallsOK
<1>1. \A u \in Threads : ~Reading(u)
  BY ZenonT(30) DEF MayWrite
<1>2. \A u \in Threads : ~Reading(u)'
  BY <1>0, <1>1, ZenonT(30) DEF Reading
<1>3. /\ \A s \in Senders : ~Owner(s) /\ ~Owner(s)'
      /\ \A r \in Receivers : ~Taker(r) /\ ~Taker(r)'
  BY <1>1, <1>2, ZenonT(30) DEF Reading, Owner, Taker
<1>4. Claims' /\ Contents'
  BY <1>2, ZenonT(30) DEF Reading, Claims, Contents
<1>5. load' = load /\ done' = done
  BY ZenonT(30) DEF Extend, ring
<1>6. Open'
  BY <1>0, <1>2, <1>5, ZenonT(30) DEF Open, Reading
<1>7. Window' /\ Slots'
  <2>1. CASE capacity >= n
    BY <1>0, <1>3, <2>1, CalmRing, ZenonT(30) DEF Extend, ring, ends
  <2>2. CASE ~(capacity >= n)
    <3> DEFINE size == head - tail
    <3>1. /\ seq' = [i \in 0..n - 1 |-> IF i < size THEN i + 1 ELSE i]
          /\ tail' = 0 /\ head' = size /\ capacity' = n
      BY <2>2, ZenonT(30) DEF Extend
    <3>2. size \in Nat /\ size <= capacity /\ capacity < n
      BY <1>0, <2>2, SMT, SMTT(30) DEF Window
    <3> HIDE DEF size
    <3>3. Window'
      <4>1. 0 <= size /\ size <= 0 + n
        BY <1>0, <3>2, SMT, SMTT(30)
      <4> QED BY <1>3, <3>1, <4>1, ZenonT(30) DEF Window
    <3>4. \A p \in Int : 0 <= p /\ p < n => mask(p)' = p
      BY <1>0, <3>1, ModSmall, SMT, SMTT(30) DEF mask
    <3>5. ASSUME NEW p \in Int, 0 <= p, p < size
          PROVE  (seq[mask(p)])' = p + 1
      BY <1>0, <3>1, <3>2, <3>4, <3>5, SMT, SMTT(30)
    <3>6. ASSUME NEW p \in Int, size <= p, p < n
          PROVE  (seq[mask(p)])' = p
      BY <1>0, <3>1, <3>2, <3>4, <3>6, SMT, SMTT(30)
    <3>7. Slots'
      <4>1. \A p \in Int : tail' <= p /\ p < head' => (seq[mask(p)])' = p + 1
        BY <3>1, <3>5, ZenonT(30)
      <4>2. \A p \in Int : head' <= p /\ p < tail' + capacity' => (seq[mask(p)])' = p
        <5>1. tail' + capacity' = n
          BY <3>1, SMT, SMTT(30)
        <5> QED BY <3>1, <3>6, <5>1, ZenonT(30)
      <4> QED BY <1>3, <4>1, <4>2, ZenonT(30) DEF Slots
    <3> QED BY <3>3, <3>7, ZenonT(30)
  <2> QED BY <2>1, <2>2, ZenonT(30)
<1> QED BY <1>4, <1>6, <1>7, ZenonT(30)

(* RingInv holds initially.                                                *)
LEMMA InitRing ==
  ASSUME QueueAssumption, Init
  PROVE  RingInv
<1> USE Disjoint DEF RingInv
<1>0. /\ TypeOK /\ RingOK /\ capacity \in Nat /\ capacity >= 2 /\ head = 0 /\ tail = 0
      /\ capacity = Capacity
  BY InitTypeOK, ZenonT(30) DEF TypeOK, RingOK, Init
<1>1. \A t \in Threads : pc[t] = First(t)
  BY ZenonT(30) DEF Init
<1>2. /\ \A s \in Senders : pc[s] = IF load.calls[s] = 0 THEN "sEnd" ELSE "sStart"
      /\ \A r \in Receivers : pc[r] \in {"rEnd", "rStart"}
  BY <1>1, ZenonT(30) DEF First
<1>3. /\ \A s \in Senders : ~Owner(s)
      /\ \A r \in Receivers : ~Taker(r)
  BY <1>2, ZenonT(30) DEF Owner, Taker
<1>4. Window
  BY <1>0, <1>3, SMT, SMTT(30) DEF Window
<1>5. Slots
  <2>1. \A p \in Int : 0 <= p /\ p < capacity => mask(p) = p
    BY <1>0, ModSmall, SMT, SMTT(30) DEF mask
  <2>2. \A p \in Int : 0 <= p /\ p < capacity => seq[p] = p
    BY <1>0, SMT, SMTT(30) DEF Init
  <2> QED BY <1>0, <1>3, <2>1, <2>2, SMT, SMTT(30) DEF Slots
<1>6. Claims /\ Contents
  BY <1>2, ZenonT(30) DEF Claims, Contents
<1>7. Open
  <2>1. load.calls \in [Threads -> Nat]
    BY <1>0, LoadType, ZenonT(30) DEF RingOK
  <2>2. \A s \in Senders : sending[s] = 1 /\ outcome[s] = <<>>
    BY ZenonT(30) DEF Init
  <2>3. \A s \in Senders : pc[s] \in {"sEnd", "sStart"} /\ (pc[s] # "sEnd" => 1 <= load.calls[s])
    BY <1>2, <2>1, SMT, SMTT(30)
  <2> QED BY <2>2, <2>3, SMT, SMTT(30) DEF Open
<1> QED BY <1>4, <1>5, <1>6, <1>7, ZenonT(30)

(* Every step keeps the types and RingInv.                                 *)
LEMMA NextRing ==
  ASSUME QueueAssumption, TypeOK, RingInv, [Next]_vars
  PROVE  TypeOK' /\ RingInv'
<1> USE Disjoint
<1>0. RingOK /\ Window /\ Open
  BY ZenonT(30) DEF TypeOK, RingInv
<1>1. ASSUME NEW s \in Senders, SendStep(s)
      PROVE  TypeOK' /\ RingInv'
  <2>1. TypeOK'
    BY <1>0, <1>1, SendTypeOK, ZenonT(30)
  <2>2. CASE SendExtend(s)
    <3>1. MayWrite /\ pc[s] = "sLock" /\ pc' = [pc EXCEPT ![s] = "sRelock"]
          /\ UNCHANGED <<pos, sending, outcome>>
      BY <2>2, ZenonT(30) DEF SendExtend, Goto, local, log
    <3>2. CASE Extend(2 * capacity)
      <4>1. 2 * capacity \in Nat
        BY <1>0, SMT, SMTT(30) DEF RingOK
      <4> HIDE DEF Extend
      <4>2. RingInv'
        BY <3>1, <3>2, <4>1, ExtendRing, ZenonT(30)
      <4> QED BY <2>1, <4>2, ZenonT(30)
    <3>3. CASE UNCHANGED <<ring, ends>>
      <4>1. Extend(0)
        BY <1>0, <3>3, SMT, SMTT(30) DEF Extend, RingOK
      <4> QED BY <1>0, <2>1, <3>1, <4>1, ExtendRing, ZenonT(30)
    <3> QED BY <2>1, <2>2, <3>2, <3>3, ZenonT(30) DEF SendExtend
  <2> QED BY <1>1, <2>1, <2>2, SendCalmRing, SendCasRing, SendPublishRing, ZenonT(30) DEF SendStep
<1>2. ASSUME NEW r \in Receivers, RecvStep(r)
      PROVE  TypeOK' /\ RingInv'
  BY <1>2, RecvTypeOK, RecvCalmRing, RecvCasRing, RecvRecycleRing, ZenonT(30) DEF RecvStep
<1>3. ASSUME NEW t \in Growers, Grow(t)
      PROVE  RingInv'
  <2>1. /\ MayWrite /\ Extend(GrowTo) /\ pc[t] = "gStart" /\ pc' = [pc EXCEPT ![t] = "gEnd"]
        /\ UNCHANGED <<pos, sending, outcome>> /\ GrowTo \in Nat
    BY <1>3, ZenonT(30) DEF Grow, Goto, local, log, QueueAssumption
  <2> QED BY <2>1, ExtendRing, ZenonT(30)
<1>4. ASSUME NEW t \in Closers, Close(t)
      PROVE  RingInv'
  <2>1. /\ pc' = [pc EXCEPT ![t] = "cEnd"] /\ MayWrite
        /\ UNCHANGED <<load, seq, val, capacity, head, tail, pos, sending, outcome>>
    BY <1>4, ZenonT(30) DEF Close, Goto, ends, local, log
  <2>2. \A u \in Senders \cup Receivers : pc'[u] = pc[u] /\ ~Reading(u)
    BY <2>1, ZenonT(30) DEF TypeOK, PcOK, MayWrite
  <2>3. Window' /\ Slots'
    BY <1>0, <2>1, <2>2, CalmRing, ZenonT(30) DEF RingInv, Owner, Taker
  <2>4. Claims' /\ Contents'
    BY <2>2, ZenonT(30) DEF Claims, Contents, Reading
  <2>5. Open'
    BY <1>0, <2>1, <2>2, ZenonT(30) DEF Open, Reading
  <2> QED BY <2>3, <2>4, <2>5, ZenonT(30) DEF RingInv
<1>5. ASSUME UNCHANGED <<load, seq, val, capacity, done, head, tail, pc, pos, sending, outcome>>
      PROVE  RingInv'
  BY <1>5, ZenonT(30) DEF RingInv, Window, Slots, Claims, Open, Contents, Owner, Taker, mask, Item
<1>6. ASSUME NEW t \in load.cancels, Cancel(t)
      PROVE  RingInv'
  BY <1>5, <1>6, ZenonT(30) DEF Cancel, ring, ends, local, log
<1>7. CASE UNCHANGED vars
  <2>1. RingInv'
    BY <1>5, <1>7, ZenonT(30) DEF vars
  <2>2. TypeOK'
    BY <1>7, ZenonT(30) DEF vars, TypeOK, PcOK, RingOK, CallsOK
  <2> QED BY <2>1, <2>2, ZenonT(30)
<1> QED BY <1>0, <1>1, <1>2, <1>3, <1>4, <1>6, <1>7, OtherTypeOK, ZenonT(30) DEF Next

(* The types and RingInv hold in every reachable state: no two goroutines  *)
(* ever work on one slot, a sender that wins the head has a free slot, and *)
(* a receiver that wins the tail has a published item (the compare-and-    *)
(* swaps of Send and Recv).                                                *)
THEOREM RingCorrect ==
  ASSUME QueueAssumption
  PROVE  Spec => [](TypeOK /\ RingInv)
<1>1. Init => TypeOK /\ RingInv
  BY InitTypeOK, InitRing, ZenonT(30)
<1>2. TypeOK /\ RingInv /\ [Next]_vars => (TypeOK /\ RingInv)'
  BY NextRing, ZenonT(30)
<1> QED BY <1>1, <1>2, PTL DEF Spec

-----------------------------------------------------------------------------
(* What the ring stands for.                                               *)
Queue == INSTANCE Fifo WITH
  Readers <- Receivers, items <- QueueItems, taken <- QueueTaken, shut <- done

(* Whatever the interleaving of senders, receivers, extensions and Close,  *)
(* Send and Recv behave as those of a first-in first-out queue that        *)
(* accepts nothing after Close.                                            *)
Linearizable == Queue!FifoSpec

(* The current Send of s has won the head and not returned yet.            *)
InFlight(s) == pc[s] \in {"sWrite", "sPublish", "sSignal"}

(* Item k of sender s has been accepted: its Send returned true, or will.  *)
HandedOver(s, k) ==
  IF k <= Len(outcome[s]) THEN outcome[s][k] = TRUE ELSE k = sending[s] /\ InFlight(s)

(* Item x is in the queue or was taken by a receiver.                      *)
Somewhere(x) ==
  \/ \E i \in DOMAIN QueueItems : QueueItems[i] = x
  \/ \E r \in Receivers : \E i \in DOMAIN QueueTaken[r] : QueueTaken[r][i] = x

(* Item x is in at most one place of the queue and of all that receivers   *)
(* took.                                                                   *)
OncePlaced(x) ==
  /\ \A i, j \in DOMAIN QueueItems : QueueItems[i] = x /\ QueueItems[j] = x => i = j
  /\ \A r, q \in Receivers : \A i \in DOMAIN QueueTaken[r], j \in DOMAIN QueueTaken[q] :
       QueueTaken[r][i] = x /\ QueueTaken[q][j] = x => r = q /\ i = j
  /\ \A r \in Receivers : \A i \in DOMAIN QueueItems, j \in DOMAIN QueueTaken[r] :
       ~(QueueItems[i] = x /\ QueueTaken[r][j] = x)

(* The inductive form of OwnershipExact: an item is somewhere exactly when *)
(* it was accepted, and then in one place.                                 *)
Placement ==
  \A s \in Senders, k \in Nat \ {0} :
    OncePlaced(<<s, k>>) /\ (HandedOver(s, k) <=> Somewhere(<<s, k>>))

-----------------------------------------------------------------------------
(* QueueItems by position, without the choice of a claimant.               *)
ItemFacts ==
  /\ QueueItems = [i \in 1..head - tail |-> QueueItems[i]]
  /\ \A p \in Int : tail <= p /\ p < head =>
       /\ \A s \in Senders : pc[s] = "sWrite" /\ pos[s] = p => QueueItems[p - tail + 1] = Item(s)
       /\ (\A s \in Senders : pc[s] = "sWrite" => pos[s] # p)
          => QueueItems[p - tail + 1] = val[mask(p)]

(* QueueTaken by the control point of the receiver.                        *)
TakenFacts ==
  /\ QueueTaken = [r \in Receivers |-> QueueTaken[r]]
  /\ \A r \in Receivers :
       /\ pc[r] = "rRead" => QueueTaken[r] = Append(got[r], val[mask(pos[r])])
       /\ pc[r] \in {"rRecycle", "rSignal"} => QueueTaken[r] = Append(got[r], value[r])
       /\ pc[r] \notin {"rRead", "rRecycle", "rSignal"} => QueueTaken[r] = got[r]

(* A position of the window has one claimant at most, so that ItemFacts    *)
(* says what QueueItems is.                                                *)
LEMMA ItemFactsHold == RingOK /\ Window => ItemFacts
<1> SUFFICES ASSUME RingOK, Window
             PROVE  ItemFacts
  BY ZenonT(30)
<1>1. ASSUME NEW p \in Int, NEW s \in Senders, pc[s] = "sWrite", pos[s] = p
      PROVE  ItemAt(p) = Item(s)
  <2>1. s \in Claimant(p) /\ \A q \in Claimant(p) : q = s /\ q \in Senders
    BY <1>1, ZenonT(30) DEF Claimant, Window, Owner
  <2>2. (CHOOSE q \in Senders : q \in Claimant(p)) = s
    BY <2>1, ZenonT(30)
  <2> QED BY <2>1, <2>2, ZenonT(30) DEF ItemAt
<1>2. ASSUME NEW p \in Int, \A s \in Senders : pc[s] = "sWrite" => pos[s] # p
      PROVE  ItemAt(p) = val[mask(p)]
  BY <1>2, ZenonT(30) DEF ItemAt, Claimant
<1>3. QueueItems = [i \in 1..head - tail |-> QueueItems[i]]
  BY ZenonT(30) DEF QueueItems
<1>4. ASSUME NEW p \in Int, tail <= p, p < head
      PROVE  QueueItems[p - tail + 1] = ItemAt(p)
  <2>1. p - tail + 1 \in 1..head - tail /\ tail + (p - tail + 1) - 1 = p
    BY <1>4, SMT, SMTT(30) DEF RingOK
  <2> QED BY <2>1, ZenonT(30) DEF QueueItems
<1> QED BY <1>1, <1>2, <1>3, <1>4, ZenonT(30) DEF ItemFacts

(* TakenFacts says what QueueTaken is.                                     *)
LEMMA TakenFactsHold == TakenFacts
BY ZenonT(30) DEF TakenFacts, QueueTaken

(* Both hold before and after a step.                                      *)
LEMMA FactsHold ==
  ASSUME TypeOK, Window, TypeOK', Window'
  PROVE  ItemFacts /\ ItemFacts' /\ TakenFacts /\ TakenFacts'
<1>1. RingOK /\ RingOK'
  BY ZenonT(30) DEF TypeOK
<1>2. ItemFacts'
  BY <1>1, ItemFactsHold, PTL
<1>3. TakenFacts'
  BY TakenFactsHold, PTL
<1> QED BY <1>1, <1>2, <1>3, ItemFactsHold, TakenFactsHold, ZenonT(30)

(* The queue is the same when it is so position by position.               *)
LEMMA SameItems ==
  ASSUME RingOK, ItemFacts, ItemFacts', head' - tail' = head - tail,
         \A p \in Int : tail <= p /\ p < head
                        => QueueItems'[p - tail + 1] = QueueItems[p - tail + 1]
  PROVE  QueueItems' = QueueItems
<1>1. ASSUME NEW i \in 1..head - tail
      PROVE  QueueItems'[i] = QueueItems[i]
  <2>1. PICK p \in Int : p = tail + i - 1
    BY SMT, SMTT(30) DEF RingOK
  <2>2. tail <= p /\ p < head /\ p - tail + 1 = i
    BY <2>1, SMT, SMTT(30) DEF RingOK
  <2> QED BY <2>2, ZenonT(30)
<1>2. /\ QueueItems = [i \in 1..head - tail |-> QueueItems[i]]
      /\ QueueItems' = [i \in 1..head - tail |-> QueueItems'[i]]
  BY ZenonT(30) DEF ItemFacts
<1> QED BY <1>1, <1>2, ZenonT(30)

(* A step that writes no slot, moves no end and lets no claimant go or     *)
(* change leaves the queue alone.                                          *)
LEMMA CalmItems ==
  ASSUME TypeOK, ItemFacts, ItemFacts', UNCHANGED <<val, capacity, head, tail>>,
         \A s \in Senders : /\ pc'[s] = "sWrite" <=> pc[s] = "sWrite"
                            /\ pc[s] = "sWrite" => pos'[s] = pos[s] /\ sending'[s] = sending[s]
  PROVE  QueueItems' = QueueItems
<1>1. ASSUME NEW p \in Int, tail <= p, p < head
      PROVE  QueueItems'[p - tail + 1] = QueueItems[p - tail + 1]
  <2>0. tail' <= p /\ p < head'
    BY <1>1, ZenonT(30)
  <2>1. CASE \E s \in Senders : pc[s] = "sWrite" /\ pos[s] = p
    <3>1. PICK s \in Senders : pc[s] = "sWrite" /\ pos[s] = p
      BY <2>1, ZenonT(30)
    <3>2. QueueItems[p - tail + 1] = Item(s)
      BY <1>1, <3>1, ZenonT(30) DEF ItemFacts
    <3>3. QueueItems'[p - tail + 1] = Item(s)'
      BY <2>0, <3>1, ZenonT(30) DEF ItemFacts
    <3> QED BY <3>1, <3>2, <3>3, ZenonT(30) DEF Item
  <2>2. CASE \A s \in Senders : pc[s] = "sWrite" => pos[s] # p
    <3>1. QueueItems[p - tail + 1] = val[mask(p)]
      BY <1>1, <2>2, ZenonT(30) DEF ItemFacts
    <3>2. QueueItems'[p - tail + 1] = val'[mask(p)']
      BY <2>0, <2>2, ZenonT(30) DEF ItemFacts
    <3> QED BY <3>1, <3>2, ZenonT(30) DEF mask
  <2> QED BY <2>1, <2>2, ZenonT(30)
<1> QED BY <1>1, SameItems, ZenonT(30) DEF TypeOK

(* A step that lets no receiver pass a point where it takes leaves what    *)
(* was taken alone.                                                        *)
LEMMA CalmTaken ==
  ASSUME TakenFacts, TakenFacts', UNCHANGED <<got, value, capacity>>,
         \A r \in Receivers :
           /\ pc'[r] = "rRead" <=> pc[r] = "rRead"
           /\ pc'[r] \in {"rRecycle", "rSignal"} <=> pc[r] \in {"rRecycle", "rSignal"}
           /\ pc[r] = "rRead" => pos'[r] = pos[r] /\ val'[mask(pos[r])] = val[mask(pos[r])]
  PROVE  QueueTaken' = QueueTaken
<1>1. ASSUME NEW r \in Receivers
      PROVE  QueueTaken'[r] = QueueTaken[r]
  <2>1. CASE pc[r] = "rRead"
    <3>1. /\ QueueTaken[r] = Append(got[r], val[mask(pos[r])])
          /\ QueueTaken'[r] = Append(got'[r], val'[mask(pos[r])'])
      BY <2>1, ZenonT(30) DEF TakenFacts
    <3>2. mask(pos[r])' = mask(pos[r])
      BY <2>1, ZenonT(30) DEF mask
    <3> QED BY <2>1, <3>1, <3>2, ZenonT(30)
  <2>2. CASE pc[r] \in {"rRecycle", "rSignal"}
    BY <2>2, ZenonT(30) DEF TakenFacts
  <2>3. CASE pc[r] \notin {"rRead", "rRecycle", "rSignal"}
    BY <2>3, ZenonT(30) DEF TakenFacts
  <2> QED BY <2>1, <2>2, <2>3, ZenonT(30)
<1> QED BY <1>1, ZenonT(30) DEF TakenFacts

-----------------------------------------------------------------------------
(* The step changes nothing about which items were accepted.               *)
SameHanded == \A s \in Senders, k \in Nat \ {0} : HandedOver(s, k)' <=> HandedOver(s, k)

(* The step is invisible: the queue, what was taken, what was accepted     *)
(* stay.                                                                   *)
Quiet == QueueItems' = QueueItems /\ QueueTaken' = QueueTaken /\ SameHanded

(* A step that returns nothing and lets no Send win or return is such.     *)
LEMMA CalmHanded ==
  ASSUME UNCHANGED <<sending, outcome>>, \A s \in Senders : InFlight(s)' <=> InFlight(s)
  PROVE  SameHanded
BY ZenonT(30) DEF SameHanded, HandedOver

(* Returning true from a Send that won the head, or false from one that    *)
(* did not, changes nothing about which items were accepted.               *)
LEMMA ReturnHanded ==
  ASSUME QueueAssumption, TypeOK, Open, NEW s \in Senders, NEW ok \in BOOLEAN, NEW w,
         w = s \/ w \in Receivers, Return(s, ok, w), InFlight(s) <=> ok
  PROVE  SameHanded
<1> USE Disjoint
<1>0. /\ sending \in [Senders -> Nat \ {0}] /\ outcome \in [Senders -> Seq(BOOLEAN)]
      /\ outcome' = [outcome EXCEPT ![s] = Append(@, ok)]
      /\ sending' = [sending EXCEPT ![s] = @ + 1]
      /\ \A q \in Senders : q # s => pc'[q] = pc[q]
      /\ pc'[s] \in {"sStart", "sEnd"}
  BY ZenonT(30) DEF TypeOK, CallsOK, Return
<1>1. ASSUME NEW q \in Senders, NEW k \in Nat \ {0}, q # s
      PROVE  HandedOver(q, k)' <=> HandedOver(q, k)
  BY <1>0, <1>1, ZenonT(30) DEF HandedOver, InFlight
<1>2. ASSUME NEW k \in Nat \ {0}
      PROVE  HandedOver(s, k)' <=> HandedOver(s, k)
  <2>1. /\ outcome[s] \in Seq(BOOLEAN) /\ outcome'[s] = Append(outcome[s], ok)
        /\ sending[s] = Len(outcome[s]) + 1 /\ sending'[s] = sending[s] + 1
        /\ ~InFlight(s)'
    BY <1>0, ZenonT(30) DEF Open, InFlight
  <2>2. CASE k <= Len(outcome[s])
    <3>1. k <= Len(outcome'[s]) /\ outcome'[s][k] = outcome[s][k]
      BY <2>1, <2>2, SMT, SMTT(30)
    <3> QED BY <2>2, <3>1, ZenonT(30) DEF HandedOver
  <2>3. CASE k = Len(outcome[s]) + 1
    BY <2>1, <2>3, SMT, SMTT(30) DEF HandedOver
  <2>4. CASE k > Len(outcome[s]) + 1
    BY <2>1, <2>4, SMT, SMTT(30) DEF HandedOver
  <2> QED BY <2>1, <2>2, <2>3, <2>4, SMT, SMTT(30)
<1> QED BY <1>1, <1>2, ZenonT(30) DEF SameHanded

(* Every step of Send but the winning compare-and-swap, the write of the   *)
(* data and an extension is invisible.                                     *)
LEMMA SendCalmQuiet ==
  ASSUME QueueAssumption, TypeOK, RingInv, TypeOK', RingInv', NEW s \in Senders,
         \/ SendBegin(s) \/ SendLoop(s) \/ SendPublish(s) \/ SendSignal(s)
         \/ SendReload(s) \/ SendPark(s) \/ SendRelock(s)
         \/ SendCas(s) /\ head # pos[s]
  PROVE  Quiet /\ done' = done
<1> USE Disjoint
<1>0. /\ pc = [t \in Threads |-> pc[t]] /\ pos = [t \in Threads |-> pos[t]]
      /\ sending = [q \in Senders |-> sending[q]] /\ Open
      /\ ItemFacts /\ ItemFacts' /\ TakenFacts /\ TakenFacts'
  BY FactsHold, ZenonT(30) DEF TypeOK, PcOK, CallsOK, RingInv
<1>1. /\ UNCHANGED <<val, capacity, head, tail, done, value, got>>
      /\ \A q \in Senders : q # s => /\ pc'[q] = pc[q] /\ pos'[q] = pos[q]
                                     /\ sending'[q] = sending[q]
      /\ \A r \in Receivers : /\ pos'[r] = pos[r]
                              /\ pc'[r] = pc[r] \/ (pc[r] = "rWait" /\ pc'[r] = "rRelock")
      /\ pc[s] # "sWrite" /\ pc'[s] # "sWrite"
  <2>1. CASE SendBegin(s)
    BY <1>0, <2>1, ZenonT(30) DEF SendBegin, Return, ring, ends, log
  <2>2. CASE SendLoop(s)
    BY <1>0, <2>2, ZenonT(30) DEF SendLoop, Return, ring, ends, log
  <2>3. CASE SendPublish(s)
    BY <1>0, <2>3, ZenonT(30) DEF SendPublish, Goto, ends, local, log
  <2>4. CASE SendSignal(s)
    BY <1>0, <2>4, ZenonT(30) DEF SendSignal, Return, ring, ends, local
  <2>5. CASE SendReload(s) \/ SendRelock(s)
    BY <1>0, <2>5, ZenonT(30) DEF SendReload, SendRelock, Goto, ring, ends, log
  <2>6. CASE SendPark(s)
    <3>1. PICK to \in {"sRelock", "sWait"} :
            pc' = [pc EXCEPT ![s] = to] /\ pc[s] \in {"sPark", "sWait"}
      BY <2>6, ZenonT(30) DEF SendPark, Goto
    <3> QED BY <1>0, <2>6, <3>1, ZenonT(30) DEF SendPark, ring, ends, log, local
  <2>7. CASE SendCas(s) /\ head # pos[s]
    BY <1>0, <2>7, ZenonT(30) DEF SendCas, Goto, ring, local, log
  <2> QED BY <2>1, <2>2, <2>3, <2>4, <2>5, <2>6, <2>7, ZenonT(30)
<1>2. QueueItems' = QueueItems
  BY <1>0, <1>1, CalmItems, ZenonT(30)
<1>3. QueueTaken' = QueueTaken
  BY <1>0, <1>1, CalmTaken, ZenonT(30)
<1>4. SameHanded
  <2>1. CASE \E ok \in BOOLEAN, w \in Receivers \cup {s} : Return(s, ok, w) /\ (InFlight(s) <=> ok)
    BY <1>0, <2>1, ReturnHanded, ZenonT(30)
  <2>2. CASE UNCHANGED <<sending, outcome>> /\ (InFlight(s)' <=> InFlight(s))
    BY <1>1, <2>2, CalmHanded, ZenonT(30) DEF InFlight
  <2>3. CASE SendBegin(s)
    BY <1>0, <2>1, <2>2, <2>3, ZenonT(30) DEF SendBegin, InFlight, log
  <2>4. CASE SendLoop(s)
    <3>1. pc[s] = "sLoop" /\ (Return(s, FALSE, s) \/
             (UNCHANGED log /\ pc'[s] \in {"sCas", "sLock", "sPark", "sReload"}))
      BY <1>0, <2>4, ZenonT(30) DEF SendLoop
    <3> QED BY <2>1, <2>2, <3>1, ZenonT(30) DEF InFlight, log
  <2>5. CASE SendPublish(s)
    BY <1>0, <2>2, <2>5, ZenonT(30) DEF SendPublish, Goto, log, InFlight
  <2>6. CASE SendSignal(s)
    <3>1. pc[s] = "sSignal" /\ \E w \in Receivers \cup {s} : Return(s, TRUE, w)
      BY <2>6, ZenonT(30) DEF SendSignal
    <3> QED BY <2>1, <3>1, ZenonT(30) DEF InFlight
  <2>7. CASE SendReload(s) \/ SendRelock(s)
    BY <1>0, <2>2, <2>7, ZenonT(30) DEF SendReload, SendRelock, Goto, log, InFlight
  <2>8. CASE SendPark(s)
    <3>1. PICK to \in {"sRelock", "sWait"} :
            pc' = [pc EXCEPT ![s] = to] /\ pc[s] \in {"sPark", "sWait"}
      BY <2>8, ZenonT(30) DEF SendPark, Goto
    <3> QED BY <1>0, <2>2, <2>8, <3>1, ZenonT(30) DEF SendPark, log, InFlight
  <2>9. CASE SendCas(s) /\ head # pos[s]
    BY <1>0, <2>2, <2>9, ZenonT(30) DEF SendCas, Goto, log, InFlight
  <2> QED BY <2>3, <2>4, <2>5, <2>6, <2>7, <2>8, <2>9, ZenonT(30)
<1> QED BY <1>1, <1>2, <1>3, <1>4, ZenonT(30) DEF Quiet

(* Writing the data is invisible: the item counted as queued when its      *)
(* position was claimed.                                                   *)
LEMMA SendWriteQuiet ==
  ASSUME QueueAssumption, TypeOK, RingInv, TypeOK', RingInv', NEW s \in Senders, SendWrite(s)
  PROVE  Quiet /\ done' = done
<1> USE Disjoint
<1>0. /\ pc = [t \in Threads |-> pc[t]] /\ pos = [t \in Threads |-> pos[t]]
      /\ RingOK /\ Window /\ \A t \in Threads : pos[t] \in Int
      /\ ItemFacts /\ ItemFacts' /\ TakenFacts /\ TakenFacts'
  <2>1. Window /\ Window'
    BY ZenonT(30) DEF RingInv
  <2>2. ItemFacts /\ ItemFacts' /\ TakenFacts /\ TakenFacts'
    BY <2>1, FactsHold, ZenonT(30)
  <2> QED BY <2>1, <2>2, SMT, SMTT(30) DEF TypeOK, PcOK, CallsOK
<1>1. /\ UNCHANGED <<capacity, head, tail, done, value, got, pos, sending, outcome>>
      /\ pc[s] = "sWrite" /\ pc' = [pc EXCEPT ![s] = "sPublish"]
      /\ val' = [val EXCEPT ![mask(pos[s])] = Item(s)]
      /\ Owner(s) /\ tail <= pos[s] /\ pos[s] < head /\ head <= tail + capacity
  BY <1>0, ZenonT(30) DEF SendWrite, Goto, ends, local, log, Window, Owner
<1>2. \A p \in Int : mask(p)' = mask(p)
  BY <1>1, ZenonT(30) DEF mask
<1>3. /\ val'[mask(pos[s])] = Item(s)
      /\ \A p \in Int : mask(p) # mask(pos[s]) => val'[mask(p)] = val[mask(p)]
  <2>1. \A p \in Int : mask(p) \in 0..capacity - 1
    BY <1>0, MaskType, ZenonT(30)
  <2> QED BY <1>0, <1>1, <2>1, ZenonT(30) DEF RingOK
<1>4. QueueItems' = QueueItems
  <2>1. ASSUME NEW p \in Int, tail <= p, p < head
        PROVE  QueueItems'[p - tail + 1] = QueueItems[p - tail + 1]
    <3>0. tail' <= p /\ p < head' /\ tail' = tail
      BY <1>1, <2>1, ZenonT(30)
    <3>1. CASE p = pos[s]
      <4>1. QueueItems[p - tail + 1] = Item(s)
        BY <1>0, <1>1, <2>1, <3>1, ZenonT(30) DEF ItemFacts
      <4>2. \A q \in Senders : pc'[q] = "sWrite" => pos'[q] # p
        BY <1>0, <1>1, <3>1, ZenonT(30) DEF Window, Owner
      <4>3. QueueItems'[p - tail + 1] = val'[mask(p)']
        BY <1>0, <3>0, <4>2, ZenonT(30) DEF ItemFacts
      <4> QED BY <1>2, <1>3, <3>1, <4>1, <4>3, ZenonT(30)
    <3>2. CASE p # pos[s]
      <4>1. mask(p) # mask(pos[s])
        <5>1. p - pos[s] < capacity /\ pos[s] - p < capacity /\ pos[s] \in Int
          BY <1>0, <1>1, <2>1, SMT, SMTT(30) DEF RingOK
        <5> QED BY <1>0, <3>2, <5>1, MaskInjective, ZenonT(30)
      <4>2. CASE \E q \in Senders : pc[q] = "sWrite" /\ pos[q] = p
        <5>1. PICK q \in Senders : pc[q] = "sWrite" /\ pos[q] = p
          BY <4>2, ZenonT(30)
        <5>2. pc'[q] = "sWrite" /\ pos'[q] = p /\ Item(q)' = Item(q)
          BY <1>0, <1>1, <3>2, <5>1, ZenonT(30) DEF Item
        <5>3. QueueItems[p - tail + 1] = Item(q)
          BY <1>0, <2>1, <5>1, ZenonT(30) DEF ItemFacts
        <5>4. QueueItems'[p - tail + 1] = Item(q)'
          BY <1>0, <3>0, <5>2, ZenonT(30) DEF ItemFacts
        <5> QED BY <5>2, <5>3, <5>4, ZenonT(30)
      <4>3. CASE \A q \in Senders : pc[q] = "sWrite" => pos[q] # p
        <5>1. \A q \in Senders : pc'[q] = "sWrite" => pos'[q] # p
          BY <1>0, <1>1, <4>3, ZenonT(30)
        <5>2. QueueItems[p - tail + 1] = val[mask(p)]
          BY <1>0, <2>1, <4>3, ZenonT(30) DEF ItemFacts
        <5>3. QueueItems'[p - tail + 1] = val'[mask(p)']
          BY <1>0, <3>0, <5>1, ZenonT(30) DEF ItemFacts
        <5> QED BY <1>2, <1>3, <4>1, <5>2, <5>3, ZenonT(30)
      <4> QED BY <4>2, <4>3, ZenonT(30)
    <3> QED BY <3>1, <3>2, ZenonT(30)
  <2> QED BY <1>0, <1>1, <2>1, SameItems, ZenonT(30)
<1>5. QueueTaken' = QueueTaken
  <2>1. \A r \in Receivers : pc'[r] = pc[r] /\ pos'[r] = pos[r]
    BY <1>0, <1>1, ZenonT(30)
  <2>2. ASSUME NEW r \in Receivers, pc[r] = "rRead"
        PROVE  val'[mask(pos[r])] = val[mask(pos[r])]
    <3>1. mask(pos[r]) # mask(pos[s])
      BY <1>0, <1>1, <2>2, SlotsExclusive, ZenonT(30) DEF Taker
    <3> QED BY <1>0, <1>3, <3>1, ZenonT(30)
  <2> QED BY <1>0, <1>1, <2>1, <2>2, CalmTaken, ZenonT(30)
<1>6. SameHanded
  BY <1>0, <1>1, CalmHanded, ZenonT(30) DEF InFlight
<1> QED BY <1>1, <1>4, <1>5, <1>6, ZenonT(30) DEF Quiet

(* extend is invisible: the ring is compacted, the queue stays.            *)
LEMMA ExtendQuiet ==
  ASSUME QueueAssumption, TypeOK, RingInv, TypeOK', RingInv', MayWrite,
         NEW n \in Nat, Extend(n),
         NEW t \in Threads, NEW to, pc' = [pc EXCEPT ![t] = to],
         to \in {"sRelock", "gEnd"}, UNCHANGED <<pos, value, got, sending, outcome>>
  PROVE  Quiet /\ done' = done
<1> USE Disjoint
<1>0. /\ pc = [u \in Threads |-> pc[u]]
      /\ RingOK /\ Window
      /\ ItemFacts /\ ItemFacts' /\ TakenFacts /\ TakenFacts'
  <2>1. Window /\ Window'
    BY ZenonT(30) DEF RingInv
  <2>2. ItemFacts /\ ItemFacts' /\ TakenFacts /\ TakenFacts'
    BY <2>1, FactsHold, ZenonT(30)
  <2> QED BY <2>1, <2>2, ZenonT(30) DEF TypeOK, PcOK
<1>1. \A u \in Threads : ~Reading(u) /\ ~Reading(u)'
  BY <1>0, ZenonT(30) DEF MayWrite, Reading
<1>2. /\ \A s \in Senders : pc[s] # "sWrite" /\ pc'[s] # "sWrite" /\ ~InFlight(s) /\ ~InFlight(s)'
      /\ \A r \in Receivers : /\ pc[r] \notin {"rRead", "rRecycle", "rSignal"}
                              /\ pc'[r] \notin {"rRead", "rRecycle", "rSignal"}
  BY <1>1, ZenonT(30) DEF Reading, InFlight
<1>3. QueueTaken' = QueueTaken
  <2>1. \A r \in Receivers : QueueTaken[r] = got[r] /\ QueueTaken'[r] = got'[r]
    BY <1>0, <1>2, ZenonT(30) DEF TakenFacts
  <2> QED BY <1>0, <2>1, ZenonT(30) DEF TakenFacts
<1>4. SameHanded
  BY <1>2, CalmHanded, ZenonT(30)
<1>5. QueueItems' = QueueItems
  <2>1. CASE capacity >= n
    BY <1>0, <1>2, <2>1, CalmItems, ZenonT(30) DEF Extend, ring, ends
  <2>2. CASE ~(capacity >= n)
    <3> DEFINE size == head - tail
    <3>1. /\ val' = [i \in 0..n - 1 |-> IF i < size THEN val[mask(tail + i)] ELSE Nil]
          /\ tail' = 0 /\ head' = size /\ capacity' = n
      BY <2>2, ZenonT(30) DEF Extend
    <3>2. size \in Nat /\ size < n
      BY <1>0, <2>2, SMT, SMTT(30) DEF Window, RingOK
    <3>3. ASSUME NEW p \in Int, tail <= p, p < head
          PROVE  QueueItems'[p - tail + 1] = QueueItems[p - tail + 1]
      <4>1. PICK i \in Int : i = p - tail
        BY <1>0, SMT, SMTT(30) DEF RingOK
      <4>2. 0 <= i /\ i < size /\ i \in 0..n - 1 /\ tail + i = p /\ i - 0 + 1 = p - tail + 1
        <5>1. head \in Nat /\ tail \in Nat
          BY <1>0, ZenonT(30) DEF RingOK
        <5>2. 0 <= i /\ i < size /\ tail + i = p /\ i - 0 + 1 = p - tail + 1
          BY <3>3, <4>1, <5>1, SMT, SMTT(30)
        <5> HIDE DEF size
        <5> QED BY <3>2, <5>2, SMT, SMTT(30)
      <4> HIDE DEF size
      <4>3. mask(i)' = i
        BY <3>1, <4>2, ModSmall, SMT, SMTT(30) DEF mask
      <4>4. QueueItems'[i - 0 + 1] = val'[mask(i)']
        BY <1>0, <1>2, <3>1, <4>2, ZenonT(30) DEF ItemFacts
      <4>5. QueueItems[p - tail + 1] = val[mask(p)]
        BY <1>0, <1>2, <3>3, ZenonT(30) DEF ItemFacts
      <4>6. val'[i] = val[mask(tail + i)]
        BY <3>1, <4>2, ZenonT(30)
      <4> QED BY <4>2, <4>3, <4>4, <4>5, <4>6, ZenonT(30)
    <3>4. head' - tail' = head - tail
      BY <1>0, <3>1, SMT, SMTT(30) DEF RingOK
    <3> QED BY <1>0, <3>3, <3>4, SameItems, ZenonT(30)
  <2> QED BY <2>1, <2>2, ZenonT(30)
<1>6. done' = done
  BY ZenonT(30) DEF Extend, ring
<1> QED BY <1>3, <1>4, <1>5, <1>6, ZenonT(30) DEF Quiet

(* Every step of Recv but the winning compare-and-swap is invisible.       *)
LEMMA RecvQuiet ==
  ASSUME QueueAssumption, TypeOK, RingInv, TypeOK', RingInv', NEW r \in Receivers,
         RecvStep(r), ~(RecvCas(r) /\ tail = pos[r])
  PROVE  Quiet /\ done' = done
<1> USE Disjoint
<1>0. /\ pc = [t \in Threads |-> pc[t]] /\ pos = [t \in Threads |-> pos[t]]
      /\ got = [q \in Receivers |-> got[q]] /\ value = [q \in Receivers |-> value[q]]
      /\ RingOK /\ Window /\ \A t \in Threads : pos[t] \in Int
      /\ ItemFacts /\ ItemFacts' /\ TakenFacts /\ TakenFacts'
  <2>1. Window /\ Window'
    BY ZenonT(30) DEF RingInv
  <2>2. ItemFacts /\ ItemFacts' /\ TakenFacts /\ TakenFacts'
    BY <2>1, FactsHold, ZenonT(30)
  <2> QED BY <2>1, <2>2, SMT, SMTT(30) DEF TypeOK, PcOK, CallsOK
<1>1. ASSUME UNCHANGED <<val, capacity, head, tail, done, sending, outcome>>,
             \A s \in Senders : /\ pos'[s] = pos[s]
                                /\ pc'[s] = pc[s] \/ (pc[s] = "sWait" /\ pc'[s] = "sRelock")
      PROVE  QueueItems' = QueueItems /\ SameHanded
  <2>1. QueueItems' = QueueItems
    BY <1>0, <1>1, CalmItems, ZenonT(30)
  <2>2. SameHanded
    BY <1>1, CalmHanded, ZenonT(30) DEF InFlight
  <2> QED BY <2>1, <2>2, ZenonT(30)
<1>2. ASSUME UNCHANGED <<val, capacity, head, tail, done, sending, outcome, got, value>>,
             \A s \in Senders : pos'[s] = pos[s] /\ pc'[s] = pc[s],
             \A q \in Receivers : q # r => pos'[q] = pos[q] /\ pc'[q] = pc[q],
             pc[r] \notin {"rRead", "rRecycle", "rSignal"},
             pc'[r] \notin {"rRead", "rRecycle", "rSignal"}
      PROVE  Quiet /\ done' = done
  <2>1. QueueTaken' = QueueTaken
    BY <1>0, <1>2, CalmTaken, ZenonT(30)
  <2> QED BY <1>1, <1>2, <2>1, ZenonT(30) DEF Quiet
<1>3. CASE RecvBegin(r) \/ RecvReload(r) \/ RecvRelock(r)
  BY <1>0, <1>2, <1>3, ZenonT(30) DEF RecvBegin, RecvReload, RecvRelock, Goto, ring, ends, log
<1>4. CASE RecvLoop(r)
  <2>1. /\ pc[r] = "rLoop" /\ \E to \in {"rCas", "rEnd", "rPark", "rReload"} : pc' = [pc EXCEPT ![r] = to]
        /\ UNCHANGED <<ring, ends, local, log>>
    BY <1>4, ZenonT(30) DEF RecvLoop, Goto
  <2> QED BY <1>0, <1>2, <2>1, ZenonT(30) DEF ring, ends, local, log
<1>5. CASE RecvPark(r)
  <2>1. /\ pc[r] \in {"rPark", "rWait"} /\ \E to \in {"rRelock", "rWait"} : pc' = [pc EXCEPT ![r] = to]
        /\ UNCHANGED <<ring, ends, local, log>>
    BY <1>5, ZenonT(30) DEF RecvPark, Goto
  <2> QED BY <1>0, <1>2, <2>1, ZenonT(30) DEF ring, ends, local, log
<1>6. CASE RecvCas(r)
  BY <1>0, <1>2, <1>6, ZenonT(30) DEF RecvCas, Goto, ring, local, log
<1>7. CASE RecvRecycle(r)
  <2>1. /\ UNCHANGED <<val, capacity, head, tail, done, sending, outcome, got, value, pos>>
        /\ pc[r] = "rRecycle" /\ pc' = [pc EXCEPT ![r] = "rSignal"]
    BY <1>7, ZenonT(30) DEF RecvRecycle, Goto, ends, local, log
  <2>2. QueueTaken' = QueueTaken
    BY <1>0, <2>1, CalmTaken, ZenonT(30)
  <2> QED BY <1>0, <1>1, <2>1, <2>2, ZenonT(30) DEF Quiet
<1>8. CASE RecvSignal(r)
  <2>0. AfterRecv(r) \in {"rStart", "rEnd"}
    BY ZenonT(30) DEF AfterRecv
  <2> HIDE DEF AfterRecv
  <2>1. /\ UNCHANGED <<val, capacity, head, tail, done, sending, outcome, pos>>
        /\ pc[r] = "rSignal"
        /\ got' = [got EXCEPT ![r] = Append(@, value[r])]
        /\ value' = [value EXCEPT ![r] = Nil]
        /\ \/ pc' = [pc EXCEPT ![r] = AfterRecv(r)]
           \/ \E s \in Senders : pc[s] = "sWait" /\ pc' = [pc EXCEPT ![r] = AfterRecv(r), ![s] = "sRelock"]
    BY <1>8, ZenonT(30) DEF RecvSignal, ring, ends
  <2>2. /\ pc'[r] \in {"rStart", "rEnd"}
        /\ \A q \in Receivers : q # r => pc'[q] = pc[q]
        /\ \A s \in Senders : pc'[s] = pc[s] \/ (pc[s] = "sWait" /\ pc'[s] = "sRelock")
    BY <1>0, <2>0, <2>1, ZenonT(30)
  <2>3. \A q \in Receivers : mask(pos[q])' = mask(pos[q])
    BY <2>1, ZenonT(30) DEF mask
  <2>4. ASSUME NEW q \in Receivers
        PROVE  QueueTaken'[q] = QueueTaken[q]
    <3>1. CASE q = r
      <4>1. QueueTaken[r] = Append(got[r], value[r]) /\ QueueTaken'[r] = got'[r]
        BY <1>0, <2>1, <2>2, ZenonT(30) DEF TakenFacts
      <4> QED BY <1>0, <2>1, <3>1, <4>1, ZenonT(30)
    <3>2. CASE q # r
      <4>1. pc'[q] = pc[q] /\ got'[q] = got[q] /\ value'[q] = value[q] /\ val' = val
        BY <1>0, <2>1, <2>2, <3>2, ZenonT(30)
      <4>2. CASE pc[q] = "rRead"
        BY <1>0, <2>3, <4>1, <4>2, ZenonT(30) DEF TakenFacts
      <4>3. CASE pc[q] \in {"rRecycle", "rSignal"}
        BY <1>0, <4>1, <4>3, ZenonT(30) DEF TakenFacts
      <4>4. CASE pc[q] \notin {"rRead", "rRecycle", "rSignal"}
        BY <1>0, <4>1, <4>4, ZenonT(30) DEF TakenFacts
      <4> QED BY <4>2, <4>3, <4>4, ZenonT(30)
    <3> QED BY <3>1, <3>2, ZenonT(30)
  <2>5. QueueTaken' = QueueTaken
    BY <1>0, <2>4, ZenonT(30) DEF TakenFacts
  <2> QED BY <1>1, <2>1, <2>2, <2>5, ZenonT(30) DEF Quiet
<1>9. CASE RecvRead(r)
  <2>1. /\ UNCHANGED <<capacity, head, tail, done, sending, outcome, got, pos>>
        /\ pc[r] = "rRead" /\ pc' = [pc EXCEPT ![r] = "rRecycle"] /\ Taker(r)
        /\ value' = [value EXCEPT ![r] = val[mask(pos[r])]]
        /\ val' = [val EXCEPT ![mask(pos[r])] = Nil]
        /\ head - capacity <= pos[r] /\ pos[r] < tail
    BY <1>0, <1>9, ZenonT(30) DEF RecvRead, Goto, ends, log, Taker, Window
  <2>2. \A p \in Int : mask(p)' = mask(p) /\ (mask(p) # mask(pos[r]) => val'[mask(p)] = val[mask(p)])
    <3>1. \A p \in Int : mask(p) \in 0..capacity - 1
      BY <1>0, MaskType, ZenonT(30)
    <3>2. \A p \in Int : mask(p)' = mask(p)
      BY <2>1, ZenonT(30) DEF mask
    <3> QED BY <1>0, <2>1, <3>1, <3>2, ZenonT(30) DEF RingOK
  <2>3. /\ \A q \in Receivers : q # r => pc'[q] = pc[q] /\ value'[q] = value[q]
        /\ \A s \in Senders : pc'[s] = pc[s]
        /\ pc'[r] = "rRecycle" /\ value'[r] = val[mask(pos[r])]
    BY <1>0, <2>1, ZenonT(30)
  <2>4. QueueItems' = QueueItems
    <3>1. ASSUME NEW p \in Int, tail <= p, p < head
          PROVE  QueueItems'[p - tail + 1] = QueueItems[p - tail + 1]
      <4>0. tail' <= p /\ p < head' /\ tail' = tail
        BY <2>1, <3>1, ZenonT(30)
      <4>1. CASE \E s \in Senders : pc[s] = "sWrite" /\ pos[s] = p
        <5>1. PICK s \in Senders : pc[s] = "sWrite" /\ pos[s] = p
          BY <4>1, ZenonT(30)
        <5>2. pc'[s] = "sWrite" /\ pos'[s] = p /\ Item(s)' = Item(s)
          BY <2>1, <2>3, <5>1, ZenonT(30) DEF Item
        <5>3. QueueItems[p - tail + 1] = Item(s)
          BY <1>0, <3>1, <5>1, ZenonT(30) DEF ItemFacts
        <5>4. QueueItems'[p - tail + 1] = Item(s)'
          BY <1>0, <4>0, <5>2, ZenonT(30) DEF ItemFacts
        <5> QED BY <5>2, <5>3, <5>4, ZenonT(30)
      <4>2. CASE \A s \in Senders : pc[s] = "sWrite" => pos[s] # p
        <5>1. \A s \in Senders : pc'[s] = "sWrite" => pos'[s] # p
          BY <2>1, <2>3, <4>2, ZenonT(30)
        <5>2. QueueItems[p - tail + 1] = val[mask(p)]
          BY <1>0, <3>1, <4>2, ZenonT(30) DEF ItemFacts
        <5>3. QueueItems'[p - tail + 1] = val'[mask(p)']
          BY <1>0, <4>0, <5>1, ZenonT(30) DEF ItemFacts
        <5>4. mask(p) # mask(pos[r])
          <6>1. p - pos[r] < capacity /\ pos[r] - p < capacity /\ pos[r] \in Int /\ p # pos[r]
            BY <1>0, <2>1, <3>1, SMT, SMTT(30) DEF RingOK
          <6> QED BY <1>0, <6>1, MaskInjective, ZenonT(30)
        <5> QED BY <2>2, <5>2, <5>3, <5>4, ZenonT(30)
      <4> QED BY <4>1, <4>2, ZenonT(30)
    <3> QED BY <1>0, <2>1, <3>1, SameItems, ZenonT(30)
  <2>5. ASSUME NEW q \in Receivers
        PROVE  QueueTaken'[q] = QueueTaken[q]
    <3>1. CASE q = r
      BY <1>0, <2>1, <2>3, <3>1, ZenonT(30) DEF TakenFacts
    <3>2. CASE q # r
      <4>1. CASE pc[q] = "rRead"
        <5>1. mask(pos[q]) # mask(pos[r]) /\ pos[q] \in Int
          BY <1>0, <2>1, <3>2, <4>1, SlotsExclusive, ZenonT(30) DEF Taker
        <5>2. QueueTaken[q] = Append(got[q], val[mask(pos[q])])
          BY <1>0, <4>1, ZenonT(30) DEF TakenFacts
        <5>3. QueueTaken'[q] = Append(got'[q], val'[mask(pos[q])'])
          BY <1>0, <2>3, <3>2, <4>1, ZenonT(30) DEF TakenFacts
        <5>4. mask(pos[q])' = mask(pos[q])
          BY <2>1, ZenonT(30) DEF mask
        <5> QED BY <2>1, <2>2, <5>1, <5>2, <5>3, <5>4, ZenonT(30)
      <4>2. CASE pc[q] \in {"rRecycle", "rSignal"}
        BY <1>0, <2>1, <2>3, <3>2, <4>2, ZenonT(30) DEF TakenFacts
      <4>3. CASE pc[q] \notin {"rRead", "rRecycle", "rSignal"}
        BY <1>0, <2>1, <2>3, <3>2, <4>3, ZenonT(30) DEF TakenFacts
      <4> QED BY <4>1, <4>2, <4>3, ZenonT(30)
    <3> QED BY <3>1, <3>2, ZenonT(30)
  <2>6. QueueTaken' = QueueTaken
    BY <1>0, <2>5, SMT, SMTT(30) DEF TakenFacts
  <2>7. SameHanded
    BY <2>1, <2>3, CalmHanded, ZenonT(30) DEF InFlight
  <2> QED BY <2>1, <2>4, <2>6, <2>7, ZenonT(30) DEF Quiet
<1> QED BY <1>3, <1>4, <1>5, <1>6, <1>7, <1>8, <1>9, ZenonT(30) DEF RecvStep

(* The queue is a sequence of head - tail items.                           *)
LEMMA QueueItemsType ==
  QueueAssumption /\ TypeOK /\ RingInv
    => QueueItems \in Seq(Items \cup {Nil}) /\ Len(QueueItems) = head - tail
<1> SUFFICES ASSUME QueueAssumption, TypeOK, RingInv
             PROVE  QueueItems \in Seq(Items \cup {Nil}) /\ Len(QueueItems) = head - tail
  BY ZenonT(30)
<1> USE Disjoint
<1>0. /\ RingOK /\ Window /\ Open /\ ItemFacts /\ head - tail \in Nat
      /\ head \in Nat /\ tail \in Nat
  <2>1. RingOK /\ Window /\ Open
    BY ZenonT(30) DEF TypeOK, RingInv
  <2> QED BY <2>1, ItemFactsHold, SMT, SMTT(30) DEF RingOK, Window
<1>1. ASSUME NEW i \in 1..head - tail
      PROVE  QueueItems[i] \in Items \cup {Nil}
  <2>1. PICK p \in Int : p = tail + i - 1
    BY <1>0, SMT, SMTT(30)
  <2>2. tail <= p /\ p < head /\ p - tail + 1 = i
    BY <1>0, <2>1, SMT, SMTT(30)
  <2>3. CASE \E s \in Senders : pc[s] = "sWrite" /\ pos[s] = p
    <3>1. PICK s \in Senders : pc[s] = "sWrite" /\ pos[s] = p
      BY <2>3, ZenonT(30)
    <3>2. QueueItems[i] = Item(s)
      BY <1>0, <2>2, <3>1, ZenonT(30) DEF ItemFacts
    <3>3. Item(s) \in Items
      BY <1>0, <3>1, ItemType, ZenonT(30)
    <3> QED BY <3>2, <3>3, ZenonT(30)
  <2>4. CASE \A s \in Senders : pc[s] = "sWrite" => pos[s] # p
    <3>1. QueueItems[i] = val[mask(p)]
      BY <1>0, <2>2, <2>4, ZenonT(30) DEF ItemFacts
    <3>2. mask(p) \in 0..capacity - 1
      BY <1>0, MaskType, ZenonT(30)
    <3> QED BY <1>0, <3>1, <3>2, ZenonT(30) DEF RingOK
  <2> QED BY <2>3, <2>4, ZenonT(30)
<1> QED BY <1>0, <1>1, SMT, SMTT(30) DEF ItemFacts

(* The compare-and-swap that wins the head appends the item, before Close, *)
(* and accepts it for the first time.                                      *)
LEMMA SendCasAccepts ==
  ASSUME QueueAssumption, TypeOK, RingInv, TypeOK', RingInv',
         NEW s \in Senders, SendCas(s), head = pos[s]
  PROVE  /\ Item(s) \in Items /\ ~done /\ done' = done
         /\ QueueItems' = Append(QueueItems, Item(s))
         /\ QueueTaken' = QueueTaken
         /\ ~HandedOver(s, sending[s])
         /\ \A q \in Senders, k \in Nat \ {0} :
              HandedOver(q, k)' <=> HandedOver(q, k) \/ (q = s /\ k = sending[s])
<1> USE Disjoint
<1>0. /\ pc = [t \in Threads |-> pc[t]] /\ head \in Nat /\ tail \in Nat
      /\ RingOK /\ Window /\ Window' /\ Open /\ \A t \in Threads : pos[t] \in Int
      /\ sending \in [Senders -> Nat \ {0}]
      /\ ItemFacts /\ ItemFacts' /\ TakenFacts /\ TakenFacts'
  <2>1. Window /\ Window' /\ Open
    BY ZenonT(30) DEF RingInv
  <2>2. ItemFacts /\ ItemFacts' /\ TakenFacts /\ TakenFacts'
    BY <2>1, FactsHold, ZenonT(30)
  <2>3. head \in Nat /\ tail \in Nat /\ RingOK
    BY ZenonT(30) DEF TypeOK, RingOK
  <2>4. /\ pc = [t \in Threads |-> pc[t]] /\ sending \in [Senders -> Nat \ {0}]
        /\ \A t \in Threads : pos[t] \in Int
    BY SMT, SMTT(30) DEF TypeOK, PcOK, CallsOK
  <2> QED BY <2>1, <2>2, <2>3, <2>4, ZenonT(30)
<1>1. /\ UNCHANGED <<capacity, tail, done, value, got, pos, sending, outcome, val>>
      /\ pc[s] = "sCas" /\ pc' = [pc EXCEPT ![s] = "sWrite"] /\ head' = head + 1
  BY SendCasRing, ZenonT(30) DEF ring, chans, local, log
<1>2. Item(s) \in Items
  BY <1>0, <1>1, ItemType, ZenonT(30)
<1>3. ~done
  BY <1>0, <1>1, ZenonT(30) DEF Open
<1>4. QueueTaken' = QueueTaken
  BY <1>0, <1>1, CalmTaken, ZenonT(30)
<1>5. QueueItems' = Append(QueueItems, Item(s))
  <2>1. QueueItems \in Seq(Items \cup {Nil}) /\ Len(QueueItems) = head - tail
    BY QueueItemsType, ZenonT(30)
  <2>2. (QueueItems \in Seq(Items \cup {Nil}) /\ Len(QueueItems) = head - tail)'
    BY QueueItemsType, PTL
  <2>3. tail <= head
    BY <1>0, ZenonT(30) DEF Window
  <2>4. \A p \in Int : mask(p)' = mask(p)
    BY <1>1, ZenonT(30) DEF mask
  <2>5. QueueItems'[head - tail + 1] = Item(s)
    <3>1. QueueItems'[head - tail' + 1] = Item(s)'
      BY <1>0, <1>1, <2>3, SMT, SMTT(30) DEF ItemFacts
    <3> QED BY <1>1, <3>1, ZenonT(30) DEF Item
  <2>6. ASSUME NEW i \in 1..head - tail
        PROVE  QueueItems'[i] = QueueItems[i]
    <3>1. PICK p \in Int : p = tail + i - 1
      BY <1>0, SMT, SMTT(30)
    <3>2. tail <= p /\ p < head /\ p - tail + 1 = i /\ tail' <= p /\ p < head' /\ p - tail' + 1 = i
      BY <1>0, <1>1, <3>1, SMT, SMTT(30)
    <3>3. CASE \E q \in Senders : pc[q] = "sWrite" /\ pos[q] = p
      <4>1. PICK q \in Senders : pc[q] = "sWrite" /\ pos[q] = p
        BY <3>3, ZenonT(30)
      <4>2. pc'[q] = "sWrite" /\ pos'[q] = p /\ Item(q)' = Item(q)
        BY <1>0, <1>1, <4>1, ZenonT(30) DEF Item
      <4>3. QueueItems[i] = Item(q)
        BY <1>0, <3>2, <4>1, ZenonT(30) DEF ItemFacts
      <4>4. QueueItems'[i] = Item(q)'
        BY <1>0, <3>2, <4>2, SMT, SMTT(30) DEF ItemFacts
      <4> QED BY <4>2, <4>3, <4>4, ZenonT(30)
    <3>4. CASE \A q \in Senders : pc[q] = "sWrite" => pos[q] # p
      <4>1. \A q \in Senders : pc'[q] = "sWrite" => pos'[q] # p
        BY <1>0, <1>1, <3>2, <3>4, SMT, SMTT(30)
      <4>2. QueueItems[i] = val[mask(p)]
        BY <1>0, <3>2, <3>4, ZenonT(30) DEF ItemFacts
      <4>3. QueueItems'[i] = val'[mask(p)']
        BY <1>0, <3>2, <4>1, ZenonT(30) DEF ItemFacts
      <4> QED BY <1>1, <2>4, <4>2, <4>3, ZenonT(30)
    <3> QED BY <3>3, <3>4, ZenonT(30)
  <2>7. Len(QueueItems') = Len(QueueItems) + 1
    BY <1>0, <1>1, <2>1, <2>2, SMT, SMTT(30)
  <2>8. /\ \A i \in 1..Len(QueueItems) : QueueItems'[i] = QueueItems[i]
        /\ QueueItems'[Len(QueueItems) + 1] = Item(s)
    BY <2>1, <2>5, <2>6, ZenonT(30)
  <2> QED BY <1>2, <2>1, <2>2, <2>7, <2>8, SMT, SMTT(30)
<1>6. ~HandedOver(s, sending[s])
  <2>1. sending[s] = Len(outcome[s]) + 1 /\ Len(outcome[s]) \in Nat
    <3>1. outcome[s] \in Seq(BOOLEAN)
      BY ZenonT(30) DEF TypeOK, CallsOK
    <3>2. Len(outcome[s]) \in Nat
      BY <3>1, SMT, SMTT(30)
    <3>3. sending[s] = Len(outcome[s]) + 1
      BY <1>0, ZenonT(30) DEF Open
    <3> QED BY <3>2, <3>3, ZenonT(30)
  <2> QED BY <1>1, <2>1, SMT, SMTT(30) DEF HandedOver, InFlight
<1>7. ASSUME NEW q \in Senders, NEW k \in Nat \ {0}
      PROVE  HandedOver(q, k)' <=> HandedOver(q, k) \/ (q = s /\ k = sending[s])
  <2>1. CASE q = s
    <3>1. sending[s] = Len(outcome[s]) + 1 /\ Len(outcome[s]) \in Nat
      <4>1. outcome[s] \in Seq(BOOLEAN)
        BY ZenonT(30) DEF TypeOK, CallsOK
      <4>2. Len(outcome[s]) \in Nat
        BY <4>1, SMT, SMTT(30)
      <4>3. sending[s] = Len(outcome[s]) + 1
        BY <1>0, ZenonT(30) DEF Open
      <4> QED BY <4>2, <4>3, ZenonT(30)
    <3>2. InFlight(s)' /\ ~InFlight(s)
      BY <1>0, <1>1, ZenonT(30) DEF InFlight
    <3> QED BY <1>1, <2>1, <3>1, <3>2, SMT, SMTT(30) DEF HandedOver
  <2>2. CASE q # s
    BY <1>0, <1>1, <2>2, ZenonT(30) DEF HandedOver, InFlight
  <2> QED BY <2>1, <2>2, ZenonT(30)
<1> QED BY <1>1, <1>2, <1>3, <1>4, <1>5, <1>6, <1>7, ZenonT(30)

(* The compare-and-swap that wins the tail takes the first item of the     *)
(* queue.                                                                  *)
LEMMA RecvCasTakes ==
  ASSUME QueueAssumption, TypeOK, RingInv, TypeOK', RingInv',
         NEW r \in Receivers, RecvCas(r), tail = pos[r]
  PROVE  /\ QueueItems # <<>> /\ done' = done
         /\ QueueItems' = Tail(QueueItems)
         /\ QueueTaken' = [QueueTaken EXCEPT ![r] = Append(@, Head(QueueItems))]
         /\ SameHanded
<1> USE Disjoint
<1>0. /\ pc = [t \in Threads |-> pc[t]] /\ head \in Nat /\ tail \in Nat
      /\ RingOK /\ Window /\ Window' /\ \A t \in Threads : pos[t] \in Int
      /\ ItemFacts /\ ItemFacts' /\ TakenFacts /\ TakenFacts'
  <2>1. Window /\ Window'
    BY ZenonT(30) DEF RingInv
  <2>2. ItemFacts /\ ItemFacts' /\ TakenFacts /\ TakenFacts'
    BY <2>1, FactsHold, ZenonT(30)
  <2>3. head \in Nat /\ tail \in Nat /\ RingOK
    BY ZenonT(30) DEF TypeOK, RingOK
  <2>4. pc = [t \in Threads |-> pc[t]] /\ \A t \in Threads : pos[t] \in Int
    BY SMT, SMTT(30) DEF TypeOK, PcOK, CallsOK
  <2> QED BY <2>1, <2>2, <2>3, <2>4, ZenonT(30)
<1>1. /\ UNCHANGED <<capacity, head, done, value, got, pos, sending, outcome, val>>
      /\ pc[r] = "rCas" /\ pc' = [pc EXCEPT ![r] = "rRead"] /\ tail' = tail + 1
      /\ tail < head /\ \A s \in Senders : Owner(s) => pos[s] # tail
  BY RecvCasRing, ZenonT(30) DEF ring, chans, local, log
<1>2. \A p \in Int : mask(p)' = mask(p)
  BY <1>1, ZenonT(30) DEF mask
<1>3. /\ \A s \in Senders : pc'[s] = pc[s]
      /\ \A q \in Receivers : q # r => pc'[q] = pc[q]
      /\ pc'[r] = "rRead"
  BY <1>0, <1>1, ZenonT(30)
<1>4. QueueItems \in Seq(Items \cup {Nil}) /\ Len(QueueItems) = head - tail
  BY QueueItemsType, ZenonT(30)
<1>5. (QueueItems \in Seq(Items \cup {Nil}) /\ Len(QueueItems) = head - tail)'
  BY QueueItemsType, PTL
<1>6. QueueItems # <<>> /\ Head(QueueItems) = QueueItems[1]
  BY <1>0, <1>1, <1>4, SMT, SMTT(30)
<1>7. QueueItems[1] = val[mask(tail)]
  <2>1. \A s \in Senders : pc[s] = "sWrite" => pos[s] # tail
    BY <1>1, ZenonT(30) DEF Owner
  <2>2. QueueItems[tail - tail + 1] = val[mask(tail)]
    <3>1. tail \in Int /\ tail <= tail /\ tail < head
      BY <1>0, <1>1, SMT, SMTT(30)
    <3> QED BY <1>0, <2>1, <3>1, ZenonT(30) DEF ItemFacts
  <2> QED BY <1>0, <2>2, SMT, SMTT(30)
<1>8. QueueItems' = Tail(QueueItems)
  <2>1. ASSUME NEW i \in 1..head - tail - 1
        PROVE  QueueItems'[i] = QueueItems[i + 1]
    <3>1. PICK p \in Int : p = tail + i
      BY <1>0, SMT, SMTT(30)
    <3>2. tail <= p /\ p < head /\ p - tail + 1 = i + 1 /\ tail' <= p /\ p < head' /\ p - tail' + 1 = i
      BY <1>0, <1>1, <3>1, SMT, SMTT(30)
    <3>3. CASE \E q \in Senders : pc[q] = "sWrite" /\ pos[q] = p
      <4>1. PICK q \in Senders : pc[q] = "sWrite" /\ pos[q] = p
        BY <3>3, ZenonT(30)
      <4>2. pc'[q] = "sWrite" /\ pos'[q] = p /\ Item(q)' = Item(q)
        BY <1>1, <1>3, <4>1, ZenonT(30) DEF Item
      <4>3. QueueItems[i + 1] = Item(q)
        <5>1. QueueItems[p - tail + 1] = Item(q)
          BY <1>0, <3>2, <4>1, ZenonT(30) DEF ItemFacts
        <5> QED BY <3>2, <5>1, ZenonT(30)
      <4>4. QueueItems'[i] = Item(q)'
        BY <1>0, <3>2, <4>2, ZenonT(30) DEF ItemFacts
      <4> QED BY <4>2, <4>3, <4>4, ZenonT(30)
    <3>4. CASE \A q \in Senders : pc[q] = "sWrite" => pos[q] # p
      <4>1. \A q \in Senders : pc'[q] = "sWrite" => pos'[q] # p
        BY <1>1, <1>3, <3>4, ZenonT(30)
      <4>2. QueueItems[i + 1] = val[mask(p)]
        BY <1>0, <3>2, <3>4, ZenonT(30) DEF ItemFacts
      <4>3. QueueItems'[i] = val'[mask(p)']
        BY <1>0, <3>2, <4>1, ZenonT(30) DEF ItemFacts
      <4> QED BY <1>1, <1>2, <4>2, <4>3, ZenonT(30)
    <3> QED BY <3>3, <3>4, ZenonT(30)
  <2>2. Len(QueueItems') = Len(QueueItems) - 1
    BY <1>0, <1>1, <1>4, <1>5, SMT, SMTT(30)
  <2>3. \A i \in 1..Len(QueueItems) - 1 : QueueItems'[i] = QueueItems[i + 1]
    BY <1>4, <2>1, ZenonT(30)
  <2> QED BY <1>4, <1>5, <1>6, <2>2, <2>3, SMT, SMTT(30)
<1>9. QueueTaken' = [QueueTaken EXCEPT ![r] = Append(@, Head(QueueItems))]
  <2>1. QueueTaken[r] = got[r] /\ QueueTaken'[r] = Append(got[r], val[mask(tail)])
    <3>1. QueueTaken[r] = got[r]
      BY <1>0, <1>1, ZenonT(30) DEF TakenFacts
    <3>2. QueueTaken'[r] = Append(got'[r], val'[mask(pos[r])'])
      BY <1>0, <1>3, ZenonT(30) DEF TakenFacts
    <3>3. mask(pos[r])' = mask(tail)
      BY <1>1, ZenonT(30) DEF mask
    <3> QED BY <1>1, <3>1, <3>2, <3>3, ZenonT(30)
  <2>2. ASSUME NEW q \in Receivers, q # r
        PROVE  QueueTaken'[q] = QueueTaken[q]
    <3>1. CASE pc[q] = "rRead"
      <4>1. mask(pos[q])' = mask(pos[q])
        BY <1>1, ZenonT(30) DEF mask
      <4>2. pc'[q] = "rRead" /\ got' = got /\ val' = val
        BY <1>1, <1>3, <2>2, <3>1, ZenonT(30)
      <4>3. /\ QueueTaken[q] = Append(got[q], val[mask(pos[q])])
            /\ QueueTaken'[q] = Append(got'[q], val'[mask(pos[q])'])
        BY <1>0, <3>1, <4>2, ZenonT(30) DEF TakenFacts
      <4> QED BY <4>1, <4>2, <4>3, ZenonT(30)
    <3>2. CASE pc[q] \in {"rRecycle", "rSignal"}
      BY <1>0, <1>1, <1>3, <2>2, <3>2, ZenonT(30) DEF TakenFacts
    <3>3. CASE pc[q] \notin {"rRead", "rRecycle", "rSignal"}
      <4>1. pc'[q] = pc[q] /\ got'[q] = got[q]
        BY <1>1, <1>3, <2>2, ZenonT(30)
      <4>2. QueueTaken[q] = got[q]
        BY <1>0, <3>3, ZenonT(30) DEF TakenFacts
      <4>3. QueueTaken'[q] = got'[q]
        BY <1>0, <3>3, <4>1, ZenonT(30) DEF TakenFacts
      <4> QED BY <4>1, <4>2, <4>3, ZenonT(30)
    <3> QED BY <3>1, <3>2, <3>3, ZenonT(30)
  <2> QED BY <1>0, <1>6, <1>7, <2>1, <2>2, ZenonT(30) DEF TakenFacts
<1>10. SameHanded
  BY <1>1, <1>3, CalmHanded, ZenonT(30) DEF InFlight
<1> QED BY <1>1, <1>6, <1>8, <1>9, <1>10, ZenonT(30)

-----------------------------------------------------------------------------
(* Every other step is invisible, or closes the queue.                     *)
LEMMA NextEffect ==
  ASSUME QueueAssumption, TypeOK, RingInv, TypeOK', RingInv', [Next]_vars
  PROVE  \/ Quiet /\ (done' = done \/ done' = TRUE)
         \/ \E s \in Senders : SendCas(s) /\ head = pos[s]
         \/ \E r \in Receivers : RecvCas(r) /\ tail = pos[r]
<1> USE Disjoint
<1>1. ASSUME NEW s \in Senders, SendStep(s), ~(SendCas(s) /\ head = pos[s])
      PROVE  Quiet /\ done' = done
  <2>1. CASE SendExtend(s)
    <3>1. /\ MayWrite /\ pc' = [pc EXCEPT ![s] = "sRelock"]
          /\ UNCHANGED <<pos, value, got, sending, outcome>>
      BY <2>1, ZenonT(30) DEF SendExtend, Goto, local, log
    <3>2. \E n \in Nat : Extend(n)
      <4>1. capacity \in Nat
        BY ZenonT(30) DEF TypeOK, RingOK
      <4>2. CASE Extend(2 * capacity)
        BY <4>1, <4>2, SMT, SMTT(30)
      <4>3. CASE UNCHANGED <<ring, ends>>
        <5>1. Extend(0)
          BY <4>1, <4>3, SMT, SMTT(30) DEF Extend
        <5> QED BY <5>1, ZenonT(30)
      <4> QED BY <2>1, <4>2, <4>3, ZenonT(30) DEF SendExtend
    <3> QED BY <3>1, <3>2, ExtendQuiet, ZenonT(30)
  <2> QED BY <1>1, <2>1, SendCalmQuiet, SendWriteQuiet, ZenonT(30) DEF SendStep
<1>2. ASSUME NEW t \in Growers, Grow(t)
      PROVE  Quiet /\ done' = done
  <2>1. /\ MayWrite /\ Extend(GrowTo) /\ pc' = [pc EXCEPT ![t] = "gEnd"]
        /\ UNCHANGED <<pos, value, got, sending, outcome>> /\ GrowTo \in Nat
    BY <1>2, ZenonT(30) DEF Grow, Goto, local, log, QueueAssumption
  <2> QED BY <2>1, ExtendQuiet, ZenonT(30)
<1>3. ASSUME UNCHANGED <<val, capacity, head, tail, pos, value, sending, outcome, got>>,
             \A u \in Senders \cup Receivers : pc'[u] = pc[u]
      PROVE  Quiet
  <2>0. ItemFacts /\ ItemFacts' /\ TakenFacts /\ TakenFacts'
    BY FactsHold, ZenonT(30) DEF RingInv
  <2>1. QueueItems' = QueueItems
    BY <1>3, <2>0, CalmItems, ZenonT(30)
  <2>2. QueueTaken' = QueueTaken
    BY <1>3, <2>0, CalmTaken, ZenonT(30)
  <2>3. SameHanded
    BY <1>3, CalmHanded, ZenonT(30) DEF InFlight
  <2> QED BY <2>1, <2>2, <2>3, ZenonT(30) DEF Quiet
<1>4. ASSUME NEW t \in Closers, Close(t)
      PROVE  Quiet /\ done' = TRUE
  <2>1. \A u \in Senders \cup Receivers : pc'[u] = pc[u]
    BY <1>4, SMT, SMTT(30) DEF Close, Goto, TypeOK, PcOK
  <2> QED BY <1>3, <1>4, <2>1, ZenonT(30) DEF Close, ends, local, log
<1>5. ASSUME NEW t \in load.cancels, Cancel(t)
      PROVE  Quiet /\ done' = done
  BY <1>3, <1>5, ZenonT(30) DEF Cancel, ring, ends, local, log
<1>6. CASE UNCHANGED vars
  BY <1>3, <1>6, ZenonT(30) DEF vars
<1> QED BY <1>1, <1>2, <1>4, <1>5, <1>6, RecvQuiet, ZenonT(30) DEF Next

(* Every step of the ring is a step of Fifo or a stutter.                  *)
LEMMA FifoStep ==
  ASSUME QueueAssumption, TypeOK, RingInv, TypeOK', RingInv', [Next]_vars
  PROVE  [Queue!FifoNext]_(Queue!fifoVars)
<1>1. CASE Quiet /\ (done' = done \/ done' = TRUE)
  BY <1>1, ZenonT(30) DEF Quiet, Queue!FifoNext, Queue!fifoVars, Queue!Shut
<1>2. ASSUME NEW s \in Senders, SendCas(s), head = pos[s]
      PROVE  Queue!FifoNext
  <2>1. Item(s) \in Items /\ Queue!Accept(Item(s))
    BY <1>2, SendCasAccepts, ZenonT(30) DEF Queue!Accept
  <2> QED BY <2>1, ZenonT(30) DEF Queue!FifoNext
<1>3. ASSUME NEW r \in Receivers, RecvCas(r), tail = pos[r]
      PROVE  Queue!FifoNext
  <2>1. Queue!Take(r)
    BY <1>3, RecvCasTakes, ZenonT(30) DEF Queue!Take
  <2> QED BY <2>1, ZenonT(30) DEF Queue!FifoNext
<1> QED BY <1>1, <1>2, <1>3, NextEffect, ZenonT(30)

(* The ring starts as the empty Fifo.                                      *)
LEMMA FifoStart ==
  ASSUME QueueAssumption, Init
  PROVE  Queue!FifoInit
<1> USE Disjoint
<1>1. /\ TypeOK /\ RingInv /\ head = 0 /\ tail = 0 /\ done = FALSE
      /\ \A r \in Receivers : got[r] = <<>> /\ pc[r] = First(r)
  BY InitTypeOK, InitRing, ZenonT(30) DEF Init
<1>2. QueueItems = <<>>
  BY <1>1, QueueItemsType, SMT, SMTT(30)
<1>3. \A r \in Receivers : QueueTaken[r] = <<>>
  <2>1. \A r \in Receivers : pc[r] \in {"rEnd", "rStart"}
    BY <1>1, ZenonT(30) DEF First
  <2> QED BY <1>1, <2>1, TakenFactsHold, ZenonT(30) DEF TakenFacts
<1>4. QueueTaken = [r \in Receivers |-> <<>>]
  BY <1>3, TakenFactsHold, ZenonT(30) DEF TakenFacts
<1> QED BY <1>1, <1>2, <1>4, ZenonT(30) DEF Queue!FifoInit

(* The ring buffer implements the first-in first-out queue of Fifo (Send,  *)
(* Recv, Grow, Close and extend of queue.go).                              *)
THEOREM QueueLinearizable ==
  ASSUME QueueAssumption
  PROVE  Spec => Linearizable
<1>1. Init => Queue!FifoInit
  BY FifoStart, ZenonT(30)
<1>2. TypeOK /\ RingInv /\ (TypeOK /\ RingInv)' /\ [Next]_vars
      => [Queue!FifoNext]_(Queue!fifoVars)
  BY FifoStep, ZenonT(30)
<1>3. Spec => [](TypeOK /\ RingInv)
  BY RingCorrect, ZenonT(30)
<1> QED BY <1>1, <1>2, <1>3, PTL DEF Spec, Linearizable, Queue!FifoSpec

-----------------------------------------------------------------------------
(* What a receiver took is a sequence.                                     *)
LEMMA QueueTakenType ==
  QueueAssumption /\ TypeOK => \A r \in Receivers : QueueTaken[r] \in Seq(Items \cup {Nil})
<1> SUFFICES ASSUME QueueAssumption, TypeOK, NEW r \in Receivers
             PROVE  QueueTaken[r] \in Seq(Items \cup {Nil})
  BY ZenonT(30)
<1>1. /\ got[r] \in Seq(Items \cup {Nil}) /\ value[r] \in Items \cup {Nil}
      /\ RingOK /\ pos[r] \in Int
  BY Disjoint, SMT, SMTT(30) DEF TypeOK, CallsOK
<1>2. val[mask(pos[r])] \in Items \cup {Nil}
  <2>1. mask(pos[r]) \in 0..capacity - 1
    BY <1>1, MaskType, ZenonT(30)
  <2> QED BY <1>1, <2>1, ZenonT(30) DEF RingOK
<1>3. \/ QueueTaken[r] = Append(got[r], val[mask(pos[r])])
      \/ QueueTaken[r] = Append(got[r], value[r])
      \/ QueueTaken[r] = got[r]
  BY TakenFactsHold, ZenonT(30) DEF TakenFacts
<1>4. ASSUME NEW v \in Items \cup {Nil}
      PROVE  Append(got[r], v) \in Seq(Items \cup {Nil})
  BY <1>1, SMT, SMTT(30)
<1> QED BY <1>1, <1>2, <1>3, <1>4, ZenonT(30)

(* No item is anywhere, and none was accepted, initially.                  *)
LEMMA PlacementStart ==
  ASSUME QueueAssumption, Init
  PROVE  Placement
<1>1. QueueItems = <<>> /\ QueueTaken = [r \in Receivers |-> <<>>]
  BY FifoStart, ZenonT(30) DEF Queue!FifoInit
<1>2. \A s \in Senders, k \in Nat \ {0} : ~HandedOver(s, k)
  <2>1. \A s \in Senders : pc[s] \in {"sStart", "sEnd"} /\ outcome[s] = <<>>
    BY Disjoint, ZenonT(30) DEF Init, First
  <2> QED BY <2>1, SMT, SMTT(30) DEF HandedOver, InFlight
<1>3. \A x : OncePlaced(x) /\ ~Somewhere(x)
  BY <1>1, SMT, SMTT(30) DEF OncePlaced, Somewhere
<1> QED BY <1>2, <1>3, ZenonT(30) DEF Placement

(* An invisible step keeps the places of the items.                        *)
LEMMA PlacementQuiet ==
  ASSUME Placement, Quiet
  PROVE  Placement'
<1>1. \A x : (OncePlaced(x)' <=> OncePlaced(x)) /\ (Somewhere(x)' <=> Somewhere(x))
  BY SMT, SMTT(30) DEF Quiet, OncePlaced, Somewhere
<1> QED BY <1>1, ZenonT(30) DEF Placement, Quiet, SameHanded

(* Winning the head puts the item, which was nowhere, in one place.        *)
LEMMA PlacementAccept ==
  ASSUME QueueAssumption, TypeOK, RingInv, TypeOK', RingInv', Placement,
         NEW s \in Senders, SendCas(s), head = pos[s]
  PROVE  Placement'
<1>0. QueueItems \in Seq(Items \cup {Nil}) /\ Item(s) \in Items
  BY QueueItemsType, SendCasAccepts, ZenonT(30)
<1>1. /\ QueueItems' = Append(QueueItems, Item(s)) /\ QueueTaken' = QueueTaken
      /\ ~HandedOver(s, sending[s])
      /\ \A q \in Senders, k \in Nat \ {0} :
           HandedOver(q, k)' <=> HandedOver(q, k) \/ (q = s /\ k = sending[s])
  BY SendCasAccepts, ZenonT(30)
<1>2. sending[s] \in Nat \ {0}
  BY ZenonT(30) DEF TypeOK, CallsOK
<1>3. ~Somewhere(Item(s))
  BY <1>1, <1>2, ZenonT(30) DEF Placement, Item
<1> DEFINE n == Len(QueueItems)
<1>4. /\ DOMAIN QueueItems = 1..n /\ n \in Nat
      /\ DOMAIN QueueItems' = 1..n + 1
      /\ \A i \in 1..n : QueueItems'[i] = QueueItems[i]
      /\ QueueItems'[n + 1] = Item(s)
  BY <1>0, <1>1, SMT, SMTT(30)
<1> HIDE DEF n
<1>5. \A i \in DOMAIN QueueItems' :
        \/ i \in DOMAIN QueueItems /\ QueueItems'[i] = QueueItems[i]
        \/ i = n + 1 /\ QueueItems'[i] = Item(s)
  BY <1>4, SMT, SMTT(30)
<1>6. ASSUME NEW x
      PROVE  Somewhere(x)' <=> Somewhere(x) \/ x = Item(s)
  <2>1. ASSUME Somewhere(x)'
        PROVE  Somewhere(x) \/ x = Item(s)
    BY <1>1, <1>5, <2>1, SMT, SMTT(30) DEF Somewhere
  <2>2. ASSUME Somewhere(x)
        PROVE  Somewhere(x)'
    BY <1>1, <1>4, <2>2, SMT, SMTT(30) DEF Somewhere
  <2>3. n + 1 \in DOMAIN QueueItems'
    BY <1>4, SMT, SMTT(30)
  <2>4. ASSUME x = Item(s)
        PROVE  Somewhere(x)'
    BY <1>4, <2>3, <2>4, ZenonT(30) DEF Somewhere
  <2> QED BY <2>1, <2>2, <2>4, ZenonT(30)
<1>7. ASSUME NEW x, OncePlaced(x)
      PROVE  OncePlaced(x)'
  <2>1. CASE x = Item(s)
    <3>1. /\ \A i \in DOMAIN QueueItems : QueueItems[i] # x
          /\ \A r \in Receivers : \A i \in DOMAIN QueueTaken[r] : QueueTaken[r][i] # x
      BY <1>3, <2>1, ZenonT(30) DEF Somewhere
    <3>2. \A i \in DOMAIN QueueItems' : QueueItems'[i] = x => i = n + 1
      BY <1>5, <3>1, ZenonT(30)
    <3> QED BY <1>1, <3>1, <3>2, ZenonT(30) DEF OncePlaced
  <2>2. CASE x # Item(s)
    <3>1. \A i \in DOMAIN QueueItems' : QueueItems'[i] = x => i \in DOMAIN QueueItems /\ QueueItems[i] = x
      BY <1>5, <2>2, ZenonT(30)
    <3> QED BY <1>1, <1>7, <3>1, SMT, SMTT(30) DEF OncePlaced
  <2> QED BY <2>1, <2>2, ZenonT(30)
<1>8. \A q \in Senders, k \in Nat \ {0} : <<q, k>> = Item(s) <=> q = s /\ k = sending[s]
  BY ZenonT(30) DEF Item
<1> QED BY <1>1, <1>6, <1>7, <1>8, ZenonT(30) DEF Placement

(* Winning the tail moves an item from the queue to its receiver.          *)
LEMMA PlacementTake ==
  ASSUME QueueAssumption, TypeOK, RingInv, TypeOK', RingInv', Placement,
         NEW r \in Receivers, RecvCas(r), tail = pos[r]
  PROVE  Placement'
<1>0. /\ QueueItems \in Seq(Items \cup {Nil}) /\ QueueItems # <<>>
      /\ \A q \in Receivers : QueueTaken[q] \in Seq(Items \cup {Nil})
  BY QueueItemsType, QueueTakenType, RecvCasTakes, ZenonT(30)
<1>1. /\ QueueItems' = Tail(QueueItems) /\ SameHanded
      /\ QueueTaken' = [QueueTaken EXCEPT ![r] = Append(@, Head(QueueItems))]
  BY RecvCasTakes, ZenonT(30)
<1> DEFINE n == Len(QueueItems)
           m == Len(QueueTaken[r])
<1>2. /\ n \in Nat \ {0} /\ DOMAIN QueueItems = 1..n /\ DOMAIN QueueItems' = 1..n - 1
      /\ \A i \in 1..n - 1 : QueueItems'[i] = QueueItems[i + 1]
      /\ Head(QueueItems) = QueueItems[1] /\ Head(QueueItems) \in Items \cup {Nil}
  BY <1>0, <1>1, SMT, SMTT(30)
<1>3. /\ \A q \in Receivers : q # r => QueueTaken'[q] = QueueTaken[q]
      /\ QueueTaken'[r] = Append(QueueTaken[r], QueueItems[1])
  BY <1>1, <1>2, TakenFactsHold, ZenonT(30) DEF TakenFacts
<1>4. /\ m \in Nat /\ DOMAIN QueueTaken[r] = 1..m /\ DOMAIN QueueTaken'[r] = 1..m + 1
      /\ \A i \in 1..m : QueueTaken'[r][i] = QueueTaken[r][i]
      /\ QueueTaken'[r][m + 1] = QueueItems[1]
  BY <1>0, <1>2, <1>3, SMT, SMTT(30)
<1> HIDE DEF n, m
<1>5. \A i \in DOMAIN QueueItems' : i + 1 \in DOMAIN QueueItems /\ QueueItems'[i] = QueueItems[i + 1]
                                   /\ i + 1 # 1 /\ i \in Int
  BY <1>2, SMT, SMTT(30)
<1>6. \A q \in Receivers : \A j \in DOMAIN QueueTaken'[q] :
        \/ j \in DOMAIN QueueTaken[q] /\ QueueTaken'[q][j] = QueueTaken[q][j] /\ ~(q = r /\ j = m + 1)
        \/ q = r /\ j = m + 1 /\ QueueTaken'[q][j] = QueueItems[1]
  BY <1>3, <1>4, SMT, SMTT(30)
<1>7. 1 \in DOMAIN QueueItems /\ m + 1 \in DOMAIN QueueTaken'[r]
  BY <1>2, <1>4, SMT, SMTT(30)
<1>8. ASSUME NEW x, OncePlaced(x)
      PROVE  OncePlaced(x)'
  <2>1. ASSUME NEW i \in DOMAIN QueueItems', NEW j \in DOMAIN QueueItems',
               QueueItems'[i] = x, QueueItems'[j] = x
        PROVE  i = j
    <3>1. i + 1 = j + 1
      BY <1>5, <1>8, <2>1, ZenonT(30) DEF OncePlaced
    <3> QED BY <1>5, <3>1, SMT, SMTT(30)
  <2>2. ASSUME NEW q \in Receivers, NEW u \in Receivers,
               NEW i \in DOMAIN QueueTaken'[q], NEW j \in DOMAIN QueueTaken'[u],
               QueueTaken'[q][i] = x, QueueTaken'[u][j] = x
        PROVE  q = u /\ i = j
    <3>1. CASE QueueItems[1] = x
      <4>1. \A p \in Receivers : \A l \in DOMAIN QueueTaken[p] : QueueTaken[p][l] # x
        BY <1>7, <1>8, <3>1, SMT, SMTT(30) DEF OncePlaced
      <4> QED BY <1>6, <2>2, <4>1, SMT, SMTT(30)
    <3>2. CASE QueueItems[1] # x
      <4>1. /\ i \in DOMAIN QueueTaken[q] /\ QueueTaken[q][i] = x
            /\ j \in DOMAIN QueueTaken[u] /\ QueueTaken[u][j] = x
        BY <1>6, <2>2, <3>2, ZenonT(30)
      <4> QED BY <1>8, <4>1, ZenonT(30) DEF OncePlaced
    <3> QED BY <3>1, <3>2, ZenonT(30)
  <2>3. ASSUME NEW q \in Receivers, NEW i \in DOMAIN QueueItems', NEW j \in DOMAIN QueueTaken'[q],
               QueueItems'[i] = x, QueueTaken'[q][j] = x
        PROVE  FALSE
    <3>1. i + 1 \in DOMAIN QueueItems /\ QueueItems[i + 1] = x /\ i + 1 # 1
      BY <1>5, <2>3, ZenonT(30)
    <3>2. QueueItems[1] # x
      BY <1>7, <1>8, <3>1, ZenonT(30) DEF OncePlaced
    <3>3. j \in DOMAIN QueueTaken[q] /\ QueueTaken[q][j] = x
      BY <1>6, <2>3, <3>2, ZenonT(30)
    <3> QED BY <1>8, <3>1, <3>3, ZenonT(30) DEF OncePlaced
  <2> QED BY <2>1, <2>2, <2>3, ZenonT(30) DEF OncePlaced
<1>9. ASSUME NEW x
      PROVE  Somewhere(x)' <=> Somewhere(x)
  <2>1. ASSUME NEW i \in DOMAIN QueueItems, QueueItems[i] = x
        PROVE  Somewhere(x)'
    <3>1. CASE i = 1
      <4>1. QueueTaken'[r][m + 1] = x
        BY <1>4, <2>1, <3>1, ZenonT(30)
      <4> QED BY <1>7, <4>1, ZenonT(30) DEF Somewhere
    <3>2. CASE i # 1
      <4>1. i - 1 \in DOMAIN QueueItems' /\ QueueItems'[i - 1] = QueueItems[i]
        BY <1>2, <3>2, SMT, SMTT(30)
      <4> QED BY <2>1, <4>1, ZenonT(30) DEF Somewhere
    <3> QED BY <3>1, <3>2, ZenonT(30)
  <2>2. ASSUME NEW q \in Receivers, NEW j \in DOMAIN QueueTaken[q], QueueTaken[q][j] = x
        PROVE  Somewhere(x)'
    <3>1. CASE q = r
      <4>1. j \in 1..m /\ QueueTaken'[r][j] = x
        BY <1>4, <2>2, <3>1, ZenonT(30)
      <4>2. j \in 1..m + 1
        BY <1>4, <4>1, SMT, SMTT(30)
      <4> QED BY <1>4, <4>1, <4>2, ZenonT(30) DEF Somewhere
    <3>2. CASE q # r
      <4>1. QueueTaken'[q] = QueueTaken[q]
        BY <1>3, <3>2, ZenonT(30)
      <4>2. j \in DOMAIN QueueTaken'[q] /\ QueueTaken'[q][j] = x
        BY <2>2, <4>1, ZenonT(30)
      <4> QED BY <4>2, ZenonT(30) DEF Somewhere
    <3> QED BY <3>1, <3>2, ZenonT(30)
  <2>3. ASSUME NEW i \in DOMAIN QueueItems', QueueItems'[i] = x
        PROVE  Somewhere(x)
    BY <1>5, <2>3, ZenonT(30) DEF Somewhere
  <2>4. ASSUME NEW q \in Receivers, NEW j \in DOMAIN QueueTaken'[q], QueueTaken'[q][j] = x
        PROVE  Somewhere(x)
    BY <1>6, <1>7, <2>4, ZenonT(30) DEF Somewhere
  <2>5. Somewhere(x) => Somewhere(x)'
    <3> SUFFICES ASSUME Somewhere(x)
                 PROVE  Somewhere(x)'
      BY ZenonT(30)
    <3>1. \/ \E i \in DOMAIN QueueItems : QueueItems[i] = x
          \/ \E q \in Receivers : \E i \in DOMAIN QueueTaken[q] : QueueTaken[q][i] = x
      BY ZenonT(30) DEF Somewhere
    <3> QED BY <2>1, <2>2, <3>1, ZenonT(30)
  <2>6. Somewhere(x)' => Somewhere(x)
    <3> SUFFICES ASSUME Somewhere(x)'
                 PROVE  Somewhere(x)
      BY ZenonT(30)
    <3>1. \/ \E i \in DOMAIN QueueItems' : QueueItems'[i] = x
          \/ \E q \in Receivers : \E i \in DOMAIN QueueTaken'[q] : QueueTaken'[q][i] = x
      BY ZenonT(30) DEF Somewhere
    <3> QED BY <2>3, <2>4, <3>1, ZenonT(30)
  <2> QED BY <2>5, <2>6, ZenonT(30)
<1> QED BY <1>1, <1>8, <1>9, ZenonT(30) DEF Placement, SameHanded

(* A set of at most one element counts as many as it has; shown from the   *)
(* definition of Cardinality.                                              *)
LEMMA CountFew ==
  ASSUME NEW x, NEW S, S \in {{}, {x}}
  PROVE  Cardinality(S) = IF S = {} THEN 0 ELSE 1
<1> DEFINE Step(g, T) == IF T = {} THEN 0 ELSE 1 + g[T \ {CHOOSE y : y \in T}]
           Counts(g) == g = [T \in SUBSET S |-> Step(g, T)]
           few == [T \in SUBSET S |-> IF T = {} THEN 0 ELSE 1]
           count == CHOOSE g : Counts(g)
<1>1. Cardinality(S) = count[S]
  BY DEF Cardinality
<1>2. \A T \in SUBSET S : T = {} \/ T = {x}
  BY ZenonT(30)
<1>3. (CHOOSE y : y \in {x}) = x /\ {x} \ {x} = {}
  BY ZenonT(30)
<1>4. Counts(few)
  <2>1. ASSUME NEW T \in SUBSET S PROVE Step(few, T) = IF T = {} THEN 0 ELSE 1
    <3>1. CASE T = {}
      BY <3>1
    <3>2. CASE T = {x}
      <4>1. T \ {CHOOSE y : y \in T} = {} /\ T # {}
        BY <1>3, <3>2, ZenonT(30)
      <4>2. few[{}] = 0
        BY ZenonT(30)
      <4>3. Step(few, T) = 1 + few[{}]
        BY <4>1, ZenonT(30)
      <4> HIDE DEF Step, few
      <4> QED
        BY <4>1, <4>2, <4>3
    <3> QED
      BY <1>2, <3>1, <3>2
  <2> QED
    BY <2>1, ZenonT(30)
<1>5. Counts(count)
  BY <1>4, ZenonT(30)
<1>6. \A T \in SUBSET S : count[T] = Step(count, T)
  BY <1>5, ZenonT(30)
<1>7. count[{}] = 0
  <2>1. {} \in SUBSET S
    BY ZenonT(30)
  <2> QED
    BY <1>6, <2>1, ZenonT(30)
<1>8. CASE S = {x} /\ S # {}
  <2>1. S \ {CHOOSE y : y \in S} = {}
    BY <1>3, <1>8, ZenonT(30)
  <2>2. count[S] = Step(count, S)
    BY <1>6, ZenonT(30)
  <2>3. count[S] = 1 + count[{}]
    BY <1>8, <2>1, <2>2, ZenonT(30)
  <2> HIDE DEF count
  <2> QED
    BY <1>1, <1>7, <1>8, <2>3
<1> HIDE DEF count
<1> QED
  BY <1>1, <1>7, <1>8, ZenonT(30)

(* Placement implies OwnershipExact.                                       *)
LEMMA PlacementMeansOwnership ==
  ASSUME QueueAssumption, TypeOK, Placement
  PROVE  OwnershipExact
<1> SUFFICES ASSUME NEW s \in Senders, NEW k \in 1..Len(outcome[s])
             PROVE  Cardinality(Places(<<s, k>>)) = IF outcome[s][k] THEN 1 ELSE 0
  BY ZenonT(30) DEF OwnershipExact
<1> DEFINE x == <<s, k>>
<1>0. outcome[s] \in Seq(BOOLEAN) /\ k \in Nat \ {0} /\ outcome[s][k] \in BOOLEAN
  BY SMT, SMTT(30) DEF TypeOK, CallsOK
<1>1. OncePlaced(x) /\ (Somewhere(x) <=> outcome[s][k])
  <2>1. HandedOver(s, k) <=> outcome[s][k]
    BY <1>0, SMT, SMTT(30) DEF HandedOver
  <2> QED BY <1>0, <2>1, ZenonT(30) DEF Placement
<1> HIDE DEF x
<1>2. \A pl : pl \in Places(x) <=>
        \/ \E i \in DOMAIN QueueItems : pl = <<i>> /\ QueueItems[i] = x
        \/ \E r \in Receivers : \E i \in DOMAIN QueueTaken[r] : pl = <<r, i>> /\ QueueTaken[r][i] = x
  <2> DEFINE A == {<<i>> : i \in {j \in DOMAIN QueueItems : QueueItems[j] = x}}
             B(r) == {<<r, i>> : i \in {j \in DOMAIN QueueTaken[r] : QueueTaken[r][j] = x}}
  <2>1. \A pl : pl \in A <=> \E i \in DOMAIN QueueItems : pl = <<i>> /\ QueueItems[i] = x
    BY ZenonT(30)
  <2>2. \A r : \A pl : pl \in B(r) <=> \E i \in DOMAIN QueueTaken[r] : pl = <<r, i>> /\ QueueTaken[r][i] = x
    BY ZenonT(30)
  <2>3. Places(x) = A \cup UNION {B(r) : r \in Receivers}
    BY ZenonT(30) DEF Places
  <2> HIDE DEF A, B
  <2>4. \A pl : pl \in Places(x) <=> pl \in A \/ \E r \in Receivers : pl \in B(r)
    BY <2>3, ZenonT(30)
  <2> QED BY <2>1, <2>2, <2>4, ZenonT(60)
<1>3. CASE ~outcome[s][k]
  <2>1. Places(x) = {}
    BY <1>1, <1>2, <1>3, ZenonT(30) DEF Somewhere
  <2>2. Cardinality({}) = 0
    BY CountFew, ZenonT(30)
  <2> QED BY <1>3, <2>1, <2>2, ZenonT(30) DEF x
<1>4. CASE outcome[s][k]
  <2>1. PICK pl : pl \in Places(x)
    <3>1. CASE \E i \in DOMAIN QueueItems : QueueItems[i] = x
      BY <1>2, <3>1, ZenonT(30)
    <3>2. CASE \E r \in Receivers : \E i \in DOMAIN QueueTaken[r] : QueueTaken[r][i] = x
      BY <1>2, <3>2, ZenonT(30)
    <3> QED BY <1>1, <1>4, <3>1, <3>2, ZenonT(30) DEF Somewhere
  <2>2. ASSUME NEW p1 \in Places(x), NEW p2 \in Places(x)
        PROVE  p1 = p2
    BY <1>1, <1>2, <2>2, SMT, SMTT(30) DEF OncePlaced
  <2>3. Places(x) = {pl}
    BY <2>1, <2>2, ZenonT(30)
  <2>4. Cardinality({pl}) = 1
    BY CountFew, ZenonT(30)
  <2> QED BY <1>4, <2>3, <2>4, ZenonT(30) DEF x
<1> QED BY <1>0, <1>3, <1>4, ZenonT(30)

(* Send returns true exactly when it handed its item over, once, so that a *)
(* caller that gets false still owns the message (Send in queue.go).       *)
THEOREM QueueOwnership ==
  ASSUME QueueAssumption
  PROVE  Spec => []OwnershipExact
<1>1. Init => Placement
  BY PlacementStart, ZenonT(30)
<1>2. TypeOK /\ RingInv /\ (TypeOK /\ RingInv)' /\ Placement /\ [Next]_vars => Placement'
  BY NextEffect, PlacementQuiet, PlacementAccept, PlacementTake, ZenonT(30)
<1>3. Spec => [](TypeOK /\ RingInv)
  BY RingCorrect, ZenonT(30)
<1>4. TypeOK /\ Placement => OwnershipExact
  BY PlacementMeansOwnership, ZenonT(30)
<1> QED BY <1>1, <1>2, <1>3, <1>4, PTL DEF Spec
=============================================================================
