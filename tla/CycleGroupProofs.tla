------------------------- MODULE CycleGroupProofs -------------------------
(***************************************************************************)
(* Proofs about CycleGroup for every group size, topology, number of       *)
(* processing goroutines and supply of messages.                           *)
(***************************************************************************)
EXTENDS CycleGroup, FiniteSetTheorems, TLAPS

(* The strengthening of the safety properties. Busy goroutines own a       *)
(* message, so their presence shows in the count; the count reaches zero   *)
(* once; and only members past quiescence close anything.                  *)
Busy(w) == proc[w] \in {"run", "send", "sending"}

CountOK ==
  /\ IsFiniteSet(Counted)
  /\ InflightExact

ZeroOK ==
  /\ sawZero => inflight = 0
  /\ zero => sawZero

BusyOK ==
  \A w \in Workers : Busy(w) =>
    /\ \E x \in Msgs : loc[x] = At("proc", w[1], w)
    /\ loop[w[1]] \in {"recv", "hold", "join"}

StandardOK == \A s \in Std : loop[s] # "done" => main[Dst[s]] = "standard"

TeardownOK ==
  /\ \A l \in Listeners : closed[l] => zero
  /\ \A m \in Members :
       main[m] \in {"sleep", "cleanup", "wake", "recursive", "done"} => zero

IInv == TypeOK /\ CountOK /\ ZeroOK /\ BusyOK /\ StandardOK /\ TeardownOK

-----------------------------------------------------------------------------
(* The members that still count are finitely many.                         *)
LEMMA NotReadyFinite == IsFiniteSet(NotReady)
<1>1. IsFiniteSet(Members)
  BY FS_Interval, GroupAssumption, SMT, SMTT(30) DEF Members
<1>2. NotReady \in SUBSET Members
  BY ZenonT(30) DEF NotReady
<1> QED BY <1>1, <1>2, FS_Subset, ZenonT(30)

(* A counted message, or a member that is not ready, keeps the in-flight   *)
(* count positive.                                                         *)
LEMMA CountPositive ==
  ASSUME CountOK
  PROVE  /\ Cardinality(Counted) \in Nat /\ Cardinality(NotReady) \in Nat
         /\ inflight = 0 => Counted = {} /\ NotReady = {}
<1>1. Cardinality(Counted) \in Nat /\ Cardinality(NotReady) \in Nat
  BY FS_CardinalityType, NotReadyFinite, ZenonT(30) DEF CountOK
<1>2. ASSUME inflight = 0 PROVE Cardinality(Counted) = 0 /\ Cardinality(NotReady) = 0
  BY <1>1, <1>2, SMT, SMTT(30) DEF CountOK, InflightExact
<1> QED BY <1>1, <1>2, FS_EmptySet, NotReadyFinite, ZenonT(30) DEF CountOK

(* Message.Done takes exactly the message it is called on out of the       *)
(* count, and does so only while the count is positive.                    *)
LEMMA DoneCounts ==
  ASSUME TypeOK, CountOK, ZeroOK, NEW x \in Msgs, Done(x),
         main' = main, zero' = zero
  PROVE  /\ inflight' \in Nat /\ sawZero' \in BOOLEAN
         /\ CountOK' /\ ZeroOK'
<1>1. Counted' = Counted \ {x}
  BY GroupAssumption, ZenonT(30) DEF TypeOK, Done, Move, Counted, Free, At, Senders
<1>2. NotReady' = NotReady
  BY ZenonT(30) DEF NotReady
<1>3. Cardinality(Counted) \in Nat /\ Cardinality(NotReady) \in Nat
  BY CountPositive, ZenonT(30)
<1>4. CASE loc[x].edge \in Cyc
  <2>1. x \in Counted
    BY <1>4, ZenonT(30) DEF Counted
  <2>2. IsFiniteSet(Counted') /\ Cardinality(Counted') = Cardinality(Counted) - 1
    BY <1>1, <2>1, FS_RemoveElement, ZenonT(30) DEF CountOK
  <2>3. inflight # 0
    BY <2>1, CountPositive, ZenonT(30)
  <2>4. inflight' = inflight - 1 /\ sawZero' = (sawZero \/ inflight = 1)
    BY <1>4, ZenonT(30) DEF Done, Dec, DecPool
  <2> QED
    BY <1>2, <1>3, <2>2, <2>3, <2>4, SMT, SMTT(30) DEF CountOK, InflightExact, TypeOK, ZeroOK
<1>5. CASE loc[x].edge \notin Cyc
  <2>1. Counted' = Counted
    BY <1>1, <1>5, ZenonT(30) DEF Counted
  <2>2. inflight' = inflight /\ sawZero' = sawZero
    BY <1>5, ZenonT(30) DEF Done, Dec
  <2> QED
    BY <1>2, <2>1, <2>2, ZenonT(30) DEF CountOK, InflightExact, TypeOK, ZeroOK
<1> QED BY <1>4, <1>5, ZenonT(30)

(* MessagePool.Get hands out a struct nobody owns.                         *)
LEMMA GetFree ==
  ASSUME NEW l, Get(l)
  PROVE  \E x \in Msgs : IsFree(x) /\ Move(x, l)
BY ZenonT(30) DEF Get

-----------------------------------------------------------------------------
(* The initial state satisfies the inductive invariant: each Join has      *)
(* counted its member once and no message exists.                          *)
LEMMA InitIInv == Init => IInv
<1> SUFFICES ASSUME Init PROVE IInv
  BY ZenonT(30)
<1>1. TypeOK
  <2>1. loc \in [Msgs -> [at : Places, edge : Senders \cup Outs \cup {None},
                         by : Workers \cup {None}]]
    BY ZenonT(30) DEF Init, Places, Free, At
  <2>2. /\ main \in [Members -> MainStates] /\ loop \in [Senders -> LoopStates]
        /\ proc \in [Workers -> ProcStates]
    BY ZenonT(30) DEF Init, MainStates, LoopStates, ProcStates
  <2>3. fresh \in [Members -> 0..MaxFresh] /\ arriving \in [Std -> 0..MaxStd]
    BY GroupAssumption, SMT, SMTT(30) DEF Init
  <2>4. inflight \in Nat /\ panics \in 0..MaxPanics
    BY GroupAssumption, SMT, SMTT(30) DEF Init
  <2>5. /\ todo \in [Workers -> SUBSET Listeners]
        /\ closed \in [Senders \cup Outs -> BOOLEAN]
        /\ pending \in [Members -> BOOLEAN] /\ awake \in [Members -> BOOLEAN]
    BY ZenonT(30) DEF Init
  <2> QED BY <2>1, <2>2, <2>3, <2>4, <2>5, ZenonT(30) DEF Init, TypeOK
<1>2. Counted = {}
  BY GroupAssumption, ZenonT(30) DEF Init, Counted, Free, At, Senders
<1>3. NotReady = 1..N
  BY ZenonT(30) DEF Init, NotReady, Members
<1>4. Cardinality(NotReady) = N
  BY <1>3, FS_Interval, GroupAssumption, SMT, SMTT(30)
<1>5. CountOK
  BY <1>2, <1>4, FS_EmptySet, GroupAssumption, SMT, SMTT(30) DEF Init, CountOK, InflightExact
<1>6. ZeroOK /\ BusyOK /\ StandardOK /\ TeardownOK
  BY GroupAssumption, ZenonT(30) DEF Init, ZeroOK, BusyOK, Busy, StandardOK, TeardownOK, Senders,
     Listeners, Members
<1> QED BY <1>1, <1>5, <1>6, ZenonT(30) DEF IInv

(* Steps that leave every message and the status pool where they are.      *)
LEMMA FrameCount ==
  ASSUME CountOK, ZeroOK, loc' = loc, inflight' = inflight,
         sawZero' = sawZero, NotReady' = NotReady, zero' => zero
  PROVE  CountOK' /\ ZeroOK'
BY ZenonT(30) DEF CountOK, ZeroOK, InflightExact, Counted

(* Every step of the message loop of ProcessSender preserves the           *)
(* invariant.                                                              *)
LEMMA LoopStepIInv ==
  ASSUME IInv, NEW s \in Senders, LoopStep(s)
  PROVE  IInv'
<1> USE DEF Places, LoopStates, ProcStates
<1>0. NotReady' = NotReady
  BY ZenonT(30) DEF LoopStep, Receive, ReceiveEnd, DispatchCancelled, JoinProcs, Drain,
     DrainEnd, Dispatch, NotReady, group
<1>1. CASE Receive(s)
  <2>1. PICK x \in Msgs : loc[x] = At("queued", s, None) /\ Move(x, At("held", s, None))
    BY <1>1, ZenonT(30) DEF Receive, Queued
  <2>2. TypeOK'
    BY <1>1, <2>1, ZenonT(30) DEF IInv, TypeOK, Receive, Move, At, pool, group, input, Workers
  <2>3. Counted' = Counted
    BY <2>1, SMT, SMTT(30) DEF IInv, TypeOK, Counted, Move, At
  <2>4. CountOK' /\ ZeroOK'
    BY <1>0, <1>1, <2>3, ZenonT(30) DEF IInv, CountOK, InflightExact, ZeroOK, Receive, pool
  <2>5. BusyOK'
    BY <1>1, <2>1, SMT, SMTT(30) DEF IInv, TypeOK, BusyOK, Busy, Receive, Move, At, Workers
  <2>6. StandardOK' /\ TeardownOK'
    BY <1>1, SMT, SMTT(30) DEF IInv, TypeOK, StandardOK, TeardownOK, Receive, group, pool
  <2> QED BY <2>2, <2>4, <2>5, <2>6, ZenonT(30) DEF IInv
<1>2. CASE ReceiveEnd(s)
  <2>1. TypeOK'
    BY <1>2, ZenonT(30) DEF IInv, TypeOK, ReceiveEnd, pool, group, input
  <2>2. CountOK' /\ ZeroOK'
    BY <1>0, <1>2, FrameCount, ZenonT(30) DEF IInv, ReceiveEnd, pool
  <2>3. BusyOK'
    BY <1>2, SMT, SMTT(30) DEF IInv, TypeOK, BusyOK, Busy, ReceiveEnd, Workers, group
  <2>4. StandardOK' /\ TeardownOK'
    BY <1>2, GroupAssumption, ZenonT(30) DEF IInv, TypeOK, StandardOK, TeardownOK, ReceiveEnd, group, pool, Senders, Listeners
  <2> QED BY <2>1, <2>2, <2>3, <2>4, ZenonT(30) DEF IInv
<1>3. CASE DispatchCancelled(s)
  <2>1. PICK x \in Msgs : loc[x] = At("held", s, None) /\ Done(x)
    BY <1>3, ZenonT(30) DEF DispatchCancelled, Queued
  <2>2. inflight' \in Nat /\ sawZero' \in BOOLEAN /\ CountOK' /\ ZeroOK'
    BY <1>3, <2>1, DoneCounts, ZenonT(30) DEF IInv, DispatchCancelled, group
  <2>3. TypeOK'
    BY <1>3, <2>1, <2>2, ZenonT(30) DEF IInv, TypeOK, DispatchCancelled, Done, Move, At, Free, group, input
  <2>4. BusyOK'
    BY <1>3, <2>1, SMT, SMTT(30) DEF IInv, TypeOK, BusyOK, Busy, DispatchCancelled, Done, Move, At, Free, Workers
  <2>5. StandardOK' /\ TeardownOK'
    BY <1>3, SMT, SMTT(30) DEF IInv, TypeOK, StandardOK, TeardownOK, DispatchCancelled, group
  <2> QED BY <2>2, <2>3, <2>4, <2>5, ZenonT(30) DEF IInv
<1>4. CASE JoinProcs(s)
  <2>1. TypeOK'
    BY <1>4, ZenonT(30) DEF IInv, TypeOK, JoinProcs, pool, group, input
  <2>2. CountOK' /\ ZeroOK'
    BY <1>0, <1>4, FrameCount, ZenonT(30) DEF IInv, JoinProcs, pool
  <2>3. BusyOK'
    BY <1>4, SMT, SMTT(30) DEF IInv, TypeOK, BusyOK, Busy, JoinProcs, Workers, group
  <2>4. StandardOK' /\ TeardownOK'
    BY <1>4, GroupAssumption, ZenonT(30) DEF IInv, TypeOK, StandardOK, TeardownOK, JoinProcs, group, pool, Senders, Listeners
  <2> QED BY <2>1, <2>2, <2>3, <2>4, ZenonT(30) DEF IInv
<1>5. CASE Drain(s)
  <2>1. PICK x \in Msgs : loc[x] = At("queued", s, None) /\ Done(x)
    BY <1>5, ZenonT(30) DEF Drain, Queued
  <2>2. inflight' \in Nat /\ sawZero' \in BOOLEAN /\ CountOK' /\ ZeroOK'
    BY <1>5, <2>1, DoneCounts, ZenonT(30) DEF IInv, Drain, group
  <2>3. TypeOK'
    BY <1>5, <2>1, <2>2, ZenonT(30) DEF IInv, TypeOK, Drain, Done, Move, At, Free, group, input
  <2>4. BusyOK'
    BY <1>5, <2>1, SMT, SMTT(30) DEF IInv, TypeOK, BusyOK, Busy, Drain, Done, Move, At, Free, Workers
  <2>5. StandardOK' /\ TeardownOK'
    BY <1>5, ZenonT(30) DEF IInv, TypeOK, StandardOK, TeardownOK, Drain, group
  <2> QED BY <2>2, <2>3, <2>4, <2>5, ZenonT(30) DEF IInv
<1>6. CASE DrainEnd(s)
  <2>1. TypeOK'
    BY <1>6, ZenonT(30) DEF IInv, TypeOK, DrainEnd, pool, group, input
  <2>2. CountOK' /\ ZeroOK'
    BY <1>0, <1>6, FrameCount, ZenonT(30) DEF IInv, DrainEnd, pool
  <2>3. BusyOK'
    BY <1>6, SMT, SMTT(30) DEF IInv, TypeOK, BusyOK, Busy, DrainEnd, Workers, group
  <2>4. StandardOK' /\ TeardownOK'
    BY <1>6, GroupAssumption, ZenonT(30) DEF IInv, TypeOK, StandardOK, TeardownOK, DrainEnd, group, pool, Senders, Listeners
  <2> QED BY <2>1, <2>2, <2>3, <2>4, ZenonT(30) DEF IInv
<1>7. ASSUME NEW p \in Procs, Dispatch(s, p) PROVE IInv'
  <2>1. PICK x \in Msgs : /\ loc[x] = At("held", s, None)
                          /\ Move(x, At("proc", s, <<s, p>>))
    BY <1>7, ZenonT(30) DEF Dispatch
  <2>2. TypeOK'
    BY <1>7, <2>1, SMT, SMTT(30) DEF IInv, TypeOK, Dispatch, Move, At, pool, group, input, Workers
  <2>3. Counted' = Counted
    BY <2>1, SMT, SMTT(30) DEF IInv, TypeOK, Counted, Move, At
  <2>4. CountOK' /\ ZeroOK'
    BY <1>0, <1>7, <2>3, ZenonT(30) DEF IInv, CountOK, InflightExact, ZeroOK, Dispatch, pool
  <2>5. BusyOK'
    BY <1>7, <2>1, SMT, SMTT(30) DEF IInv, TypeOK, BusyOK, Busy, Dispatch, Move, At, Workers
  <2>6. StandardOK' /\ TeardownOK'
    BY <1>7, SMT, SMTT(30) DEF IInv, TypeOK, StandardOK, TeardownOK, Dispatch, group, pool
  <2> QED BY <2>2, <2>4, <2>5, <2>6, ZenonT(30) DEF IInv
<1> QED
  BY <1>1, <1>2, <1>3, <1>4, <1>5, <1>6, <1>7, ZenonT(30) DEF LoopStep

(* A goroutine that is processing a message keeps the count positive: its  *)
(* own message counts when it came over a cyclical edge, and otherwise the *)
(* member it works for has not signalled ready.                            *)
LEMMA BusyCounts ==
  ASSUME IInv, NEW w \in Workers, Busy(w)
  PROVE  inflight # 0
<1>1. w[1] \in Senders
  BY ZenonT(30) DEF Workers
<1>2. CASE w[1] \in Cyc
  <2>1. PICK x \in Msgs : loc[x] = At("proc", w[1], w)
    BY ZenonT(30) DEF IInv, BusyOK
  <2>2. x \in Counted
    BY <1>2, <2>1, SMT, SMTT(30) DEF Counted, At
  <2> QED BY <2>2, CountPositive, ZenonT(30) DEF IInv
<1>3. CASE w[1] \in Std
  <2>1. main[Dst[w[1]]] = "standard"
    BY <1>3, ZenonT(30) DEF IInv, BusyOK, StandardOK
  <2>2. Dst[w[1]] \in NotReady
    BY <1>1, <2>1, GroupAssumption, ZenonT(30) DEF NotReady
  <2> QED BY <2>2, CountPositive, ZenonT(30) DEF IInv
<1> QED BY <1>1, <1>2, <1>3, ZenonT(30) DEF Senders

(* Every step of a processing goroutine preserves the invariant.           *)
LEMMA ProcStepIInv ==
  ASSUME IInv, NEW w \in Workers, ProcStep(w) \/ Panic(w)
  PROVE  IInv'
<1> USE DEF Places, ProcStates
<1>0. NotReady' = NotReady
  BY ZenonT(30) DEF ProcStep, Emit, Send, SendFailed, ChunkSent, MessageDone, Panic, GetMessage,
     NotReady, group
<1>1. CASE Emit(w)
  <2>1. TypeOK'
    BY <1>1, GroupAssumption, SMT, SMTT(30) DEF IInv, TypeOK, Emit, pool, group, input, ListenersOf, Workers
  <2>2. CountOK' /\ ZeroOK'
    BY <1>0, <1>1, FrameCount, ZenonT(30) DEF IInv, Emit, pool
  <2>3. BusyOK'
    BY <1>1, SMT, SMTT(30) DEF IInv, TypeOK, BusyOK, Busy, Emit, Workers, group
  <2>4. StandardOK' /\ TeardownOK'
    BY <1>1, ZenonT(30) DEF IInv, TypeOK, StandardOK, TeardownOK, Emit, group, pool
  <2> QED BY <2>1, <2>2, <2>3, <2>4, ZenonT(30) DEF IInv
<1>2. ASSUME NEW l \in Listeners, GetMessage(w, l) PROVE IInv'
  <2>1. PICK x \in Msgs : IsFree(x) /\ Move(x, At("new", l, w))
    BY <1>2, GetFree, ZenonT(30) DEF GetMessage
  <2>2. inflight # 0
    BY <1>2, BusyCounts, ZenonT(30) DEF Busy, GetMessage
  <2>3. TypeOK'
    BY <1>2, <2>1, SMT, SMTT(30) DEF IInv, TypeOK, GetMessage, Inc, Move, At, group, input, Listeners,
       Senders
  <2>4. CountOK'
    <3>1. CASE l \in Cyc
      <4>1. Counted' = Counted \cup {x}
        BY <2>1, <3>1, SMT, SMTT(30) DEF IInv, TypeOK, Counted, Move, At
      <4>2. x \notin Counted
        BY <2>1, GroupAssumption, SMT, SMTT(30) DEF IsFree, Free, At, Counted, Senders
      <4>3. /\ IsFiniteSet(Counted')
            /\ Cardinality(Counted') = Cardinality(Counted) + 1
        BY <4>1, <4>2, FS_AddElement, ZenonT(30) DEF IInv, CountOK
      <4>4. inflight' = inflight + 1
        BY <1>2, <3>1, ZenonT(30) DEF GetMessage, Inc
      <4> QED
        BY <1>0, <4>3, <4>4, CountPositive, SMT, SMTT(30) DEF IInv, CountOK, InflightExact
    <3>2. CASE l \notin Cyc
      <4>1. Counted' = Counted
        BY <2>1, <3>2, GroupAssumption, SMT, SMTT(30) DEF IInv, TypeOK, Counted, Move, At, IsFree, Free,
           Senders
      <4>2. inflight' = inflight
        BY <1>2, <3>2, ZenonT(30) DEF GetMessage, Inc
      <4> QED
        BY <1>0, <4>1, <4>2, ZenonT(30) DEF IInv, CountOK, InflightExact
    <3> QED BY <3>1, <3>2, ZenonT(30)
  <2>5. ZeroOK'
    BY <1>2, <2>2, ZenonT(30) DEF IInv, ZeroOK, GetMessage
  <2>6. BusyOK'
    BY <1>2, <2>1, SMT, SMTT(30) DEF IInv, TypeOK, BusyOK, Busy, GetMessage, Move, At, IsFree, Free,
       Workers
  <2>7. StandardOK' /\ TeardownOK'
    BY <1>2, ZenonT(30) DEF IInv, TypeOK, StandardOK, TeardownOK, GetMessage, group
  <2> QED BY <2>3, <2>4, <2>5, <2>6, <2>7, ZenonT(30) DEF IInv
<1>3. CASE Send(w)
  <2>1. PICK x \in Msgs, l \in Listeners :
          loc[x] = At("new", l, w) /\ Move(x, At("queued", l, None))
    BY <1>3, ZenonT(30) DEF Send
  <2>2. TypeOK'
    BY <1>3, <2>1, ZenonT(30) DEF IInv, TypeOK, Send, Move, At, pool, group, input, Listeners, Senders
  <2>3. Counted' = Counted
    BY <2>1, SMT, SMTT(30) DEF IInv, TypeOK, Counted, Move, At
  <2>4. CountOK' /\ ZeroOK'
    BY <1>0, <1>3, <2>3, ZenonT(30) DEF IInv, CountOK, InflightExact, ZeroOK, Send, pool
  <2>5. BusyOK'
    BY <1>3, <2>1, SMT, SMTT(30) DEF IInv, TypeOK, BusyOK, Busy, Send, Move, At, Workers
  <2>6. StandardOK' /\ TeardownOK'
    BY <1>3, ZenonT(30) DEF IInv, TypeOK, StandardOK, TeardownOK, Send, group, pool
  <2> QED BY <2>2, <2>4, <2>5, <2>6, ZenonT(30) DEF IInv
<1>4. CASE SendFailed(w)
  <2>1. PICK x \in Msgs : (\E l \in Listeners : loc[x] = At("new", l, w)) /\ Done(x)
    BY <1>4, ZenonT(30) DEF SendFailed
  <2>2. inflight' \in Nat /\ sawZero' \in BOOLEAN /\ CountOK' /\ ZeroOK'
    BY <1>4, <2>1, DoneCounts, ZenonT(30) DEF IInv, SendFailed, group
  <2>3. TypeOK'
    BY <1>4, <2>1, <2>2, ZenonT(30) DEF IInv, TypeOK, SendFailed, Done, Move, At, Free, group, input
  <2>4. BusyOK'
    BY <1>4, <2>1, SMT, SMTT(30) DEF IInv, TypeOK, BusyOK, Busy, SendFailed, Done, Move, At, Free, Workers
  <2>5. StandardOK' /\ TeardownOK'
    BY <1>4, ZenonT(30) DEF IInv, TypeOK, StandardOK, TeardownOK, SendFailed, group
  <2> QED BY <2>2, <2>3, <2>4, <2>5, ZenonT(30) DEF IInv
<1>5. CASE ChunkSent(w)
  <2>1. TypeOK'
    BY <1>5, GroupAssumption, ZenonT(30) DEF IInv, TypeOK, ChunkSent, pool, group, input, ListenersOf, Workers
  <2>2. CountOK' /\ ZeroOK'
    BY <1>0, <1>5, FrameCount, ZenonT(30) DEF IInv, ChunkSent, pool
  <2>3. BusyOK'
    BY <1>5, SMT, SMTT(30) DEF IInv, TypeOK, BusyOK, Busy, ChunkSent, Workers, group
  <2>4. StandardOK' /\ TeardownOK'
    BY <1>5, ZenonT(30) DEF IInv, TypeOK, StandardOK, TeardownOK, ChunkSent, group, pool
  <2> QED BY <2>1, <2>2, <2>3, <2>4, ZenonT(30) DEF IInv
<1>6. CASE MessageDone(w)
  <2>1. PICK x \in Msgs : loc[x] = At("proc", w[1], w) /\ Done(x)
    BY <1>6, ZenonT(30) DEF MessageDone
  <2>2. inflight' \in Nat /\ sawZero' \in BOOLEAN /\ CountOK' /\ ZeroOK'
    BY <1>6, <2>1, DoneCounts, ZenonT(30) DEF IInv, MessageDone, group
  <2>3. TypeOK'
    BY <1>6, <2>1, <2>2, ZenonT(30) DEF IInv, TypeOK, MessageDone, Done, Move, At, Free, group, input
  <2>4. BusyOK'
    BY <1>6, <2>1, SMT, SMTT(30) DEF IInv, TypeOK, BusyOK, Busy, MessageDone, Done, Move, At, Free, Workers
  <2>5. StandardOK' /\ TeardownOK'
    BY <1>6, ZenonT(30) DEF IInv, TypeOK, StandardOK, TeardownOK, MessageDone, group
  <2> QED BY <2>2, <2>3, <2>4, <2>5, ZenonT(30) DEF IInv
<1>7. CASE Panic(w)
  <2>1. PICK x \in Msgs : loc[x] = At("proc", w[1], w) /\ Done(x)
    BY <1>7, ZenonT(30) DEF Panic
  <2>2. inflight' \in Nat /\ sawZero' \in BOOLEAN /\ CountOK' /\ ZeroOK'
    BY <1>7, <2>1, DoneCounts, ZenonT(30) DEF IInv, Panic, group
  <2>3. TypeOK'
    <3>1. panics' \in 0..MaxPanics
      BY <1>7, GroupAssumption, SMT, SMTT(30) DEF IInv, TypeOK, Panic
    <3> QED
      BY <1>7, <2>1, <2>2, <3>1, ZenonT(30) DEF IInv, TypeOK, Panic, Done, Move, At, Free, group
  <2>4. BusyOK'
    BY <1>7, <2>1, SMT, SMTT(30) DEF IInv, TypeOK, BusyOK, Busy, Panic, Done, Move, At, Free, Workers
  <2>5. StandardOK' /\ TeardownOK'
    BY <1>7, ZenonT(30) DEF IInv, TypeOK, StandardOK, TeardownOK, Panic, group
  <2> QED BY <2>2, <2>3, <2>4, <2>5, ZenonT(30) DEF IInv
<1> QED
  BY <1>1, <1>2, <1>3, <1>4, <1>5, <1>6, <1>7, ZenonT(30) DEF ProcStep

(* Every step of Basic.Execute preserves the invariant.                    *)
LEMMA MainStepIInv ==
  ASSUME IInv, NEW m \in Members, MainStep(m)
  PROVE  IInv'
<1> USE DEF MainStates
<1>1. CASE StandardDone(m)
  <2>1. NotReady' = NotReady
    BY <1>1, ZenonT(30) DEF StandardDone, Goto, NotReady, IInv, TypeOK
  <2>2. TypeOK'
    BY <1>1, ZenonT(30) DEF IInv, TypeOK, StandardDone, Goto, pool, input
  <2>3. CountOK' /\ ZeroOK'
    BY <1>1, <2>1, FrameCount, ZenonT(30) DEF IInv, StandardDone, pool
  <2>4. BusyOK'
    BY <1>1, ZenonT(30) DEF IInv, TypeOK, BusyOK, Busy, StandardDone, Workers
  <2>5. StandardOK' /\ TeardownOK'
    BY <1>1, GroupAssumption, SMT, SMTT(30) DEF IInv, TypeOK, StandardOK, TeardownOK, StandardDone, Goto, pool, Senders
  <2> QED BY <2>2, <2>3, <2>4, <2>5, ZenonT(30) DEF IInv
<1>2. CASE Report(m)
  <2>1. NotReady' = NotReady
    BY <1>2, ZenonT(30) DEF Report, Goto, NotReady, IInv, TypeOK
  <2>2. TypeOK'
    BY <1>2, ZenonT(30) DEF IInv, TypeOK, Report, Goto, pool, input
  <2>3. CountOK' /\ ZeroOK'
    BY <1>2, <2>1, FrameCount, ZenonT(30) DEF IInv, Report, pool
  <2>4. BusyOK'
    BY <1>2, ZenonT(30) DEF IInv, TypeOK, BusyOK, Busy, Report, Workers
  <2>5. StandardOK' /\ TeardownOK'
    BY <1>2, GroupAssumption, SMT, SMTT(30) DEF IInv, TypeOK, StandardOK, TeardownOK, Report, Goto, pool
  <2> QED BY <2>2, <2>3, <2>4, <2>5, ZenonT(30) DEF IInv
<1>3. CASE SignalDec(m)
  <2>1. NotReady' = NotReady \ {m} /\ m \in NotReady
    BY <1>3, ZenonT(30) DEF SignalDec, Goto, NotReady, IInv, TypeOK
  <2>2. Cardinality(NotReady') = Cardinality(NotReady) - 1
    BY <2>1, FS_RemoveElement, NotReadyFinite, ZenonT(30)
  <2>3. Counted' = Counted
    BY <1>3, ZenonT(30) DEF SignalDec, Counted
  <2>4. inflight # 0
    BY <2>1, CountPositive, ZenonT(30) DEF IInv
  <2>5. CountOK' /\ ZeroOK' /\ inflight' \in Nat
    BY <1>3, <2>2, <2>3, <2>4, CountPositive, SMT, SMTT(30)
    DEF IInv, TypeOK, SignalDec, DecPool, CountOK, InflightExact, ZeroOK
  <2>6. TypeOK'
    BY <1>3, <2>5, ZenonT(30) DEF IInv, TypeOK, SignalDec, Goto, DecPool, input
  <2>7. BusyOK'
    BY <1>3, ZenonT(30) DEF IInv, TypeOK, BusyOK, Busy, SignalDec, Workers
  <2>8. StandardOK' /\ TeardownOK'
    BY <1>3, GroupAssumption, SMT, SMTT(30)
    DEF IInv, TypeOK, StandardOK, TeardownOK, SignalDec, Goto, Senders
  <2> QED BY <2>5, <2>6, <2>7, <2>8, ZenonT(30) DEF IInv
<1>4. CASE AllReady(m)
  <2>1. NotReady' = NotReady
    BY <1>4, ZenonT(30) DEF AllReady, Goto, NotReady, IInv, TypeOK
  <2>2. TypeOK'
    BY <1>4, ZenonT(30) DEF IInv, TypeOK, AllReady, Goto, pool, input
  <2>3. CountOK' /\ ZeroOK'
    BY <1>4, <2>1, FrameCount, ZenonT(30) DEF IInv, AllReady, pool
  <2>4. BusyOK'
    BY <1>4, ZenonT(30) DEF IInv, TypeOK, BusyOK, Busy, AllReady, Workers
  <2>5. StandardOK' /\ TeardownOK'
    BY <1>4, GroupAssumption, SMT, SMTT(30) DEF IInv, TypeOK, StandardOK, TeardownOK, AllReady, Goto, pool, Senders
  <2> QED BY <2>2, <2>3, <2>4, <2>5, ZenonT(30) DEF IInv
<1>5. CASE Quiescent(m)
  <2>1. NotReady' = NotReady
    BY <1>5, ZenonT(30) DEF Quiescent, Goto, NotReady, IInv, TypeOK
  <2>2. TypeOK'
    BY <1>5, ZenonT(30) DEF IInv, TypeOK, Quiescent, Goto, pool, input
  <2>3. CountOK' /\ ZeroOK'
    BY <1>5, <2>1, FrameCount, ZenonT(30) DEF IInv, Quiescent, pool
  <2>4. BusyOK'
    BY <1>5, ZenonT(30) DEF IInv, TypeOK, BusyOK, Busy, Quiescent, Workers
  <2>5. StandardOK' /\ TeardownOK'
    BY <1>5, GroupAssumption, ZenonT(30) DEF IInv, TypeOK, StandardOK, TeardownOK, Quiescent, Goto, pool, Senders
  <2> QED BY <2>2, <2>3, <2>4, <2>5, ZenonT(30) DEF IInv
<1>6. CASE Sleep(m)
  <2>1. NotReady' = NotReady
    BY <1>6, ZenonT(30) DEF Sleep, Goto, NotReady, IInv, TypeOK
  <2>2. TypeOK'
    BY <1>6, ZenonT(30) DEF IInv, TypeOK, Sleep, Goto, pool, input
  <2>3. CountOK' /\ ZeroOK'
    BY <1>6, <2>1, FrameCount, ZenonT(30) DEF IInv, Sleep, pool
  <2>4. BusyOK'
    BY <1>6, SMT, SMTT(30) DEF IInv, TypeOK, BusyOK, Busy, Sleep, Workers
  <2>5. StandardOK' /\ TeardownOK'
    BY <1>6, GroupAssumption, ZenonT(30) DEF IInv, TypeOK, StandardOK, TeardownOK, Sleep, Goto, pool, Senders
  <2> QED BY <2>2, <2>3, <2>4, <2>5, ZenonT(30) DEF IInv
<1>7. CASE Cleanup(m)
  <2>1. NotReady' = NotReady
    BY <1>7, ZenonT(30) DEF Cleanup, Goto, NotReady, IInv, TypeOK
  <2>2. TypeOK'
    BY <1>7, ZenonT(30) DEF IInv, TypeOK, Cleanup, Goto, pool, input
  <2>3. CountOK' /\ ZeroOK'
    BY <1>7, <2>1, FrameCount, ZenonT(30) DEF IInv, Cleanup, pool
  <2>4. BusyOK'
    BY <1>7, ZenonT(30) DEF IInv, TypeOK, BusyOK, Busy, Cleanup, Workers
  <2>5. StandardOK' /\ TeardownOK'
    BY <1>7, GroupAssumption, ZenonT(30) DEF IInv, TypeOK, StandardOK, TeardownOK, Cleanup, Goto, pool, Senders, Listeners
  <2> QED BY <2>2, <2>3, <2>4, <2>5, ZenonT(30) DEF IInv
<1>8. CASE Wake(m)
  <2>1. NotReady' = NotReady
    BY <1>8, ZenonT(30) DEF Wake, Goto, NotReady, IInv, TypeOK
  <2>2. TypeOK'
    BY <1>8, ZenonT(30) DEF IInv, TypeOK, Wake, Goto, pool, input
  <2>3. CountOK' /\ ZeroOK'
    BY <1>8, <2>1, FrameCount, ZenonT(30) DEF IInv, Wake, pool
  <2>4. BusyOK'
    BY <1>8, ZenonT(30) DEF IInv, TypeOK, BusyOK, Busy, Wake, Workers
  <2>5. StandardOK' /\ TeardownOK'
    BY <1>8, GroupAssumption, ZenonT(30) DEF IInv, TypeOK, StandardOK, TeardownOK, Wake, Goto, pool, Senders
  <2> QED BY <2>2, <2>3, <2>4, <2>5, ZenonT(30) DEF IInv
<1>9. CASE RecursiveDone(m)
  <2>1. NotReady' = NotReady
    BY <1>9, ZenonT(30) DEF RecursiveDone, Goto, NotReady, IInv, TypeOK
  <2>2. TypeOK'
    BY <1>9, ZenonT(30) DEF IInv, TypeOK, RecursiveDone, Goto, pool, input
  <2>3. CountOK' /\ ZeroOK'
    BY <1>9, <2>1, FrameCount, ZenonT(30) DEF IInv, RecursiveDone, pool
  <2>4. BusyOK'
    BY <1>9, ZenonT(30) DEF IInv, TypeOK, BusyOK, Busy, RecursiveDone, Workers
  <2>5. StandardOK' /\ TeardownOK'
    BY <1>9, GroupAssumption, ZenonT(30) DEF IInv, TypeOK, StandardOK, TeardownOK, RecursiveDone, Goto, pool, Senders
  <2> QED BY <2>2, <2>3, <2>4, <2>5, ZenonT(30) DEF IInv
<1> QED
  BY <1>1, <1>2, <1>3, <1>4, <1>5, <1>6, <1>7, <1>8, <1>9, ZenonT(30) DEF MainStep

(* The close of the quiescence channel, a cancellation and the upstream    *)
(* and downstream workers preserve the invariant.                          *)
LEMMA SurroundingsIInv ==
  ASSUME IInv,
         \/ CloseQuiescence \/ Cancel
         \/ \E s \in Std : Arrive(s) \/ UpstreamClose(s)
         \/ \E o \in Outs : Downstream(o)
  PROVE  IInv'
<1> USE DEF Places
<1>0. NotReady' = NotReady
  BY ZenonT(30) DEF CloseQuiescence, Cancel, Arrive, UpstreamClose, Downstream, NotReady, group
<1>1. CASE CloseQuiescence
  BY <1>0, <1>1, ZenonT(30) DEF CloseQuiescence, IInv, TypeOK, CountOK, InflightExact, Counted, ZeroOK,
     BusyOK, Busy, StandardOK, TeardownOK, group, input
<1>2. CASE Cancel
  BY <1>0, <1>2, ZenonT(30) DEF Cancel, IInv, TypeOK, CountOK, InflightExact, Counted, ZeroOK,
     BusyOK, Busy, StandardOK, TeardownOK, group, pool
<1>3. ASSUME NEW s \in Std, Arrive(s) PROVE IInv'
  <2>1. PICK x \in Msgs : IsFree(x) /\ Move(x, At("queued", s, None))
    BY <1>3, GetFree, ZenonT(30) DEF Arrive
  <2>2. Counted' = Counted
    BY <2>1, GroupAssumption, SMT, SMTT(30) DEF IInv, TypeOK, Counted, Move, At, IsFree, Free, Senders
  <2>3. TypeOK'
    <3>1. arriving' \in [Std -> 0..MaxStd]
      BY <1>3, GroupAssumption, SMT, SMTT(30) DEF IInv, TypeOK, Arrive
    <3> QED
      BY <1>3, <2>1, <3>1, ZenonT(30) DEF IInv, TypeOK, Arrive, Move, At, pool, group, Senders
  <2>4. CountOK' /\ ZeroOK'
    BY <1>0, <1>3, <2>2, ZenonT(30) DEF IInv, CountOK, InflightExact, ZeroOK, Arrive, pool
  <2>5. BusyOK'
    BY <1>3, <2>1, SMT, SMTT(30) DEF IInv, TypeOK, BusyOK, Busy, Arrive, Move, At, IsFree, Free, Workers
  <2>6. StandardOK' /\ TeardownOK'
    BY <1>3, ZenonT(30) DEF IInv, StandardOK, TeardownOK, Arrive, group, pool
  <2> QED BY <2>3, <2>4, <2>5, <2>6, ZenonT(30) DEF IInv
<1>4. ASSUME NEW s \in Std, UpstreamClose(s) PROVE IInv'
  <2>1. TypeOK'
    BY ZenonT(60), <1>4 DEF IInv, TypeOK, UpstreamClose, pool, group, input
  <2>2. CountOK' /\ ZeroOK'
    BY <1>0, <1>4, FrameCount, ZenonT(30) DEF IInv, UpstreamClose, pool
  <2>3. BusyOK' /\ StandardOK'
    BY <1>4, ZenonT(30) DEF IInv, BusyOK, Busy, StandardOK, UpstreamClose, group
  <2>4. TeardownOK'
    BY <1>4, GroupAssumption, SMT, SMTT(30)
    DEF IInv, TypeOK, TeardownOK, UpstreamClose, group, pool, Listeners, Senders
  <2> QED BY <2>1, <2>2, <2>3, <2>4, ZenonT(30) DEF IInv
<1>5. ASSUME NEW o \in Outs, Downstream(o) PROVE IInv'
  <2>1. PICK x \in Msgs : loc[x] = At("queued", o, None) /\ Done(x)
    BY <1>5, ZenonT(30) DEF Downstream, Queued
  <2>2. inflight' \in Nat /\ sawZero' \in BOOLEAN /\ CountOK' /\ ZeroOK'
    BY <1>5, <2>1, DoneCounts, ZenonT(30) DEF IInv, Downstream, group
  <2>3. TypeOK'
    BY <1>5, <2>1, <2>2, ZenonT(30) DEF IInv, TypeOK, Downstream, Done, Move, At, Free, group, input
  <2>4. BusyOK'
    BY <1>5, <2>1, SMT, SMTT(30) DEF IInv, TypeOK, BusyOK, Busy, Downstream, Done, Move, At, Free, Workers
  <2>5. StandardOK' /\ TeardownOK'
    BY <1>5, ZenonT(30) DEF IInv, StandardOK, TeardownOK, Downstream, group
  <2> QED BY <2>2, <2>3, <2>4, <2>5, ZenonT(30) DEF IInv
<1> QED
  BY <1>1, <1>2, <1>3, <1>4, <1>5, ZenonT(30)

(* The invariant is inductive.                                             *)
LEMMA NextIInv == IInv /\ [Next]_vars => IInv'
<1> SUFFICES ASSUME IInv, [Next]_vars PROVE IInv'
  BY ZenonT(30)
<1>1. CASE UNCHANGED vars
  BY <1>1, SMT, SMTT(30) DEF vars, IInv, TypeOK, CountOK, InflightExact, Counted, NotReady, ZeroOK,
     BusyOK, Busy, StandardOK, TeardownOK
<1>2. CASE Next
  BY <1>1, <1>2, SurroundingsIInv, LoopStepIInv, ProcStepIInv, MainStepIInv, ZenonT(30)
  DEF Next, Finished
<1> QED BY <1>1, <1>2, ZenonT(30)

(* The invariant holds in every state the group can reach.                 *)
LEMMA AlwaysIInv == Spec => []IInv
BY InitIInv, NextIInv, PTL DEF Spec

-----------------------------------------------------------------------------
(* Type correctness. The part that is not obvious is that the in-flight    *)
(* count of StatusPool never goes below zero.                              *)
THEOREM TypeCorrect == Spec => []TypeOK
<1>1. IInv => TypeOK
  BY ZenonT(30) DEF IInv
<1> QED BY <1>1, AlwaysIInv, PTL

(* The in-flight count is exact: every Inc of MsgFunc and Join is matched  *)
(* by one Dec, on every path a message can take.                           *)
THEOREM CountExact == Spec => []InflightExact
<1>1. IInv => InflightExact
  BY ZenonT(30) DEF IInv, CountOK
<1> QED BY <1>1, AlwaysIInv, PTL

(* When the invariant holds and the quiescence channel is closed, nothing  *)
(* is in flight and no goroutine is busy.                                  *)
LEMMA QuiescenceFromIInv == IInv => QuiescenceIsFinal
<1> SUFFICES ASSUME IInv, zero PROVE QuiescenceIsFinal
  BY ZenonT(30) DEF QuiescenceIsFinal
<1>1. inflight = 0
  BY ZenonT(30) DEF IInv, ZeroOK
<1>2. Counted = {} /\ NotReady = {}
  BY <1>1, CountPositive, ZenonT(30) DEF IInv
<1>3. \A s \in Std : loop[s] = "done"
  BY <1>2, GroupAssumption, ZenonT(30) DEF IInv, StandardOK, NotReady, Senders
<1>4. \A w \in Workers : proc[w] \in {"idle", "dead"}
  BY <1>1, BusyCounts, ZenonT(30) DEF Busy, IInv, TypeOK, ProcStates
<1> QED BY <1>2, <1>3, <1>4, ZenonT(30) DEF QuiescenceIsFinal

(* Quiescence detection is sound: once StatusPool closes the quiescence    *)
(* channel the cycle is dry for good.                                      *)
THEOREM QuiescenceSound == Spec => []QuiescenceIsFinal
BY AlwaysIInv, QuiescenceFromIInv, PTL

(* No goroutine can find its listeners closed under it.                    *)
THEOREM CloseSafe == Spec => []NoSendOnClosed
<1>1. IInv => NoSendOnClosed
  <2> SUFFICES ASSUME IInv, NEW w \in Workers, Busy(w),
                      NEW l \in ListenersOf(Dst[w[1]]), closed[l]
               PROVE  FALSE
    BY ZenonT(30) DEF NoSendOnClosed, Busy
  <2>1. zero
    BY ZenonT(30) DEF IInv, TeardownOK, ListenersOf
  <2> QED BY <2>1, BusyCounts, ZenonT(30) DEF IInv, ZeroOK
<1> QED BY <1>1, AlwaysIInv, PTL

-----------------------------------------------------------------------------
(* How far a member is in the teardown, read off its program counter.      *)
RingOK ==
  /\ \A m \in Members : main[m] \in {"wake", "recursive", "done"} =>
       \A l \in ListenersOf(m) : closed[l]
  /\ \A m \in Members : awake[Follow(m)] => main[m] \in {"recursive", "done"}
  /\ \A m \in Members \ {Leader} : main[m] = "cleanup" => awake[m]

(* Next() of the ring stays inside the group and never leads two members   *)
(* to the same one.                                                        *)
LEMMA FollowInjective ==
  /\ \A m \in Members : Follow(m) \in Members
  /\ \A m, k \in Members : Follow(m) = Follow(k) => m = k
BY GroupAssumption, SMT, SMTT(30) DEF Members, Follow

(* Only Execute changes the teardown state; upstream workers close only    *)
(* standard senders.                                                       *)
LEMMA OtherStepsRing ==
  ASSUME Next
  PROVE  \/ \E m \in Members : MainStep(m)
         \/ /\ main' = main /\ awake' = awake
            /\ \/ closed' = closed
               \/ \E s \in Std : closed' = [closed EXCEPT ![s] = TRUE]
BY ZenonT(60) DEF Next, CloseQuiescence, Cancel, Arrive, UpstreamClose, Downstream, LoopStep, Receive,
   ReceiveEnd, DispatchCancelled, JoinProcs, Drain, DrainEnd, Dispatch, ProcStep, Emit,
   Send, SendFailed, ChunkSent, MessageDone, GetMessage, Panic, Finished, vars, group

(* Every step preserves the relation between the program counters, the     *)
(* wake channels and the closed listeners.                                 *)
LEMMA NextRing == TypeOK /\ RingOK /\ [Next]_vars => RingOK'
<1> SUFFICES ASSUME TypeOK, RingOK, [Next]_vars PROVE RingOK'
  BY ZenonT(30)
<1> USE GroupAssumption
<1>1. CASE UNCHANGED vars
  BY ZenonT(60), <1>1 DEF vars, RingOK
<1>2. CASE /\ main' = main /\ awake' = awake
           /\ \/ closed' = closed
              \/ \E s \in Std : closed' = [closed EXCEPT ![s] = TRUE]
  BY <1>2, SMT, SMTT(30) DEF RingOK, TypeOK, ListenersOf, Listeners, Senders
<1>3. ASSUME NEW m \in Members, MainStep(m) PROVE RingOK'
  <2>1. CASE Cleanup(m)
    BY ZenonT(60), <2>1 DEF Cleanup, Goto, RingOK, TypeOK, ListenersOf, Listeners, Senders
  <2>2. CASE Wake(m)
    BY <2>2, FollowInjective, ZenonT(30) DEF Wake, Goto, RingOK, TypeOK
  <2>3. CASE Quiescent(m)
    BY <2>3, ZenonT(30) DEF Quiescent, Goto, RingOK, TypeOK
  <2>4. CASE Sleep(m)
    BY <2>4, ZenonT(30) DEF Sleep, Goto, RingOK, TypeOK
  <2>5. CASE RecursiveDone(m)
    BY <2>5, ZenonT(30) DEF RecursiveDone, Goto, RingOK, TypeOK
  <2>6. CASE StandardDone(m)
    BY <2>6, ZenonT(30) DEF StandardDone, Goto, RingOK, TypeOK
  <2>7. CASE Report(m)
    BY <2>7, ZenonT(30) DEF Report, Goto, RingOK, TypeOK
  <2>8. CASE SignalDec(m)
    BY <2>8, ZenonT(30) DEF SignalDec, Goto, RingOK, TypeOK
  <2>9. CASE AllReady(m)
    BY <2>9, ZenonT(30) DEF AllReady, Goto, RingOK, TypeOK
  <2> QED
    BY <1>3, <2>1, <2>2, <2>3, <2>4, <2>5, <2>6, <2>7, <2>8, <2>9, ZenonT(30) DEF MainStep
<1> QED BY <1>1, <1>2, <1>3, OtherStepsRing, ZenonT(30)

(* The teardown cascades around the ring in the order of Next(): a member  *)
(* other than the leader closes its listeners only after the member before *)
(* it has closed all of its own.                                           *)
THEOREM TeardownInOrder == Spec => OrderedTeardown
<1> DEFINE Step == \A m \in Members \ {Leader} : \A l \in ListenersOf(m) :
                     ~closed[l] /\ closed'[l] =>
                       \A k \in Members : Follow(k) = m =>
                         \A e \in ListenersOf(k) : closed[e]
<1>1. Init => RingOK
  BY FollowInjective, ZenonT(30) DEF Init, RingOK
<1>2. TypeOK /\ RingOK /\ [Next]_vars => [Step]_vars
  <2> SUFFICES ASSUME TypeOK, RingOK, Next,
                      NEW m \in Members \ {Leader}, NEW l \in ListenersOf(m),
                      ~closed[l], closed'[l],
                      NEW k \in Members, Follow(k) = m, NEW e \in ListenersOf(k)
               PROVE  closed[e]
    BY ZenonT(30)
  <2>1. PICK j \in Members : Cleanup(j)
    <3>1. l \in Listeners /\ closed' # closed
      BY ZenonT(30) DEF ListenersOf
    <3>2. ASSUME NEW s \in Std PROVE closed' # [closed EXCEPT ![s] = TRUE]
      BY <3>1, GroupAssumption, SMT, SMTT(30) DEF TypeOK, Listeners, Senders
    <3>3. PICK j \in Members : MainStep(j)
      BY <3>1, <3>2, OtherStepsRing, ZenonT(30)
    <3> QED
      BY <3>1, <3>3, ZenonT(30)
      DEF MainStep, StandardDone, Report, SignalDec, AllReady, Quiescent, Sleep, Wake, RecursiveDone
  <2>2. j = m
    BY <2>1, ZenonT(30) DEF Cleanup, ListenersOf, Listeners, Senders
  <2>3. awake[m]
    BY <2>1, <2>2, ZenonT(30) DEF Cleanup, Goto, RingOK
  <2> QED BY <2>3, ZenonT(30) DEF RingOK
<1>3. Spec => []RingOK
  BY <1>1, NextRing, TypeCorrect, PTL DEF Spec
<1>4. Spec => [][Step]_vars
  BY <1>2, <1>3, TypeCorrect, PTL DEF Spec
<1> QED BY <1>4, ZenonT(30) DEF OrderedTeardown
=============================================================================
