---------------------------- MODULE CycleGroup ----------------------------
(***************************************************************************)
(* The workers of one cycle of the ListObjects pipeline, and how they      *)
(* find out that the cycle has run dry and tear it down in order.          *)
(*                                                                         *)
(* Sources: internal/listobjects/pipeline/internal/track/reporting.go      *)
(* (StatusPool), .../worker/cycle.go (Membership, CycleGroup),             *)
(* .../worker/basic.go (Basic.Execute), .../worker/core.go (ProcessSender, *)
(* send, Cleanup), .../worker/medium.go and the MsgFunc of pipeline.go.    *)
(*                                                                         *)
(* A message is an identity: what it carries is irrelevant here, because a *)
(* worker that processes one may emit any chunk of values it has not       *)
(* emitted before (the outputBuffer of Basic), and fresh[m] counts those.  *)
(***************************************************************************)
EXTENDS Naturals, FiniteSets

CONSTANTS
  N,          \* workers in the group, numbered in the order they joined
  Cyc, Std,   \* cyclical and standard senders of the workers
  Outs,       \* non-cyclical listeners of the workers
  Src, Dst,   \* the worker that writes to a listener, that reads a sender
  Procs,      \* the NumProcs goroutines of one ProcessSender
  Msgs,       \* Message structs
  None,       \* no goroutine, no medium
  OutCap,     \* capacity of a ChannelMedium
  MaxFresh,   \* bound: chunks of new values a worker can emit
  MaxStd,     \* bound: messages that arrive on a standard sender
  MaxPanics   \* bound: panics inside ProcessMessage

Members   == 1..N
Senders   == Cyc \cup Std
Listeners == Cyc \cup Outs
Workers   == Senders \X Procs

ASSUME GroupAssumption ==
  /\ N \in Nat \ {0}
  /\ Cyc \cap Std = {} /\ Cyc \cap Outs = {} /\ Std \cap Outs = {}
  /\ Src \in [Listeners -> Members]
  /\ Dst \in [Senders -> Members]
  /\ None \notin Workers /\ None \notin Senders \cup Outs
  /\ MaxFresh \in Nat /\ MaxStd \in Nat /\ MaxPanics \in Nat

(* The ring that Join builds: the newest member leads, Next() is m.prev,   *)
(* the member that joined just before; the first member's prev is the      *)
(* newest one.                                                             *)
Leader     == N
Follow(m)  == IF m = 1 THEN N ELSE m - 1

VARIABLES
  inflight, \* StatusPool.inflight
  sawZero,  \* some dec() got 0 back and is about to Swap and close
  zero,     \* StatusPool.zero: the quiescence channel is closed
  pending,  \* StatusPool.pool: the member has not reported
  ready,    \* the ready channel is closed
  awake,    \* Membership.awake: the wake channel is closed
  main,     \* program counter of Basic.Execute
  loop,     \* program counter of the message loop of ProcessSender
  proc,     \* program counter of a processing goroutine
  todo,     \* listeners the goroutine still has to send the chunk to
  loc,      \* where each Message is
  closed,   \* the medium is closed
  fresh,    \* chunks of values the worker has not emitted yet
  arriving, \* messages that may still arrive on a standard sender
  panics,   \* panics that may still happen
  ctxDone   \* the pipeline's context is cancelled

pool  == <<inflight, sawZero, zero, pending, ready>>
group == <<awake, main>>
input == <<fresh, arriving, panics, ctxDone>>
vars  == <<inflight, sawZero, zero, pending, ready, awake, main, loop, proc,
           todo, loc, closed, fresh, arriving, panics, ctxDone>>

MainStates == {"standard", "report", "dec", "allReady", "quiescent", "sleep",
               "cleanup", "wake", "recursive", "done"}
LoopStates == {"recv", "hold", "join", "drain", "done"}
ProcStates == {"idle", "run", "send", "sending", "dead"}
Places     == {"free", "queued", "held", "proc", "new"}

(* at: which goroutine or medium owns the message; edge: the medium it     *)
(* travels on; by: the processing goroutine that has it.                   *)
At(place, edge, by) == [at |-> place, edge |-> edge, by |-> by]
Free == At("free", None, None)

Queued(e)  == {x \in Msgs : loc[x] = At("queued", e, None)}
IsFree(x)  == loc[x] = Free
Move(x, l) == loc' = [loc EXCEPT ![x] = l]

(* MessagePool.Get: which unused struct it hands out makes no difference.  *)
Get(l) ==
  /\ \E x \in Msgs : IsFree(x)
  /\ Move(CHOOSE x \in Msgs : IsFree(x), l)

TypeOK ==
  /\ inflight \in Nat
  /\ sawZero \in BOOLEAN /\ zero \in BOOLEAN /\ ready \in BOOLEAN
  /\ pending \in [Members -> BOOLEAN]
  /\ awake \in [Members -> BOOLEAN]
  /\ main \in [Members -> MainStates]
  /\ loop \in [Senders -> LoopStates]
  /\ proc \in [Workers -> ProcStates]
  /\ todo \in [Workers -> SUBSET Listeners]
  /\ loc \in [Msgs -> [at : Places, edge : Senders \cup Outs \cup {None},
                       by : Workers \cup {None}]]
  /\ closed \in [Senders \cup Outs -> BOOLEAN]
  /\ fresh \in [Members -> 0..MaxFresh]
  /\ arriving \in [Std -> 0..MaxStd]
  /\ panics \in 0..MaxPanics
  /\ ctxDone \in BOOLEAN

(* Mutant: Join does not count the new member.                             *)
InitUncounted ==
  /\ inflight = 0
  /\ sawZero = FALSE /\ zero = FALSE /\ ready = FALSE
  /\ pending = [m \in Members |-> TRUE]
  /\ awake = [m \in Members |-> FALSE]
  /\ main = [m \in Members |-> "standard"]
  /\ loop = [s \in Senders |-> "recv"]
  /\ proc = [w \in Workers |-> "idle"]
  /\ todo = [w \in Workers |-> {}]
  /\ loc = [x \in Msgs |-> Free]
  /\ closed = [e \in Senders \cup Outs |-> FALSE]
  /\ fresh = [m \in Members |-> MaxFresh]
  /\ arriving = [s \in Std |-> MaxStd]
  /\ panics = MaxPanics
  /\ ctxDone = FALSE

Init ==
  /\ inflight = N           \* Join incremented once per member
  /\ sawZero = FALSE /\ zero = FALSE /\ ready = FALSE
  /\ pending = [m \in Members |-> TRUE]
  /\ awake = [m \in Members |-> FALSE]
  /\ main = [m \in Members |-> "standard"]
  /\ loop = [s \in Senders |-> "recv"]
  /\ proc = [w \in Workers |-> "idle"]
  /\ todo = [w \in Workers |-> {}]
  /\ loc = [x \in Msgs |-> Free]
  /\ closed = [e \in Senders \cup Outs |-> FALSE]
  /\ fresh = [m \in Members |-> MaxFresh]
  /\ arriving = [s \in Std |-> MaxStd]
  /\ panics = MaxPanics
  /\ ctxDone = FALSE

-----------------------------------------------------------------------------
(* StatusPool.inc and dec. dec closes the quiescence channel in a step of  *)
(* its own (CloseQuiescence), so that whatever happens between the atomic  *)
(* decrement and the close is possible here too. Only messages on cyclical *)
(* edges carry the counting callback that MsgFunc installs.                *)

Inc(e) == inflight' = IF e \in Cyc THEN inflight + 1 ELSE inflight

DecPool ==
  /\ inflight' = inflight - 1
  /\ sawZero' = (sawZero \/ inflight = 1)

Dec(e) == IF e \in Cyc THEN DecPool ELSE UNCHANGED <<inflight, sawZero>>

CloseQuiescence ==
  /\ sawZero /\ ~zero
  /\ zero' = TRUE
  /\ UNCHANGED <<inflight, sawZero, pending, ready, group, loop, proc, todo,
                 loc, closed, input>>

(* Message.Done: the callback runs and the struct goes back to the pool.   *)
Done(x) ==
  /\ Move(x, Free)
  /\ Dec(loc[x].edge)

-----------------------------------------------------------------------------
(* Surroundings: the workers upstream of the standard senders, the workers *)
(* (or the pipeline's output) downstream of the non-cyclical listeners,    *)
(* and the cancellation of the context.                                    *)

Arrive(s) ==
  /\ ~closed[s] /\ arriving[s] > 0
  /\ Get(At("queued", s, None))
  /\ arriving' = [arriving EXCEPT ![s] = @ - 1]
  /\ UNCHANGED <<pool, group, loop, proc, todo, closed, fresh, panics, ctxDone>>

UpstreamClose(s) ==
  /\ ~closed[s]
  /\ closed' = [closed EXCEPT ![s] = TRUE]
  /\ UNCHANGED <<pool, group, loop, proc, todo, loc, input>>

Downstream(o) ==
  /\ \E x \in Queued(o) : Done(x)
  /\ UNCHANGED <<zero, pending, ready, group, loop, proc, todo, closed, input>>

Cancel ==
  /\ ~ctxDone
  /\ ctxDone' = TRUE
  /\ UNCHANGED <<pool, group, loop, proc, todo, loc, closed, fresh, arriving,
                 panics>>

-----------------------------------------------------------------------------
(* ProcessSender: the message loop, then close(input), wg.Wait and the     *)
(* drain with a context that is never cancelled.                           *)

Receive(s) ==
  /\ loop[s] = "recv"
  /\ \E x \in Queued(s) : Move(x, At("held", s, None))
  /\ loop' = [loop EXCEPT ![s] = "hold"]
  /\ UNCHANGED <<pool, group, proc, todo, closed, input>>

(* Recv returns false: closed and empty, or cancelled. A QueueMedium that  *)
(* still holds a message hands it out even when ctx is done; the select of *)
(* a ChannelMedium may take either branch.                                 *)
ReceiveEnd(s) ==
  /\ loop[s] = "recv"
  /\ \/ closed[s] /\ Queued(s) = {}
     \/ ctxDone /\ (s \in Cyc => Queued(s) = {})
  /\ loop' = [loop EXCEPT ![s] = "join"]
  /\ UNCHANGED <<pool, group, proc, todo, loc, closed, input>>

Dispatch(s, p) ==
  /\ loop[s] = "hold" /\ proc[<<s, p>>] = "idle"
  /\ \E x \in Msgs : /\ loc[x] = At("held", s, None)
                     /\ Move(x, At("proc", s, <<s, p>>))
  /\ loop' = [loop EXCEPT ![s] = "recv"]
  /\ proc' = [proc EXCEPT ![<<s, p>>] = "run"]
  /\ UNCHANGED <<pool, group, todo, closed, input>>

DispatchCancelled(s) ==
  /\ loop[s] = "hold" /\ ctxDone
  /\ \E x \in Msgs : loc[x] = At("held", s, None) /\ Done(x)
  /\ loop' = [loop EXCEPT ![s] = "join"]
  /\ UNCHANGED <<zero, pending, ready, group, proc, todo, closed, input>>

JoinProcs(s) ==
  /\ loop[s] = "join"
  /\ \A p \in Procs : proc[<<s, p>>] \in {"idle", "dead"}
  /\ loop' = [loop EXCEPT ![s] = "drain"]
  /\ UNCHANGED <<pool, group, proc, todo, loc, closed, input>>

Drain(s) ==
  /\ loop[s] = "drain"
  /\ \E x \in Queued(s) : Done(x)
  /\ UNCHANGED <<zero, pending, ready, group, loop, proc, todo, closed, input>>

(* Mutant: the drain gives up when the context is cancelled.               *)
DrainEndOnCancel(s) ==
  /\ loop[s] = "drain" /\ (ctxDone \/ (closed[s] /\ Queued(s) = {}))
  /\ loop' = [loop EXCEPT ![s] = "done"]
  /\ UNCHANGED <<pool, group, proc, todo, loc, closed, input>>

DrainEnd(s) ==
  /\ loop[s] = "drain" /\ closed[s] /\ Queued(s) = {}
  /\ loop' = [loop EXCEPT ![s] = "done"]
  /\ UNCHANGED <<pool, group, proc, todo, loc, closed, input>>

-----------------------------------------------------------------------------
(* A processing goroutine w = <<s, p>>: ProcessMessage broadcasts chunks;  *)
(* send takes a Message from the pool for each listener, counts it, and    *)
(* offers it to the medium.                                                *)

ListenersOf(m) == {l \in Listeners : Src[l] = m}

Emit(w) ==
  /\ proc[w] = "run" /\ fresh[Dst[w[1]]] > 0
  /\ fresh' = [fresh EXCEPT ![Dst[w[1]]] = @ - 1]
  /\ todo' = [todo EXCEPT ![w] = ListenersOf(Dst[w[1]])]
  /\ proc' = [proc EXCEPT ![w] = "send"]
  /\ UNCHANGED <<pool, group, loop, loc, closed, arriving, panics, ctxDone>>

GetMessage(w, l) ==
  /\ proc[w] = "send" /\ l \in todo[w]
  /\ Get(At("new", l, w))
  /\ Inc(l)
  /\ todo' = [todo EXCEPT ![w] = @ \ {l}]
  /\ proc' = [proc EXCEPT ![w] = "sending"]
  /\ UNCHANGED <<sawZero, zero, pending, ready, group, loop, closed, input>>

CanSend(l) == l \in Outs => Cardinality(Queued(l)) < OutCap

Send(w) ==
  /\ proc[w] = "sending"
  /\ \E x \in Msgs, l \in Listeners :
       /\ loc[x] = At("new", l, w) /\ ~closed[l] /\ CanSend(l)
       /\ Move(x, At("queued", l, None))
  /\ proc' = [proc EXCEPT ![w] = "send"]
  /\ UNCHANGED <<pool, group, loop, todo, closed, input>>

(* Mutant: a failed send drops the message without calling Done.           *)
SendFailedLeak(w) ==
  /\ proc[w] = "sending"
  /\ \E x \in Msgs, l \in Listeners :
       /\ loc[x] = At("new", l, w)
       /\ ctxDone \/ (l \in Cyc /\ closed[l])
       /\ Move(x, Free)
  /\ proc' = [proc EXCEPT ![w] = "send"]
  /\ UNCHANGED <<pool, group, loop, todo, closed, input>>

(* Send returned false: cancelled, or the queue of a cyclical edge is      *)
(* already closed. The sender still owns the message and calls Done.       *)
SendFailed(w) ==
  /\ proc[w] = "sending"
  /\ \E x \in Msgs, l \in Listeners :
       /\ loc[x] = At("new", l, w)
       /\ ctxDone \/ (l \in Cyc /\ closed[l])
       /\ Done(x)
  /\ proc' = [proc EXCEPT ![w] = "send"]
  /\ UNCHANGED <<zero, pending, ready, group, loop, todo, closed, input>>

ChunkSent(w) ==
  /\ proc[w] = "send" /\ todo[w] = {}
  /\ proc' = [proc EXCEPT ![w] = "run"]
  /\ UNCHANGED <<pool, group, loop, todo, loc, closed, input>>

MessageDone(w) ==
  /\ proc[w] = "run"
  /\ \E x \in Msgs : loc[x] = At("proc", w[1], w) /\ Done(x)
  /\ proc' = [proc EXCEPT ![w] = "idle"]
  /\ UNCHANGED <<zero, pending, ready, group, loop, todo, closed, input>>

(* ProcessMessage panics: the deferred functions record the error, call    *)
(* Done, and the goroutine is gone.                                        *)
Panic(w) ==
  /\ proc[w] = "run" /\ panics > 0
  /\ \E x \in Msgs : loc[x] = At("proc", w[1], w) /\ Done(x)
  /\ proc' = [proc EXCEPT ![w] = "dead"]
  /\ panics' = panics - 1
  /\ UNCHANGED <<zero, pending, ready, group, loop, todo, closed, fresh,
                 arriving, ctxDone>>

-----------------------------------------------------------------------------
(* Basic.Execute after its goroutines are started.                         *)

Goto(m, from, to) ==
  /\ main[m] = from
  /\ main' = [main EXCEPT ![m] = to]

StandardDone(m) ==
  /\ Goto(m, "standard", "report")
  /\ \A s \in Std : Dst[s] = m => loop[s] = "done"
  /\ UNCHANGED <<pool, awake, loop, proc, todo, loc, closed, input>>

(* SignalReady: Report (StatusPool.set) and then Dec.                      *)
Report(m) ==
  /\ Goto(m, "report", "dec")
  /\ pending' = [pending EXCEPT ![m] = FALSE]
  /\ ready' = (ready \/ (pending[m] /\ \A k \in Members \ {m} : ~pending[k]))
  /\ UNCHANGED <<inflight, sawZero, zero, awake, loop, proc, todo, loc,
                 closed, input>>

SignalDec(m) ==
  /\ Goto(m, "dec", "allReady")
  /\ DecPool
  /\ UNCHANGED <<zero, pending, ready, awake, loop, proc, todo, loc, closed,
                 input>>

(* WaitForAllReady with a context that is never cancelled. total > 0 ever  *)
(* since Join, so the second wait is never skipped.                        *)
AllReady(m) ==
  /\ Goto(m, "allReady", "quiescent")
  /\ ready
  /\ UNCHANGED <<pool, awake, loop, proc, todo, loc, closed, input>>

(* Mutant: Wait returns as soon as every member is ready.                  *)
QuiescentTooSoon(m) ==
  /\ Goto(m, "quiescent", IF m = Leader THEN "cleanup" ELSE "sleep")
  /\ UNCHANGED <<pool, awake, loop, proc, todo, loc, closed, input>>

Quiescent(m) ==
  /\ Goto(m, "quiescent", IF m = Leader THEN "cleanup" ELSE "sleep")
  /\ zero
  /\ UNCHANGED <<pool, awake, loop, proc, todo, loc, closed, input>>

(* Mutant: a member that is not the leader does not wait for its turn.     *)
SleepNot(m) ==
  /\ Goto(m, "sleep", "cleanup")
  /\ UNCHANGED <<pool, awake, loop, proc, todo, loc, closed, input>>

Sleep(m) ==
  /\ Goto(m, "sleep", "cleanup")
  /\ awake[m]
  /\ UNCHANGED <<pool, awake, loop, proc, todo, loc, closed, input>>

(* Mutant: Cleanup forgets the cyclical listeners.                         *)
CleanupOutsOnly(m) ==
  /\ Goto(m, "cleanup", "wake")
  /\ closed' = [e \in Senders \cup Outs |->
                  closed[e] \/ e \in ListenersOf(m) \cap Outs]
  /\ UNCHANGED <<pool, awake, loop, proc, todo, loc, input>>

Cleanup(m) ==
  /\ Goto(m, "cleanup", "wake")
  /\ closed' = [e \in Senders \cup Outs |-> closed[e] \/ e \in ListenersOf(m)]
  /\ UNCHANGED <<pool, awake, loop, proc, todo, loc, input>>

Wake(m) ==
  /\ Goto(m, "wake", "recursive")
  /\ awake' = [awake EXCEPT ![Follow(m)] = TRUE]
  /\ UNCHANGED <<pool, loop, proc, todo, loc, closed, input>>

(* The deferred wgRecursive.Wait; the second, deferred Cleanup finds       *)
(* everything closed already.                                              *)
RecursiveDone(m) ==
  /\ Goto(m, "recursive", "done")
  /\ \A s \in Cyc : Dst[s] = m => loop[s] = "done"
  /\ UNCHANGED <<pool, awake, loop, proc, todo, loc, closed, input>>

-----------------------------------------------------------------------------
LoopStep(s) ==
  \/ Receive(s) \/ ReceiveEnd(s) \/ DispatchCancelled(s) \/ JoinProcs(s)
  \/ Drain(s) \/ DrainEnd(s)
  \/ \E p \in Procs : Dispatch(s, p)

ProcStep(w) ==
  \/ Emit(w) \/ Send(w) \/ SendFailed(w) \/ ChunkSent(w) \/ MessageDone(w)
  \/ \E l \in Listeners : GetMessage(w, l)

MainStep(m) ==
  \/ StandardDone(m) \/ Report(m) \/ SignalDec(m) \/ AllReady(m)
  \/ Quiescent(m) \/ Sleep(m) \/ Cleanup(m) \/ Wake(m) \/ RecursiveDone(m)

AllDone == \A m \in Members : main[m] = "done"

(* Nothing is left to do once every worker has returned.                   *)
Finished == AllDone /\ UNCHANGED vars

Next ==
  \/ CloseQuiescence \/ Cancel
  \/ \E s \in Std : Arrive(s) \/ UpstreamClose(s)
  \/ \E o \in Outs : Downstream(o)
  \/ \E s \in Senders : LoopStep(s)
  \/ \E w \in Workers : ProcStep(w) \/ Panic(w)
  \/ \E m \in Members : MainStep(m)
  \/ Finished

Spec == Init /\ [][Next]_vars

(* Somebody who can move does: the goroutines of the group, the upstream   *)
(* workers, which terminate and close what they feed, and the downstream   *)
(* worker (or Pipeline.Close), which reads until the medium is closed. All *)
(* work is finite, so this weak form of fairness is enough. Nothing makes  *)
(* a message arrive, a panic happen or a context end.                      *)
Progress ==
  \/ CloseQuiescence
  \/ \E s \in Std : UpstreamClose(s)
  \/ \E o \in Outs : Downstream(o)
  \/ \E s \in Senders : LoopStep(s)
  \/ \E w \in Workers : ProcStep(w)
  \/ \E m \in Members : MainStep(m)

FairSpec == Spec /\ WF_vars(Progress)

-----------------------------------------------------------------------------
(* The messages that the in-flight count stands for, and the members whose *)
(* own contribution (from Join) has not been taken back by SignalReady.    *)
Counted  == {x \in Msgs : loc[x].edge \in Cyc}
NotReady == {m \in Members : main[m] \in {"standard", "report", "dec"}}

(* The in-flight count of StatusPool is exactly the number of messages     *)
(* between MsgFunc's Inc and Done's Dec, plus one per member that has not  *)
(* signalled ready: no path (failed send, cancelled dispatch, drain,       *)
(* panic) forgets a Dec or does one twice.                                 *)
InflightExact == inflight = Cardinality(Counted) + Cardinality(NotReady)

(* Once the quiescence channel is closed, the cycle is dry for good: no    *)
(* message is on a cyclical edge, every member has seen the end of its     *)
(* standard inputs, and no goroutine of the group is processing anything.  *)
QuiescenceIsFinal ==
  zero => /\ Counted = {}
          /\ NotReady = {}
          /\ \A s \in Std : loop[s] = "done"
          /\ \A w \in Workers : proc[w] \in {"idle", "dead"}

(* A worker never closes a listener that one of its goroutines still has   *)
(* to send to: closing a ChannelMedium under a Send would panic.           *)
NoSendOnClosed ==
  \A w \in Workers : proc[w] \in {"run", "send", "sending"} =>
    \A l \in ListenersOf(Dst[w[1]]) : ~closed[l]

(* The teardown is a cascade: a member that is not the leader closes its   *)
(* listeners only after the member before it in the ring closed all its    *)
(* own, so downstream media close in dependency order.                     *)
OrderedTeardown ==
  [][\A m \in Members \ {Leader} : \A l \in ListenersOf(m) :
       ~closed[l] /\ closed'[l] =>
         \A k \in Members : Follow(k) = m =>
           \A e \in ListenersOf(k) : closed[e]]_vars

(* Every run of the cycle ends, with or without a cancellation: all        *)
(* members return from Execute. The one exception is a sender all of whose *)
(* processing goroutines died in a panic: its loop blocks on the channel   *)
(* they read until the context is cancelled, which brings every member     *)
(* home even then.                                                         *)
Terminates ==
  /\ <>(AllDone \/ \E s \in Senders : \A p \in Procs : proc[<<s, p>>] = "dead")
  /\ ctxDone ~> AllDone
=============================================================================
