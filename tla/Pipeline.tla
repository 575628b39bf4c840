------------------------------ MODULE Pipeline ------------------------------
(***************************************************************************)
(* internal/listobjects/pipeline: the network of workers that Build starts *)
(* for one ListObjects query, and Recv and Close, with which the caller    *)
(* reads it. Workers exchange messages (batches of objects) over bounded   *)
(* channels, one per edge of the model graph; each sender of a worker is   *)
(* processed by NumProcs goroutines; a store read may fail at any point;   *)
(* the request's context may be cancelled at any point, and cancellation   *)
(* reaches derived contexts one after the other. Cyclical edges are in     *)
(* CycleGroup. The error accumulator keeps the two steps of its Send, the  *)
(* swap of the head and the link, which MpscAccumulator has in full.       *)
(***************************************************************************)
EXTENDS Integers, Sequences, FiniteSets, Functions

CONSTANTS
  Graphs,     \* the networks Build may start, see GraphOK
  Values,     \* objects
  NumProcs, ChunkSize, Capacity,
  None

VARIABLE g    \* the network of this query; never changes

Workers == g.workers   \* nodes of the graph that are reachable from the query
Kind  == g.kind        \* Kind[w], the type createWorker chose
Edges == g.edges       \* naturals, in the order the listeners subscribed
Src   == g.src         \* Src[e] and Dst[e], workers; None at the ends of
Dst   == g.dst         \* the pipeline
Port  == g.port        \* Port[e], index of e among the senders of Dst[e]
Out   == g.out         \* the edge Recv reads
Image == g.image       \* Image[e][v], what the interpreter finds for v over e
Excluded == g.excluded \* Excluded[w], objects Exists finds for a direct subtract
Label == g.label       \* Label[w], what a wildcard worker broadcasts
Seeds == g.seeds       \* Seeds[e], what Build puts on e before the workers start
MaxErrors == g.errors  \* bound: store reads that fail
MayCancel == g.cancel  \* whether the request may be cancelled
MayStop   == g.stop    \* whether the caller may stop before the end

Procs == 1..NumProcs

GraphOK(h) ==
  /\ h.kind \in [h.workers -> {"terminal", "wildcard", "basic", "intersection",
                               "difference", "direct"}]
  /\ h.edges \subseteq Nat /\ IsFiniteSet(h.edges)
  /\ h.src \in [h.edges -> h.workers \cup {None}]
  /\ h.dst \in [h.edges -> h.workers \cup {None}]
  /\ None \notin h.workers
  /\ h.port \in [h.edges -> Nat]
  /\ h.image \in [h.edges -> [Values -> SUBSET Values]]
  /\ h.excluded \in [h.workers -> SUBSET Values] /\ h.label \in [h.workers -> Values]
  /\ h.seeds \in [h.edges -> Seq(Values)]
  /\ h.errors \in Nat /\ h.cancel \in BOOLEAN /\ h.stop \in BOOLEAN
  \* The output is the one edge that leaves the network. Only the input of
  \* the network is seeded.
  /\ h.out \in h.edges /\ \A e \in h.edges : h.dst[e] = None <=> e = h.out
  /\ \A e \in h.edges : h.src[e] # None => h.seeds[e] = <<>>
  \* A worker exists because somebody subscribed to it.
  /\ \A w \in h.workers : \E e \in h.edges : h.src[e] = w
  \* The senders of the workers for operators: Difference panics unless it
  \* has two, for the base and for what is subtracted.
  /\ \A w \in h.workers :
       /\ h.kind[w] = "intersection" => \E e \in h.edges : h.dst[e] = w
       /\ h.kind[w] = "difference" =>
            \E b, c \in h.edges : /\ h.port[b] = 0 /\ h.port[c] = 1
                                 /\ {e \in h.edges : h.dst[e] = w} = {b, c}
  \* Without its cyclical edges, the network has an order.
  /\ IsFiniteSet(h.workers)
  /\ \E rank \in [h.workers -> 0..Cardinality(h.workers)] :
       \A e \in h.edges : h.src[e] # None /\ e # h.out => rank[h.src[e]] < rank[h.dst[e]]

ASSUME PipelineAssumption ==
  /\ \A h \in Graphs : GraphOK(h)
  /\ NumProcs \in Nat \ {0} /\ ChunkSize \in Nat \ {0} /\ Capacity \in Nat \ {0}

VARIABLES
  chan, open,   \* the media: queued messages, not yet closed
  phase,        \* ProcessSender of an edge: "recv", "join", "drain", "done"
  received,     \* the objects the edge delivered; stats.SumObjectsReceived
                \* counts them, and is only compared with zero
  failures,     \* errors while processing the edge (stats.SumErrors)
  st,           \* what a task does: "idle", "work", "send", "cas", "link"
  todo,         \* results it has not looked at yet
  buf,          \* the chunk it is filling or sending
  pend,         \* listeners the chunk still has to go to
  bad,          \* an error it has to report
  seen,         \* outputBuffer of a Basic worker
  bag,          \* per edge: what an Intersection or Difference collected
  base,         \* base accumulator of a Difference
  wpc,          \* Execute of a worker: "run", "emit", "return", "end"
  reqDone, pipeDone, childDone,  \* cancelled: the request's, the pipeline's and
                                 \* a worker's own context
  errs,         \* error accumulator: linked or not, oldest first
  slot,         \* index in errs a task is about to link
  pc,           \* the caller: "top", "try", "buffer", "output", "stopped", "drain", "wait", "end"
  buffer,       \* values Recv has not delivered yet
  delivered,    \* values Recv returned, in order
  failed,       \* Recv or Close stored an error
  full          \* Recv saw the output exhausted

(* g is part of network and of caller: every action keeps one of them.     *)
media == <<chan, open>>
tasks == <<st, todo, buf, pend, bad>>
sets  == <<seen, bag, base>>
ctxs  == <<reqDone, pipeDone, childDone>>
caller == <<g, pc, buffer, delivered, failed, full>>
vars == <<g, chan, open, phase, received, failures, st, todo, buf, pend, bad, seen, bag,
          base, wpc, reqDone, pipeDone, childDone, errs, slot, pc, buffer, delivered,
          failed, full>>

Senders(w)   == {e \in Edges : Dst[e] = w}
Listeners(w) == {e \in Edges : Src[e] = w}

(* A task is a processing goroutine of an edge, or Execute itself while it *)
(* broadcasts.                                                             *)
Tasks == (Edges \X Procs) \cup (Workers \X {0})
WorkerOf(t) == IF t[2] = 0 THEN t[1] ELSE Dst[t[1]]

OwnContext(w) == Kind[w] \in {"intersection", "difference", "direct"}
CtxDone(w)    == IF OwnContext(w) THEN childDone[w] ELSE pipeDone

(* Build: the seeds are queued and the input closed before any worker      *)
(* starts. An edge that cannot reach the subject has no source: a          *)
(* NoopMedium, which is empty and behaves as closed.                       *)
Init ==
  /\ g \in Graphs
  /\ chan = [e \in Edges |-> IF Seeds[e] = <<>> THEN <<>> ELSE <<Seeds[e]>>]
  /\ open = [e \in Edges |-> Src[e] # None]
  /\ phase = [e \in Edges |-> IF e = Out THEN "done" ELSE "recv"]
  /\ received = [e \in Edges |-> {}] /\ failures = [e \in Edges |-> 0]
  /\ st = [t \in Tasks |-> "idle"] /\ todo = [t \in Tasks |-> {}]
  /\ buf = [t \in Tasks |-> <<>>] /\ pend = [t \in Tasks |-> {}]
  /\ bad = [t \in Tasks |-> FALSE]
  /\ seen = [w \in Workers |-> {}] /\ bag = [e \in Edges |-> {}]
  /\ base = [w \in Workers |-> <<>>]
  /\ wpc = [w \in Workers |-> "run"]
  /\ reqDone = FALSE /\ pipeDone = FALSE /\ childDone = [w \in Workers |-> FALSE]
  /\ errs = <<>> /\ slot = [t \in Tasks |-> 0]
  /\ pc = "top" /\ buffer = <<>> /\ delivered = <<>>
  /\ failed = FALSE /\ full = FALSE

-----------------------------------------------------------------------------
(* ProcessSender: the message loop and its goroutines. Recv and the        *)
(* hand-over to a goroutine are one step; a cancelled context may win the  *)
(* select at any moment.                                                   *)

Found(e, msg) == UNION {Image[e][msg[i]] : i \in 1..Len(msg)}

Take(e, p) ==
  /\ phase[e] = "recv" /\ chan[e] # <<>> /\ st[<<e, p>>] = "idle"
  /\ chan' = [chan EXCEPT ![e] = Tail(@)]
  /\ received' = [received EXCEPT ![e] = @ \cup Range(Head(chan[e]))]
  /\ st' = [st EXCEPT ![<<e, p>>] = "work"]
  /\ todo' = [todo EXCEPT ![<<e, p>>] = Found(e, Head(chan[e]))]
  /\ UNCHANGED <<open, phase, failures, buf, pend, bad, sets, wpc, ctxs, errs, slot, caller>>

(* Mutant: a closed sender is left although messages are still queued. *)
StopRecvEarly(e) ==
  /\ phase[e] = "recv"
  /\ ~open[e] \/ CtxDone(Dst[e])
  /\ phase' = [phase EXCEPT ![e] = "join"]
  /\ UNCHANGED <<media, received, failures, tasks, sets, wpc, ctxs, errs, slot, caller>>

StopRecv(e) ==
  /\ phase[e] = "recv"
  /\ (~open[e] /\ chan[e] = <<>>) \/ CtxDone(Dst[e])
  /\ phase' = [phase EXCEPT ![e] = "join"]
  /\ UNCHANGED <<media, received, failures, tasks, sets, wpc, ctxs, errs, slot, caller>>

(* wg.Wait, then DrainSender, which ends when the sender is closed.        *)
Join(e) ==
  /\ phase[e] = "join" /\ \A p \in Procs : st[<<e, p>>] = "idle"
  /\ phase' = [phase EXCEPT ![e] = "drain"]
  /\ UNCHANGED <<media, received, failures, tasks, sets, wpc, ctxs, errs, slot, caller>>

Drain(e) ==
  /\ phase[e] = "drain" /\ chan[e] # <<>>
  /\ chan' = [chan EXCEPT ![e] = Tail(@)]
  /\ UNCHANGED <<open, phase, received, failures, tasks, sets, wpc, ctxs, errs, slot, caller>>

(* What follows ProcessSender: a Difference whose base received nothing,   *)
(* and an Intersection one of whose inputs is empty without an error,      *)
(* cancel their own context.                                               *)
Fruitless(e) ==
  \/ Kind[Dst[e]] = "difference" /\ Port[e] = 0 /\ received[e] = {}
  \/ Kind[Dst[e]] = "intersection" /\ bag[e] = {} /\ failures[e] = 0

SenderDone(e) ==
  /\ phase[e] = "drain" /\ chan[e] = <<>> /\ ~open[e]
  /\ phase' = [phase EXCEPT ![e] = "done"]
  /\ childDone' = [childDone EXCEPT ![Dst[e]] = @ \/ Fruitless(e)]
  /\ UNCHANGED <<media, received, failures, tasks, sets, wpc, reqDone, pipeDone, errs, slot,
                 caller>>

-----------------------------------------------------------------------------
(* ProcessMessage: one result of the interpreter per step.                 *)

(* Broadcast adds v to the chunk and sends it once it is full.             *)
Collect(t, v) ==
  LET b == Append(buf[t], v)
  IN /\ buf' = [buf EXCEPT ![t] = b]
     /\ st' = [st EXCEPT ![t] = IF Len(b) = ChunkSize THEN "send" ELSE "work"]
     /\ pend' = [pend EXCEPT ![t] = IF Len(b) = ChunkSize THEN Listeners(WorkerOf(t)) ELSE {}]

(* Mutant: the check against the worker's earlier output is forgotten. *)
PassAll(t, v, ok) == Collect(t, v)

Pass(t, v, ok) == IF ok THEN Collect(t, v) ELSE UNCHANGED <<buf, st, pend>>

Result(e, p) ==
  LET t == <<e, p>>
      w == Dst[e]
  IN /\ st[t] = "work"
     /\ \E v \in todo[t] :
          /\ todo' = [todo EXCEPT ![t] = @ \ {v}]
          /\ CASE Kind[w] = "basic" ->
                    /\ seen' = [seen EXCEPT ![w] = @ \cup {v}]
                    /\ Pass(t, v, v \notin seen[w])
                    /\ UNCHANGED <<bag, base>>
               [] Kind[w] = "terminal" -> Collect(t, v) /\ UNCHANGED sets
               [] Kind[w] = "direct" -> Pass(t, v, v \notin Excluded[w]) /\ UNCHANGED sets
               [] Kind[w] = "difference" /\ Port[e] = 0 ->
                    /\ base' = [base EXCEPT ![w] = Append(@, v)]
                    /\ UNCHANGED <<seen, bag, buf, st, pend>>
               [] OTHER ->
                    /\ bag' = [bag EXCEPT ![e] = @ \cup {v}]
                    /\ UNCHANGED <<seen, base, buf, st, pend>>
     /\ UNCHANGED <<media, phase, received, failures, bad, wpc, ctxs, errs, slot, caller>>

(* The store read fails: the rest of the results is lost, the error goes   *)
(* to the accumulator once what was found is sent.                         *)
ReadFails(e, p) ==
  LET t == <<e, p>>
  IN /\ st[t] = "work" /\ ~bad[t] /\ Kind[Dst[e]] # "terminal"
     /\ Len(errs) + Cardinality({u \in Tasks : bad[u]}) < MaxErrors
     /\ todo' = [todo EXCEPT ![t] = {}]
     /\ bad' = [bad EXCEPT ![t] = TRUE]
     /\ UNCHANGED <<media, phase, received, failures, st, buf, pend, sets, wpc, ctxs, errs,
                    slot, caller>>

(* A cancelled context ends the iteration; such an error is not reported.  *)
CutShort(t) ==
  /\ st[t] = "work" /\ todo[t] # {} /\ CtxDone(WorkerOf(t))
  /\ todo' = [todo EXCEPT ![t] = {}]
  /\ UNCHANGED <<media, phase, received, failures, st, buf, pend, bad, sets, wpc, ctxs, errs,
                 slot, caller>>

(* Nothing more to look at. A Difference waits for its base accumulator to *)
(* be closed, or for its context.                                          *)
Exhausted(t) ==
  /\ todo[t] = {}
  /\ t[2] = 0 /\ Kind[t[1]] = "difference" =>
       /\ base[t[1]] = <<>>
       /\ CtxDone(t[1]) \/ \A e \in Senders(t[1]) : Port[e] = 0 => phase[e] = "done"

(* The last, partial chunk.                                                *)
Flush(t) ==
  /\ st[t] = "work" /\ Exhausted(t) /\ buf[t] # <<>>
  /\ st' = [st EXCEPT ![t] = "send"]
  /\ pend' = [pend EXCEPT ![t] = Listeners(WorkerOf(t))]
  /\ UNCHANGED <<media, phase, received, failures, todo, buf, bad, sets, wpc, ctxs, errs, slot,
                 caller>>

(* send: one listener after the other, blocking while its channel is full. *)
(* A cancelled context makes the send fail and the message is dropped.     *)
Send(t) ==
  LET l == CHOOSE x \in pend[t] : \A y \in pend[t] : x <= y
      last == pend[t] = {l}
  IN /\ st[t] = "send"
     /\ \/ Len(chan[l]) < Capacity /\ chan' = [chan EXCEPT ![l] = Append(@, buf[t])]
        \/ CtxDone(WorkerOf(t)) /\ UNCHANGED chan
     /\ pend' = [pend EXCEPT ![t] = @ \ {l}]
     /\ st' = [st EXCEPT ![t] = IF last THEN "work" ELSE @]
     /\ buf' = [buf EXCEPT ![t] = IF last THEN <<>> ELSE @]
     /\ UNCHANGED <<open, phase, received, failures, todo, bad, sets, wpc, ctxs, errs, slot,
                    caller>>

(* ProcessMessage returned: report its error, if any, and release the      *)
(* message.                                                                *)
MessageDone(e, p) ==
  LET t == <<e, p>>
  IN /\ st[t] = "work" /\ Exhausted(t) /\ buf[t] = <<>>
     /\ st' = [st EXCEPT ![t] = IF bad[t] THEN "cas" ELSE "idle"]
     /\ failures' = [failures EXCEPT ![e] = @ + (IF bad[t] THEN 1 ELSE 0)]
     /\ UNCHANGED <<media, phase, received, todo, buf, pend, bad, sets, wpc, ctxs, errs, slot,
                    caller>>

ReportCas(t) ==
  /\ st[t] = "cas"
  /\ st' = [st EXCEPT ![t] = "link"]
  /\ errs' = Append(errs, FALSE)
  /\ slot' = [slot EXCEPT ![t] = Len(errs) + 1]
  /\ bad' = [bad EXCEPT ![t] = FALSE]
  /\ UNCHANGED <<media, phase, received, failures, todo, buf, pend, sets, wpc, ctxs, caller>>

ReportLink(t) ==
  /\ st[t] = "link"
  /\ st' = [st EXCEPT ![t] = "idle"]
  /\ errs' = [errs EXCEPT ![slot[t]] = TRUE]
  /\ UNCHANGED <<media, phase, received, failures, todo, buf, pend, bad, sets, wpc, ctxs, slot,
                 caller>>

-----------------------------------------------------------------------------
(* Execute.                                                                *)

SendersDone(w) == \A e \in Senders(w) : phase[e] = "done"

(* What Execute waits for before it broadcasts itself or returns.          *)
Ready(w) ==
  CASE Kind[w] = "difference" -> \A e \in Senders(w) : Port[e] = 1 => phase[e] = "done"
    [] OTHER -> SendersDone(w)

Common(w) == {v \in Values : \A e \in Senders(w) : v \in bag[e]}

Broadcasts(w) ==
  \/ Kind[w] = "wildcard"
  \/ Kind[w] \in {"intersection", "difference"} /\ Senders(w) # {} /\ ~CtxDone(w)

Own(w) == CASE Kind[w] = "wildcard" -> {Label[w]}
            [] Kind[w] = "intersection" -> Common(w)
            [] OTHER -> {}

Gather(w) ==
  /\ wpc[w] = "run" /\ Ready(w)
  /\ IF Broadcasts(w)
     THEN /\ wpc' = [wpc EXCEPT ![w] = "emit"]
          /\ st' = [st EXCEPT ![<<w, 0>>] = "work"]
          /\ todo' = [todo EXCEPT ![<<w, 0>>] = Own(w)]
     ELSE wpc' = [wpc EXCEPT ![w] = "return"] /\ UNCHANGED <<st, todo>>
  /\ UNCHANGED <<media, phase, received, failures, buf, pend, bad, sets, ctxs, errs, slot,
                 caller>>

(* Broadcast of a wildcard's label or of the common objects.               *)
EmitOwn(w) ==
  /\ st[<<w, 0>>] = "work"
  /\ \E v \in todo[<<w, 0>>] :
       /\ todo' = [todo EXCEPT ![<<w, 0>>] = @ \ {v}]
       /\ Collect(<<w, 0>>, v)
  /\ UNCHANGED <<media, phase, received, failures, bad, sets, wpc, ctxs, errs, slot, caller>>

(* The SubtractingReceiver: the next base object, unless it is subtracted. *)
EmitBase(w) ==
  /\ st[<<w, 0>>] = "work" /\ Kind[w] = "difference" /\ base[w] # <<>>
  /\ base' = [base EXCEPT ![w] = Tail(@)]
  /\ Pass(<<w, 0>>, Head(base[w]), \A e \in Senders(w) : Port[e] = 1 => Head(base[w]) \notin bag[e])
  /\ UNCHANGED <<media, phase, received, failures, todo, bad, seen, bag, wpc, ctxs, errs, slot,
                 caller>>

EmitDone(w) ==
  /\ st[<<w, 0>>] = "work" /\ Exhausted(<<w, 0>>) /\ buf[<<w, 0>>] = <<>>
  /\ st' = [st EXCEPT ![<<w, 0>>] = "idle"]
  /\ wpc' = [wpc EXCEPT ![w] = "return"]
  /\ UNCHANGED <<media, phase, received, failures, todo, buf, pend, bad, sets, ctxs, errs, slot,
                 caller>>

(* Mutant: an Execute that gives up because of its context skips Cleanup. *)
ReturnNoCleanup(w) ==
  /\ wpc[w] = "return" /\ SendersDone(w)
  /\ wpc' = [wpc EXCEPT ![w] = "end"]
  /\ childDone' = [childDone EXCEPT ![w] = @ \/ OwnContext(w)]
  /\ open' = [e \in Edges |-> open[e] /\ (e \notin Listeners(w) \/ CtxDone(w))]
  /\ UNCHANGED <<chan, phase, received, failures, tasks, sets, reqDone, pipeDone, errs, slot,
                 caller>>

(* The deferred calls: a Difference waits for its base, the own context is *)
(* cancelled, Cleanup closes the listeners.                                *)
Return(w) ==
  /\ wpc[w] = "return" /\ SendersDone(w)
  /\ wpc' = [wpc EXCEPT ![w] = "end"]
  /\ childDone' = [childDone EXCEPT ![w] = @ \/ OwnContext(w)]
  /\ open' = [e \in Edges |-> open[e] /\ e \notin Listeners(w)]
  /\ UNCHANGED <<chan, phase, received, failures, tasks, sets, reqDone, pipeDone, errs, slot,
                 caller>>

-----------------------------------------------------------------------------
(* Recv and Close, and the caller, who reads until Recv returns false or   *)
(* has enough, and then calls Close.                                       *)

network == <<g, phase, received, failures, tasks, sets, wpc, errs, slot>>
Go(from, to) == pc = from /\ pc' = to

(* Mutant: Recv does not look at the request's context first. *)
RecvTopUnchecked ==
  /\ Go("top", "try")
  /\ UNCHANGED <<media, network, ctxs, buffer, delivered, failed, full>>

RecvTop ==
  /\ Go("top", IF reqDone THEN "stopped" ELSE "try")
  /\ UNCHANGED <<media, network, ctxs, buffer, delivered, failed, full>>

(* Close begins with p.cancel().                                           *)
Cancelled == pipeDone' = TRUE /\ UNCHANGED <<reqDone, childDone>>

(* TryRecv of the accumulator: it sees the oldest error once that is       *)
(* linked.                                                                 *)
ErrorVisible == errs # <<>> /\ Head(errs)

RecvTry ==
  /\ \/ /\ ErrorVisible
        /\ Go("try", "drain")
        /\ failed' = TRUE /\ buffer' = <<>>
        /\ Cancelled
     \/ /\ ~ErrorVisible
        /\ Go("try", "buffer")
        /\ UNCHANGED <<failed, buffer, ctxs>>
  /\ UNCHANGED <<media, network, delivered, full>>

RecvBuffer ==
  /\ \/ /\ buffer # <<>> /\ Go("buffer", "top")
        /\ delivered' = Append(delivered, Head(buffer))
        /\ buffer' = Tail(buffer)
     \/ buffer = <<>> /\ Go("buffer", "output") /\ UNCHANGED <<delivered, buffer>>
  /\ UNCHANGED <<media, network, ctxs, failed, full>>

RecvOutput ==
  /\ \/ /\ chan[Out] # <<>> /\ Go("output", "top")
        /\ buffer' = Head(chan[Out])
        /\ chan' = [chan EXCEPT ![Out] = Tail(@)]
        /\ UNCHANGED <<ctxs, full>>
     \/ /\ chan[Out] = <<>> /\ ~open[Out] /\ ~reqDone /\ Go("output", "drain")
        /\ full' = TRUE
        /\ Cancelled
        /\ UNCHANGED <<chan, buffer>>
     \/ reqDone /\ Go("output", "stopped") /\ UNCHANGED <<chan, buffer, ctxs, full>>
  /\ UNCHANGED <<open, network, delivered, failed>>

CallClose ==
  /\ Go("stopped", "drain") \/ (MayStop /\ Go("top", "drain"))
  /\ Cancelled
  /\ UNCHANGED <<media, network, buffer, delivered, failed, full>>

CloseDrain ==
  /\ \/ chan[Out] # <<>> /\ Go("drain", "drain") /\ chan' = [chan EXCEPT ![Out] = Tail(@)]
     \/ chan[Out] = <<>> /\ ~open[Out] /\ Go("drain", "wait") /\ UNCHANGED chan
  /\ UNCHANGED <<open, network, ctxs, buffer, delivered, failed, full>>

(* Mutant: Close does not collect the errors that are left. *)
CloseWaitForgets ==
  /\ \A w \in Workers : wpc[w] = "end"
  /\ Go("wait", "end")
  /\ UNCHANGED <<media, network, ctxs, buffer, delivered, failed, full>>

CloseWait ==
  /\ \A w \in Workers : wpc[w] = "end"
  /\ Go("wait", "end")
  /\ failed' = (failed \/ errs # <<>>)
  /\ UNCHANGED <<media, network, ctxs, buffer, delivered, full>>

-----------------------------------------------------------------------------
(* Cancellation of the request, and its way down the tree of contexts.     *)

CancelRequest ==
  /\ MayCancel /\ ~reqDone /\ pc # "end" /\ reqDone' = TRUE
  /\ UNCHANGED <<media, network, pipeDone, childDone, caller>>

CancelPipe ==
  /\ reqDone /\ ~pipeDone /\ pipeDone' = TRUE
  /\ UNCHANGED <<media, network, reqDone, childDone, caller>>

CancelChild(w) ==
  /\ pipeDone /\ OwnContext(w) /\ ~childDone[w]
  /\ childDone' = [childDone EXCEPT ![w] = TRUE]
  /\ UNCHANGED <<media, network, reqDone, pipeDone, caller>>

Process(e, p) ==
  \/ Take(e, p) \/ Result(e, p) \/ ReadFails(e, p) \/ MessageDone(e, p)
  \/ CutShort(<<e, p>>) \/ Flush(<<e, p>>) \/ Send(<<e, p>>)
  \/ ReportCas(<<e, p>>) \/ ReportLink(<<e, p>>)

ProcessSender(e) == StopRecv(e) \/ Join(e) \/ Drain(e) \/ SenderDone(e)

Execute(w) ==
  \/ Gather(w) \/ EmitOwn(w) \/ EmitBase(w) \/ CutShort(<<w, 0>>) \/ Flush(<<w, 0>>)
  \/ Send(<<w, 0>>) \/ EmitDone(w) \/ Return(w)

Recv == RecvTop \/ RecvTry \/ RecvBuffer \/ RecvOutput

Next ==
  \/ \E e \in Edges \ {Out}, p \in Procs : Process(e, p)
  \/ \E e \in Edges \ {Out} : ProcessSender(e)
  \/ \E w \in Workers : Execute(w) \/ CancelChild(w)
  \/ Recv \/ CallClose \/ CloseDrain \/ CloseWait
  \/ CancelRequest \/ CancelPipe

Spec == Init /\ [][Next]_vars

(* Somebody who can move does: the goroutines, the contexts derived from a *)
(* cancelled one, and the caller, who reads until Recv returns false and   *)
(* then calls Close. All work is finite, so this weak form of fairness is  *)
(* enough. Nobody has to cancel the request, to stop early or to fail.     *)
Progress ==
  \/ \E e \in Edges \ {Out}, p \in Procs : Process(e, p)
  \/ \E e \in Edges \ {Out} : ProcessSender(e)
  \/ \E w \in Workers : Execute(w) \/ CancelChild(w)
  \/ Recv \/ (pc = "stopped" /\ CallClose) \/ CloseDrain \/ CloseWait \/ CancelPipe

FairSpec == Spec /\ WF_vars(Progress)

-----------------------------------------------------------------------------
(* What the workers of a network stand for: the sets of objects that the   *)
(* relations denote, for the subject of the query.                         *)
Through(h, f, e) ==
  UNION {h.image[e][v] : v \in IF h.src[e] = None THEN Range(h.seeds[e]) ELSE f[h.src[e]]}

Meaning(h, f, w) ==
  LET from == {e \in h.edges : h.dst[e] = w}
  IN CASE h.kind[w] = "wildcard" -> {h.label[w]}
       [] h.kind[w] = "intersection" -> {v \in Values : \A e \in from : v \in Through(h, f, e)}
       [] h.kind[w] = "difference" ->
            {v \in Values : \A e \in from : (v \in Through(h, f, e)) = (h.port[e] = 0)}
       [] OTHER -> (UNION {Through(h, f, e) : e \in from})
                     \ (IF h.kind[w] = "direct" THEN h.excluded[w] ELSE {})

Denotation(h) == LET f[w \in h.workers] == Meaning(h, f, w) IN f
Denotes == Denotation(g)

Answer == Denotes[Src[Out]]

(* Every object Recv delivers is one the relation denotes, also when reads *)
(* fail or the request is cancelled half-way: "no result computed from an  *)
(* incomplete input set is delivered" (pipeline.go:466).                   *)
Sound == \A v \in Range(delivered) : v \in Answer

(* An object is delivered once, however many paths lead to it.             *)
NoDuplicates == IsInjective(delivered)

(* When Recv reports the end and Err reports nothing, the answer is        *)
(* complete.                                                               *)
Complete == pc = "end" /\ full /\ ~failed => Range(delivered) = Answer

(* Err is set after Close whenever a read failed and the error was         *)
(* reported, so a caller never mistakes a partial answer for the answer.   *)
ErrorSurfaces == pc = "end" /\ ~failed => \A e \in Edges : failures[e] = 0

(* The pipeline never hangs: whatever fails or is cancelled, with channels *)
(* of bounded capacity and fan-out and fan-in between workers, Close       *)
(* returns and no worker is left.                                          *)
Terminates == <>(pc = "end")
=============================================================================
