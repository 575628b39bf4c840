--------------------------- MODULE PipelineProofs ---------------------------
(***************************************************************************)
(* Proofs about Pipeline, for every network of workers, every number of    *)
(* processing goroutines per sender and any schedule of failures,          *)
(* cancellations and calls of Recv and Close: the pipeline shuts down in   *)
(* order. Close returns only when every worker and every goroutine has     *)
(* ended, every message has been taken from its channel and every channel  *)
(* is closed; and a read that failed is reported to the caller before      *)
(* that.                                                                   *)
(*                                                                         *)
(* ShutInv is the inductive invariant. What makes it inductive is the      *)
(* chain from the goroutine that works on a message to the end of its      *)
(* worker: a goroutine that is not idle belongs to a sender that has not   *)
(* joined (TaskFine), a worker ends when its senders are done (EndOK), and *)
(* a channel is closed exactly when the worker that feeds it has ended     *)
(* (OpenOK), so that a drained channel stays empty (DrainedOK). For the    *)
(* errors it counts who still has to report: a failure is in the list of   *)
(* errors or in the hands of a goroutine that is about to publish it       *)
(* (ReportOK).                                                             *)
(***************************************************************************)
EXTENDS Pipeline, WellFoundedInduction, TLAPS

(* The type invariant, in four parts: the edges with their senders, the    *)
(* goroutines, the workers, the caller.                                    *)
EdgeType ==
  /\ chan \in [Edges -> Seq(Seq(Values))] /\ open \in [Edges -> BOOLEAN]
  /\ phase \in [Edges -> {"recv", "join", "drain", "done"}]
  /\ received \in [Edges -> SUBSET Values] /\ failures \in [Edges -> Nat]

TaskType ==
  /\ st \in [Tasks -> {"idle", "work", "send", "cas", "link"}]
  /\ todo \in [Tasks -> SUBSET Values] /\ buf \in [Tasks -> Seq(Values)]
  /\ pend \in [Tasks -> SUBSET Edges] /\ bad \in [Tasks -> BOOLEAN]
  /\ errs \in Seq(BOOLEAN) /\ slot \in [Tasks -> Nat]

WorkerType ==
  /\ seen \in [Workers -> SUBSET Values] /\ bag \in [Edges -> SUBSET Values]
  /\ base \in [Workers -> Seq(Values)]
  /\ wpc \in [Workers -> {"run", "emit", "return", "end"}]
  /\ reqDone \in BOOLEAN /\ pipeDone \in BOOLEAN /\ childDone \in [Workers -> BOOLEAN]

CallerType ==
  /\ pc \in {"top", "try", "buffer", "output", "stopped", "drain", "wait", "end"}
  /\ buffer \in Seq(Values) /\ delivered \in Seq(Values)
  /\ failed \in BOOLEAN /\ full \in BOOLEAN

TypeOK == g \in Graphs /\ EdgeType /\ TaskType /\ WorkerType /\ CallerType

(* The caller is inside Recv or may call it.                               *)
Asking == pc \in {"top", "try", "buffer", "output"}

(* A goroutine: what it holds at each of its control points, and that      *)
(* while it works its sender has not joined.                               *)
TaskFine(t) ==
  /\ st[t] \in {"idle", "cas", "link"} => todo[t] = {} /\ buf[t] = <<>>
  /\ st[t] # "send" => pend[t] = {}
  /\ st[t] = "send" => pend[t] # {} /\ pend[t] \subseteq Listeners(WorkerOf(t))
  /\ bad[t] => st[t] \in {"work", "send", "cas"}
  /\ bad[t] \/ st[t] \in {"cas", "link"} => t[2] # 0
  /\ t[2] # 0 /\ st[t] # "idle" => t[1] # Out /\ phase[t[1]] \in {"recv", "join"}
  /\ t[2] = 0 => (st[t] # "idle" <=> wpc[t[1]] = "emit")

TaskOK == \A t \in Tasks : TaskFine(t)

(* Each goroutine that links its error owns a slot of the list.            *)
LinkOK ==
  /\ \A t \in Tasks : st[t] = "link" => slot[t] \in DOMAIN errs
  /\ \A t, u \in Tasks : st[t] = "link" /\ st[u] = "link" /\ slot[t] = slot[u] => t = u

(* A failure is in the list, or a goroutine is about to put one there.     *)
ReportOK ==
  \A e \in Edges : failures[e] > 0 => errs # <<>> \/ \E t \in Tasks : st[t] = "cas"

(* A worker that has ended had its senders done; only the kinds that emit  *)
(* at the end do so.                                                       *)
EndOK ==
  /\ phase[Out] = "done"
  /\ \A w \in Workers : wpc[w] = "end" => SendersDone(w)
  /\ \A w \in Workers : wpc[w] = "emit" => Kind[w] \in {"wildcard", "intersection", "difference"}

(* The channel of an edge is open exactly while the worker that feeds it   *)
(* runs.                                                                   *)
OpenOK == \A e \in Edges : open[e] <=> Src[e] # None /\ wpc[Src[e]] # "end"

(* A sender that is done has left nothing behind.                          *)
DrainedOK == \A e \in Edges : phase[e] = "done" /\ e # Out => chan[e] = <<>> /\ ~open[e]

(* What Close has established at each of its steps.                        *)
CloseOK ==
  /\ pc \in {"wait", "end"} => chan[Out] = <<>> /\ ~open[Out]
  /\ pc = "end" => \A w \in Workers : wpc[w] = "end"
  /\ pc = "end" /\ errs # <<>> => failed

(* The pipeline is cancelled by its request or by Close; only workers with *)
(* a context of their own are cancelled alone.                             *)
ContextOK ==
  /\ pipeDone => reqDone \/ ~Asking
  /\ \A w \in Workers : childDone[w] => OwnContext(w)

(* Recv asks its output only when its buffer is empty.                     *)
CallerOK ==
  /\ pc = "output" => buffer = <<>>
  /\ full => ~Asking /\ pc # "stopped"

(* The inductive invariant.                                                *)
ShutInv ==
  /\ TypeOK /\ TaskOK /\ LinkOK /\ ReportOK /\ EndOK /\ OpenOK /\ DrainedOK
  /\ CloseOK /\ ContextOK /\ CallerOK

(* When Close has returned, no goroutine works, every worker has ended,    *)
(* and every channel is drained and closed (Close and the deferred cleanup *)
(* of the workers).                                                        *)
NothingLeft ==
  pc = "end" =>
    /\ \A t \in Tasks : st[t] = "idle"
    /\ \A w \in Workers : wpc[w] = "end"
    /\ \A e \in Edges : phase[e] = "done" /\ chan[e] = <<>> /\ ~open[e]

-----------------------------------------------------------------------------
(* Appending to a sequence stays within its type.                          *)
LEMMA AppendIn ==
  ASSUME NEW S, NEW s \in Seq(S), NEW v \in S
  PROVE  Append(s, v) \in Seq(S)
BY SMT, SMTT(30)

(* What every graph provides.                                              *)
LEMMA GraphFacts ==
  ASSUME g \in Graphs
  PROVE  /\ Out \in Edges /\ None \notin Workers /\ Edges \subseteq Nat /\ IsFiniteSet(Edges)
         /\ Kind \in [Workers -> {"terminal", "wildcard", "basic", "intersection",
                                  "difference", "direct"}]
         /\ Src \in [Edges -> Workers \cup {None}] /\ Dst \in [Edges -> Workers \cup {None}]
         /\ \A e \in Edges : Dst[e] = None <=> e = Out
         /\ \A e \in Edges \ {Out} : Dst[e] \in Workers
         /\ \A e \in Edges : Src[e] # None => Src[e] \in Workers /\ Seeds[e] = <<>>
         /\ Port \in [Edges -> Nat] /\ Image \in [Edges -> [Values -> SUBSET Values]]
         /\ Excluded \in [Workers -> SUBSET Values] /\ Label \in [Workers -> Values]
         /\ Seeds \in [Edges -> Seq(Values)]
         /\ \A w \in Workers : Listeners(w) # {}
         /\ MaxErrors \in Nat
<1>1. GraphOK(g)
  BY PipelineAssumption, ZenonT(30)
<1> QED BY <1>1, SMT, SMTT(30) DEF GraphOK, Out, Workers, Edges, Kind, Src, Dst, Port, Image, Excluded, Label,
                    Seeds, Listeners, MaxErrors

(* A task is that of a worker, numbered 0, or a processing goroutine of an *)
(* edge.                                                                   *)
LEMMA TaskForms ==
  ASSUME g \in Graphs
  PROVE  /\ \A t \in Tasks : \/ t[2] = 0 /\ t[1] \in Workers /\ t = <<t[1], 0>> /\ WorkerOf(t) = t[1]
                             \/ /\ t[1] \in Edges /\ t[2] \in Procs /\ t[2] # 0
                                /\ t = <<t[1], t[2]>> /\ WorkerOf(t) = Dst[t[1]]
         /\ \A e \in Edges, p \in Procs : <<e, p>> \in Tasks /\ WorkerOf(<<e, p>>) = Dst[e] /\ p # 0
         /\ \A w \in Workers : <<w, 0>> \in Tasks /\ WorkerOf(<<w, 0>>) = w
<1>1. \A p \in Procs : p # 0
  BY PipelineAssumption, SMT, SMTT(30) DEF Procs
<1> QED BY <1>1, SMT, SMTT(30) DEF Tasks, WorkerOf

(* The graph of a run does not change.                                     *)
LEMMA SameGraph ==
  ASSUME g' = g
  PROVE  /\ Workers' = Workers /\ Kind' = Kind /\ Edges' = Edges /\ Src' = Src /\ Dst' = Dst
         /\ Port' = Port /\ Out' = Out /\ Tasks' = Tasks
         /\ \A w : Senders(w)' = Senders(w) /\ Listeners(w)' = Listeners(w)
         /\ \A w : OwnContext(w)' <=> OwnContext(w)
         /\ \A t : WorkerOf(t)' = WorkerOf(t)
<1>1. /\ Workers' = Workers /\ Kind' = Kind /\ Edges' = Edges /\ Src' = Src /\ Dst' = Dst
      /\ Port' = Port /\ Out' = Out
  BY ZenonT(30) DEF Workers, Kind, Edges, Src, Dst, Port, Out
<1> QED BY <1>1, ZenonT(30) DEF Tasks, Senders, Listeners, OwnContext, WorkerOf

(* A set of numbers that is not empty has a least element.                 *)
LEMMA NatMin ==
  ASSUME NEW T \in SUBSET Nat, T # {}
  PROVE  \E m \in T : \A k \in T : m <= k
<1> DEFINE R == {ss \in Nat \X Nat : ss[1] < ss[2]}
<1>1. OpToRel(<, Nat) = R
  BY ZenonT(30) DEF OpToRel
<1>2. IsWellFoundedOn(R, Nat)
  BY <1>1, NatLessThanWellFounded, ZenonT(30)
<1>3. \A k, m \in Nat : k < m => <<k, m>> \in R
  <2> SUFFICES ASSUME NEW k \in Nat, NEW m \in Nat, k < m
               PROVE  <<k, m>> \in R
    BY ZenonT(30)
  <2>1. <<k, m>>[1] < <<k, m>>[2] /\ <<k, m>> \in Nat \X Nat
    BY ZenonT(30)
  <2> QED BY <2>1, ZenonT(30)
<1> HIDE DEF R
<1>4. PICK m \in T : \A y \in T : ~(<<y, m>> \in R)
  BY <1>2, WFMin, ZenonT(30)
<1>5. ASSUME NEW k \in T, k < m
      PROVE  FALSE
  BY <1>3, <1>4, <1>5, ZenonT(30)
<1> QED BY <1>5, SMT, SMTT(30)

(* A task that a step leaves alone, while its sender and its worker do not *)
(* move on, stays fine.                                                    *)
LEMMA TaskFrame ==
  ASSUME g \in Graphs, g' = g, NEW u \in Tasks, TaskFine(u),
         st'[u] = st[u], todo'[u] = todo[u], buf'[u] = buf[u], pend'[u] = pend[u], bad'[u] = bad[u],
         u[2] # 0 => phase'[u[1]] = phase[u[1]],
         u[2] = 0 => wpc'[u[1]] = wpc[u[1]]
  PROVE  TaskFine(u)'
BY SameGraph, ZenonT(30) DEF TaskFine

(* ReportOK survives a step that fails no read and withdraws no report.    *)
LEMMA ReportFrame ==
  ASSUME ReportOK, g' = g, failures' = failures, errs # <<>> => errs' # <<>>,
         \A t \in Tasks : st[t] = "cas" => st'[t] = "cas" \/ errs' # <<>>
  PROVE  ReportOK'
BY SameGraph, ZenonT(30) DEF ReportOK

(* The types survive a step that changes nothing they speak of.            *)
LEMMA TypeFrame ==
  ASSUME g' = g
  PROVE  /\ EdgeType /\ UNCHANGED <<chan, open, phase, received, failures>> => EdgeType'
         /\ TaskType /\ UNCHANGED <<st, todo, buf, pend, bad, errs, slot>> => TaskType'
         /\ WorkerType /\ UNCHANGED <<seen, bag, base, wpc, reqDone, pipeDone, childDone>> => WorkerType'
         /\ CallerType /\ UNCHANGED <<pc, buffer, delivered, failed, full>> => CallerType'
BY SameGraph, ZenonT(30) DEF EdgeType, TaskType, WorkerType, CallerType

(* Each part of the invariant survives a step that leaves alone what it    *)
(* speaks of.                                                              *)
LEMMA CalmFrame ==
  ASSUME g' = g
  PROVE  /\ TaskOK /\ UNCHANGED <<st, todo, buf, pend, bad, phase, wpc>> => TaskOK'
         /\ LinkOK /\ UNCHANGED <<st, slot, errs>> => LinkOK'
         /\ ReportOK /\ UNCHANGED <<failures, errs, st>> => ReportOK'
         /\ EndOK /\ UNCHANGED <<phase, wpc>> => EndOK'
         /\ OpenOK /\ UNCHANGED <<open, wpc>> => OpenOK'
         /\ DrainedOK /\ UNCHANGED <<phase, chan, open>> => DrainedOK'
         /\ CloseOK /\ UNCHANGED <<pc, chan, open, wpc, errs, failed>> => CloseOK'
         /\ ContextOK /\ UNCHANGED <<pipeDone, reqDone, pc, childDone>> => ContextOK'
         /\ CallerOK /\ UNCHANGED <<pc, buffer, full>> => CallerOK'
<1>1. TaskOK /\ UNCHANGED <<st, todo, buf, pend, bad, phase, wpc>> => TaskOK'
  BY SameGraph, SMT, SMTT(30) DEF TaskOK, TaskFine
<1>2. LinkOK /\ UNCHANGED <<st, slot, errs>> => LinkOK'
  BY SameGraph, ZenonT(30) DEF LinkOK
<1>3. ReportOK /\ UNCHANGED <<failures, errs, st>> => ReportOK'
  BY SameGraph, ZenonT(30) DEF ReportOK
<1>4. EndOK /\ UNCHANGED <<phase, wpc>> => EndOK'
  BY SameGraph, ZenonT(30) DEF EndOK, SendersDone
<1>5. OpenOK /\ UNCHANGED <<open, wpc>> => OpenOK'
  BY SameGraph, ZenonT(30) DEF OpenOK
<1>6. DrainedOK /\ UNCHANGED <<phase, chan, open>> => DrainedOK'
  BY SameGraph, SMT, SMTT(30) DEF DrainedOK
<1>7. CloseOK /\ UNCHANGED <<pc, chan, open, wpc, errs, failed>> => CloseOK'
  BY SameGraph, SMT, SMTT(30) DEF CloseOK
<1>8. ContextOK /\ UNCHANGED <<pipeDone, reqDone, pc, childDone>> => ContextOK'
  BY SameGraph, SMT, SMTT(30) DEF ContextOK, Asking
<1>9. CallerOK /\ UNCHANGED <<pc, buffer, full>> => CallerOK'
  BY SameGraph, SMT, SMTT(30) DEF CallerOK, Asking
<1> QED BY <1>1, <1>2, <1>3, <1>4, <1>5, <1>6, <1>7, <1>8, <1>9, ZenonT(30)

(* EndOK survives a step that moves no worker and reopens no sender.       *)
LEMMA EndFrame ==
  ASSUME g \in Graphs, g' = g, wpc' = wpc, EndOK, \A x \in Edges : phase[x] = "done" => phase'[x] = "done"
  PROVE  EndOK'
<1>1. phase'[Out] = "done" /\ Out' = Out
  BY SameGraph, GraphFacts, ZenonT(30) DEF EndOK
<1>2. \A w \in Workers : SendersDone(w) => \A x \in Senders(w) : phase'[x] = "done"
  BY ZenonT(30) DEF SendersDone, Senders
<1>3. \A w \in Workers : SendersDone(w) => SendersDone(w)'
  BY <1>2, SameGraph, ZenonT(30) DEF SendersDone
<1> QED BY <1>1, <1>3, SameGraph, ZenonT(30) DEF EndOK

(* No new owner of a slot, so LinkOK stays.                                *)
LEMMA LinkKeep ==
  ASSUME LinkOK, g' = g, slot' = slot, errs' = errs,
         \A u \in Tasks : st'[u] = "link" => st[u] = "link"
  PROVE  LinkOK'
BY SameGraph, ZenonT(30) DEF LinkOK

(* A task that works has a worker that has not ended, whose listeners are  *)
(* open; so Close has not returned.                                        *)
LEMMA Active ==
  ASSUME ShutInv, NEW t \in Tasks, st[t] # "idle"
  PROVE  /\ WorkerOf(t) \in Workers /\ wpc[WorkerOf(t)] # "end" /\ pc # "end"
         /\ Listeners(WorkerOf(t)) # {} /\ Listeners(WorkerOf(t)) \subseteq Edges
         /\ \A l \in Listeners(WorkerOf(t)) : open[l] /\ Src[l] = WorkerOf(t)
<1> USE DEF ShutInv, TypeOK
<1>1. TaskFine(t)
  BY ZenonT(30) DEF TaskOK
<1>2. WorkerOf(t) \in Workers /\ wpc[WorkerOf(t)] # "end"
  <2>1. CASE t[2] = 0
    BY <2>1, <1>1, TaskForms, ZenonT(30) DEF TaskFine
  <2>2. CASE t[2] # 0
    <3>1. t[1] \in Edges \ {Out} /\ phase[t[1]] # "done" /\ WorkerOf(t) = Dst[t[1]]
      BY <1>1, <2>2, TaskForms, ZenonT(30) DEF TaskFine
    <3>2. WorkerOf(t) \in Workers /\ t[1] \in Senders(WorkerOf(t))
      BY <3>1, GraphFacts, ZenonT(30) DEF Senders
    <3> QED BY <3>1, <3>2, ZenonT(30) DEF EndOK, SendersDone
  <2> QED BY <2>1, <2>2, ZenonT(30)
<1>3. pc # "end"
  BY <1>2, ZenonT(30) DEF CloseOK
<1>4. Listeners(WorkerOf(t)) # {}
  BY <1>2, GraphFacts, ZenonT(30)
<1>5. \A l \in Listeners(WorkerOf(t)) : l \in Edges /\ Src[l] = WorkerOf(t) /\ Src[l] # None
  BY <1>2, GraphFacts, ZenonT(30) DEF Listeners
<1>6. \A l \in Listeners(WorkerOf(t)) : open[l]
  BY <1>2, <1>5, ZenonT(30) DEF OpenOK
<1> QED BY <1>2, <1>3, <1>4, <1>5, <1>6, ZenonT(30)

(* What collecting a value does: the task goes on, or starts to send the   *)
(* full batch to the listeners.                                            *)
LEMMA CollectFacts ==
  ASSUME ShutInv, NEW t \in Tasks, st[t] = "work", NEW v \in Values,
         Collect(t, v) \/ UNCHANGED <<buf, st, pend>>
  PROVE  /\ st' \in [Tasks -> {"idle", "work", "send", "cas", "link"}]
         /\ buf' \in [Tasks -> Seq(Values)] /\ pend' \in [Tasks -> SUBSET Edges]
         /\ \/ st'[t] = "work" /\ pend'[t] = {}
            \/ st'[t] = "send" /\ pend'[t] = Listeners(WorkerOf(t)) /\ pend'[t] # {}
         /\ \A u \in Tasks \ {t} : st'[u] = st[u] /\ buf'[u] = buf[u] /\ pend'[u] = pend[u]
<1> USE DEF ShutInv, TypeOK, TaskType
<1>1. pend[t] = {}
  BY ZenonT(30) DEF TaskOK, TaskFine
<1>2. Append(buf[t], v) \in Seq(Values)
  BY SMT, SMTT(30)
<1>3. Listeners(WorkerOf(t)) # {} /\ Listeners(WorkerOf(t)) \subseteq Edges
  BY Active, ZenonT(30)
<1>4. CASE Collect(t, v)
  BY <1>2, <1>3, <1>4, ZenonT(30) DEF Collect
<1>5. CASE UNCHANGED <<buf, st, pend>>
  BY <1>1, <1>5, ZenonT(30)
<1> QED BY <1>4, <1>5, ZenonT(30)

(* Taking a message keeps the invariant.                                   *)
LEMMA TakeShut ==
  ASSUME ShutInv, NEW e \in Edges \ {Out}, NEW p \in Procs, Take(e, p)
  PROVE  ShutInv'
<1> USE DEF ShutInv, TypeOK
<1>1. /\ UNCHANGED <<g, open, phase, failures, buf, pend, bad, errs, slot, seen, bag, base,
           wpc, reqDone, pipeDone, childDone, pc, buffer, delivered, failed, full>>
      /\ phase[e] = "recv" /\ chan[e] # <<>> /\ st[<<e, p>>] = "idle"
      /\ chan' = [chan EXCEPT ![e] = Tail(@)]
      /\ received' = [received EXCEPT ![e] = @ \cup Range(Head(chan[e]))]
      /\ st' = [st EXCEPT ![<<e, p>>] = "work"]
      /\ todo' = [todo EXCEPT ![<<e, p>>] = Found(e, Head(chan[e]))]
  BY ZenonT(30) DEF Take, sets, ctxs, caller
<1>2. /\ g \in Graphs /\ g' = g /\ Workers' = Workers /\ Edges' = Edges /\ Tasks' = Tasks
      /\ Out' = Out /\ Src' = Src
  BY <1>1, SameGraph, ZenonT(30)
<1>3. WorkerType' /\ CallerType'
  BY <1>1, TypeFrame, ZenonT(30)
<1>4. EdgeType'
  <2>1. chan' \in [Edges -> Seq(Seq(Values))]
    <3>1. Tail(chan[e]) \in Seq(Seq(Values))
      BY <1>1, SMT, SMTT(30) DEF EdgeType
    <3> QED BY <1>1, <3>1, ZenonT(30) DEF EdgeType
  <2>2. received' \in [Edges -> SUBSET Values]
    <3>1. Head(chan[e]) \in Seq(Values) /\ received[e] \subseteq Values
      BY <1>1, SMT, SMTT(30) DEF EdgeType
    <3>2. received[e] \cup Range(Head(chan[e])) \subseteq Values
      BY <3>1, SMT, SMTT(30) DEF Range
    <3> QED BY <1>1, <3>2, ZenonT(30) DEF EdgeType
  <2> QED BY <1>1, <1>2, <2>1, <2>2, ZenonT(30) DEF EdgeType
<1>5. TaskType'
  <2>1. st' \in [Tasks -> {"idle", "work", "send", "cas", "link"}]
    BY <1>1, ZenonT(30) DEF TaskType
  <2>2. todo' \in [Tasks -> SUBSET Values]
    <3>1. Head(chan[e]) \in Seq(Values)
      BY <1>1, SMT, SMTT(30) DEF EdgeType
    <3>2. Found(e, Head(chan[e])) \subseteq Values
      BY <1>2, <3>1, GraphFacts, SMT, SMTT(30) DEF Found
    <3> QED BY <1>1, <3>2, ZenonT(30) DEF TaskType
  <2> QED BY <1>1, <1>2, <2>1, <2>2, ZenonT(30) DEF TaskType
<1>6. TypeOK'
  BY <1>2, <1>3, <1>4, <1>5, ZenonT(30)
<1>7. EndOK' /\ OpenOK' /\ ContextOK' /\ CallerOK'
  BY <1>1, CalmFrame, ZenonT(30)
<1>8. TaskOK'
  <2> SUFFICES ASSUME NEW u \in Tasks
               PROVE  TaskFine(u)'
    BY <1>2, ZenonT(30) DEF TaskOK
  <2>1. TaskFine(u)
    BY ZenonT(30) DEF TaskOK
  <2>2. CASE u = <<e, p>>
    BY <1>1, <1>2, <2>1, <2>2, TaskForms, SameGraph, ZenonT(30) DEF TaskFine, TaskType
  <2>3. CASE u # <<e, p>>
    BY <1>1, <1>2, <2>1, <2>3, TaskFrame, ZenonT(30) DEF TaskType
  <2> QED BY <2>2, <2>3, ZenonT(30)
<1>9. LinkOK'
  <2>1. \A u \in Tasks : st'[u] = "link" => st[u] = "link"
    BY <1>1, ZenonT(30) DEF TaskType
  <2> QED BY <1>1, <1>2, <2>1, LinkKeep, ZenonT(30)
<1>10. ReportOK'
  <2>1. \A u \in Tasks : st[u] = "cas" => st'[u] = "cas"
    BY <1>1, ZenonT(30) DEF TaskType
  <2> QED BY <1>1, <1>2, <2>1, ReportFrame, ZenonT(30)
<1>11. DrainedOK'
  BY <1>1, <1>2, ZenonT(30) DEF DrainedOK, EdgeType
<1>12. CloseOK'
  BY <1>1, <1>2, SMT, SMTT(30) DEF CloseOK, EdgeType, TaskType, WorkerType, CallerType
<1> QED BY <1>6, <1>7, <1>8, <1>9, <1>10, <1>11, <1>12, ZenonT(30)

(* A failing read leaves a goroutine that must report it.                  *)
LEMMA ReadFailsShut ==
  ASSUME ShutInv, NEW e \in Edges \ {Out}, NEW p \in Procs, ReadFails(e, p)
  PROVE  ShutInv'
<1> USE DEF ShutInv, TypeOK
<1>1. /\ UNCHANGED <<g, chan, open, phase, received, failures, st, buf, pend, errs, slot,
           seen, bag, base, wpc, reqDone, pipeDone, childDone, pc, buffer, delivered, failed,
           full>>
      /\ st[<<e, p>>] = "work"
      /\ todo' = [todo EXCEPT ![<<e, p>>] = {}]
      /\ bad' = [bad EXCEPT ![<<e, p>>] = TRUE]
  BY ZenonT(30) DEF ReadFails, media, sets, ctxs, caller
<1>2. /\ g \in Graphs /\ g' = g /\ Workers' = Workers /\ Edges' = Edges /\ Tasks' = Tasks
      /\ Out' = Out /\ Src' = Src
  BY <1>1, SameGraph, ZenonT(30)
<1>3. EdgeType' /\ WorkerType' /\ CallerType'
  BY <1>1, TypeFrame, ZenonT(30)
<1>4. TaskType'
  <2>1. todo' \in [Tasks -> SUBSET Values]
    BY <1>1, ZenonT(30) DEF TaskType
  <2>2. bad' \in [Tasks -> BOOLEAN]
    BY <1>1, ZenonT(30) DEF TaskType
  <2> QED BY <1>1, <1>2, <2>1, <2>2, ZenonT(30) DEF TaskType
<1>5. TypeOK'
  BY <1>2, <1>3, <1>4, ZenonT(30)
<1>6. LinkOK' /\ ReportOK' /\ EndOK' /\ OpenOK' /\ DrainedOK' /\ CloseOK' /\ ContextOK' /\ CallerOK'
  BY <1>1, CalmFrame, ZenonT(30)
<1>7. TaskOK'
  <2> SUFFICES ASSUME NEW u \in Tasks
               PROVE  TaskFine(u)'
    BY <1>2, ZenonT(30) DEF TaskOK
  <2>1. TaskFine(u)
    BY ZenonT(30) DEF TaskOK
  <2>2. CASE u = <<e, p>>
    BY <1>1, <1>2, <2>1, <2>2, TaskForms, SameGraph, ZenonT(30) DEF TaskFine, TaskType
  <2>3. CASE u # <<e, p>>
    BY <1>1, <1>2, <2>1, <2>3, TaskFrame, ZenonT(30) DEF TaskType
  <2> QED BY <2>2, <2>3, ZenonT(30)
<1> QED BY <1>5, <1>6, <1>7, ZenonT(30)

(* So does the end of a message.                                           *)
LEMMA MessageDoneShut ==
  ASSUME ShutInv, NEW e \in Edges \ {Out}, NEW p \in Procs, MessageDone(e, p)
  PROVE  ShutInv'
<1> USE DEF ShutInv, TypeOK
<1>1. /\ UNCHANGED <<g, chan, open, phase, received, todo, buf, pend, bad, errs, slot, seen,
           bag, base, wpc, reqDone, pipeDone, childDone, pc, buffer, delivered, failed, full>>
      /\ st[<<e, p>>] = "work" /\ todo[<<e, p>>] = {} /\ buf[<<e, p>>] = <<>>
      /\ st' = [st EXCEPT ![<<e, p>>] = IF bad[<<e, p>>] THEN "cas" ELSE "idle"]
      /\ failures' = [failures EXCEPT ![e] = @ + (IF bad[<<e, p>>] THEN 1 ELSE 0)]
  BY ZenonT(30) DEF MessageDone, Exhausted, media, sets, ctxs, caller
<1>2. /\ g \in Graphs /\ g' = g /\ Workers' = Workers /\ Edges' = Edges /\ Tasks' = Tasks
      /\ Out' = Out /\ Src' = Src
  BY <1>1, SameGraph, ZenonT(30)
<1>3. WorkerType' /\ CallerType'
  BY <1>1, TypeFrame, ZenonT(30)
<1>4. EdgeType'
  <2>1. failures' \in [Edges -> Nat]
    <3>1. failures \in [Edges -> Nat] /\ e \in Edges
      BY ZenonT(30) DEF EdgeType
    <3>2. failures[e] + (IF bad[<<e, p>>] THEN 1 ELSE 0) \in Nat
      BY <3>1, SMT, SMTT(30)
    <3> QED BY <1>1, <3>1, <3>2, ZenonT(30)
  <2> QED BY <1>1, <1>2, <2>1, ZenonT(30) DEF EdgeType
<1>5. TaskType'
  <2>1. st' \in [Tasks -> {"idle", "work", "send", "cas", "link"}]
    BY <1>1, ZenonT(30) DEF TaskType
  <2> QED BY <1>1, <1>2, <2>1, ZenonT(30) DEF TaskType
<1>6. TypeOK'
  BY <1>2, <1>3, <1>4, <1>5, ZenonT(30)
<1>7. EndOK' /\ OpenOK' /\ DrainedOK' /\ CloseOK' /\ ContextOK' /\ CallerOK'
  BY <1>1, CalmFrame, ZenonT(30)
<1>8. TaskOK'
  <2> SUFFICES ASSUME NEW u \in Tasks
               PROVE  TaskFine(u)'
    BY <1>2, ZenonT(30) DEF TaskOK
  <2>1. TaskFine(u)
    BY ZenonT(30) DEF TaskOK
  <2>2. CASE u = <<e, p>>
    BY <1>1, <1>2, <2>1, <2>2, TaskForms, SameGraph, ZenonT(30) DEF TaskFine, TaskType
  <2>3. CASE u # <<e, p>>
    BY <1>1, <1>2, <2>1, <2>3, TaskFrame, ZenonT(30) DEF TaskType
  <2> QED BY <2>2, <2>3, ZenonT(30)
<1>9. LinkOK'
  <2>1. \A u \in Tasks : st'[u] = "link" => st[u] = "link"
    BY <1>1, ZenonT(30) DEF TaskType
  <2> QED BY <1>1, <1>2, <2>1, LinkKeep, ZenonT(30)
<1>10. ReportOK'
  <2>1. CASE bad[<<e, p>>]
    <3>1. st'[<<e, p>>] = "cas" /\ <<e, p>> \in Tasks
      BY <1>1, <1>2, <2>1, TaskForms, ZenonT(30) DEF TaskType
    <3> QED BY <1>2, <3>1, ZenonT(30) DEF ReportOK
  <2>2. CASE ~bad[<<e, p>>]
    <3>1. failures' = failures
      BY <1>1, <2>2, SMT, SMTT(30) DEF EdgeType
    <3>2. \A u \in Tasks : st[u] = "cas" => st'[u] = "cas"
      BY <1>1, ZenonT(30) DEF TaskType
    <3> QED BY <1>1, <1>2, <3>1, <3>2, ReportFrame, ZenonT(30)
  <2> QED BY <2>1, <2>2, ZenonT(30)
<1> QED BY <1>6, <1>7, <1>8, <1>9, <1>10, ZenonT(30)

(* So does giving up a message after a cancellation.                       *)
LEMMA CutShortShut ==
  ASSUME ShutInv, NEW t \in Tasks, CutShort(t)
  PROVE  ShutInv'
<1> USE DEF ShutInv, TypeOK
<1>1. /\ UNCHANGED <<g, chan, open, phase, received, failures, st, buf, pend, bad, errs,
           slot, seen, bag, base, wpc, reqDone, pipeDone, childDone, pc, buffer, delivered,
           failed, full>>
      /\ st[t] = "work"
      /\ todo' = [todo EXCEPT ![t] = {}]
  BY ZenonT(30) DEF CutShort, media, sets, ctxs, caller
<1>2. /\ g \in Graphs /\ g' = g /\ Workers' = Workers /\ Edges' = Edges /\ Tasks' = Tasks
      /\ Out' = Out /\ Src' = Src
  BY <1>1, SameGraph, ZenonT(30)
<1>3. EdgeType' /\ WorkerType' /\ CallerType'
  BY <1>1, TypeFrame, ZenonT(30)
<1>4. TaskType'
  <2>1. todo' \in [Tasks -> SUBSET Values]
    BY <1>1, ZenonT(30) DEF TaskType
  <2> QED BY <1>1, <1>2, <2>1, ZenonT(30) DEF TaskType
<1>5. TypeOK'
  BY <1>2, <1>3, <1>4, ZenonT(30)
<1>6. LinkOK' /\ ReportOK' /\ EndOK' /\ OpenOK' /\ DrainedOK' /\ CloseOK' /\ ContextOK' /\ CallerOK'
  BY <1>1, CalmFrame, ZenonT(30)
<1>7. TaskOK'
  <2> SUFFICES ASSUME NEW u \in Tasks
               PROVE  TaskFine(u)'
    BY <1>2, ZenonT(30) DEF TaskOK
  <2>1. TaskFine(u)
    BY ZenonT(30) DEF TaskOK
  <2>2. CASE u = t
    BY <1>1, <1>2, <2>1, <2>2, TaskForms, SameGraph, ZenonT(30) DEF TaskFine, TaskType
  <2>3. CASE u # t
    BY <1>1, <1>2, <2>1, <2>3, TaskFrame, ZenonT(30) DEF TaskType
  <2> QED BY <2>2, <2>3, ZenonT(30)
<1> QED BY <1>5, <1>6, <1>7, ZenonT(30)

(* So does starting to send a batch.                                       *)
LEMMA FlushShut ==
  ASSUME ShutInv, NEW t \in Tasks, Flush(t)
  PROVE  ShutInv'
<1> USE DEF ShutInv, TypeOK
<1>1. /\ UNCHANGED <<g, chan, open, phase, received, failures, todo, buf, bad, errs, slot,
           seen, bag, base, wpc, reqDone, pipeDone, childDone, pc, buffer, delivered, failed,
           full>>
      /\ st[t] = "work"
      /\ st' = [st EXCEPT ![t] = "send"]
      /\ pend' = [pend EXCEPT ![t] = Listeners(WorkerOf(t))]
      /\ Listeners(WorkerOf(t)) # {} /\ Listeners(WorkerOf(t)) \subseteq Edges
  BY Active, ZenonT(30) DEF Flush, media, sets, ctxs, caller
<1>2. /\ g \in Graphs /\ g' = g /\ Workers' = Workers /\ Edges' = Edges /\ Tasks' = Tasks
      /\ Out' = Out /\ Src' = Src
  BY <1>1, SameGraph, ZenonT(30)
<1>3. EdgeType' /\ WorkerType' /\ CallerType'
  BY <1>1, TypeFrame, ZenonT(30)
<1>4. TaskType'
  <2>1. st' \in [Tasks -> {"idle", "work", "send", "cas", "link"}]
    BY <1>1, ZenonT(30) DEF TaskType
  <2>2. pend' \in [Tasks -> SUBSET Edges]
    BY <1>1, ZenonT(30) DEF TaskType
  <2> QED BY <1>1, <1>2, <2>1, <2>2, ZenonT(30) DEF TaskType
<1>5. TypeOK'
  BY <1>2, <1>3, <1>4, ZenonT(30)
<1>6. EndOK' /\ OpenOK' /\ DrainedOK' /\ CloseOK' /\ ContextOK' /\ CallerOK'
  BY <1>1, CalmFrame, ZenonT(30)
<1>7. TaskOK'
  <2> SUFFICES ASSUME NEW u \in Tasks
               PROVE  TaskFine(u)'
    BY <1>2, ZenonT(30) DEF TaskOK
  <2>1. TaskFine(u)
    BY ZenonT(30) DEF TaskOK
  <2>2. CASE u = t
    BY <1>1, <1>2, <2>1, <2>2, TaskForms, SameGraph, SMT, SMTT(30) DEF TaskFine, TaskType
  <2>3. CASE u # t
    BY <1>1, <1>2, <2>1, <2>3, TaskFrame, ZenonT(30) DEF TaskType
  <2> QED BY <2>2, <2>3, ZenonT(30)
<1>8. LinkOK'
  <2>1. \A u \in Tasks : st'[u] = "link" => st[u] = "link"
    BY <1>1, ZenonT(30) DEF TaskType
  <2> QED BY <1>1, <1>2, <2>1, LinkKeep, ZenonT(30)
<1>9. ReportOK'
  <2>1. \A u \in Tasks : st[u] = "cas" => st'[u] = "cas"
    BY <1>1, ZenonT(30) DEF TaskType
  <2> QED BY <1>1, <1>2, <2>1, ReportFrame, ZenonT(30)
<1> QED BY <1>5, <1>6, <1>7, <1>8, <1>9, ZenonT(30)

(* Winning the compare-and-swap puts the error in the list and makes the   *)
(* goroutine the owner of its slot.                                        *)
LEMMA ReportCasShut ==
  ASSUME ShutInv, NEW t \in Tasks, ReportCas(t)
  PROVE  ShutInv'
<1> USE DEF ShutInv, TypeOK
<1>1. /\ UNCHANGED <<g, chan, open, phase, received, failures, todo, buf, pend, seen, bag,
           base, wpc, reqDone, pipeDone, childDone, pc, buffer, delivered, failed, full>>
      /\ st[t] = "cas"
      /\ st' = [st EXCEPT ![t] = "link"]
      /\ errs' = Append(errs, FALSE)
      /\ slot' = [slot EXCEPT ![t] = Len(errs) + 1]
      /\ bad' = [bad EXCEPT ![t] = FALSE]
      /\ pc # "end"
  BY Active, ZenonT(30) DEF ReportCas, media, sets, ctxs, caller
<1>2. /\ g \in Graphs /\ g' = g /\ Workers' = Workers /\ Edges' = Edges /\ Tasks' = Tasks
      /\ Out' = Out /\ Src' = Src
  BY <1>1, SameGraph, ZenonT(30)
<1>3. EdgeType' /\ WorkerType' /\ CallerType'
  BY <1>1, TypeFrame, ZenonT(30)
<1>4. TaskType'
  <2>1. st' \in [Tasks -> {"idle", "work", "send", "cas", "link"}]
    BY <1>1, ZenonT(30) DEF TaskType
  <2>2. bad' \in [Tasks -> BOOLEAN]
    BY <1>1, ZenonT(30) DEF TaskType
  <2>3. errs' \in Seq(BOOLEAN)
    BY <1>1, SMT, SMTT(30) DEF TaskType
  <2>4. slot' \in [Tasks -> Nat]
    BY <1>1, SMT, SMTT(30) DEF TaskType
  <2> QED BY <1>1, <1>2, <2>1, <2>2, <2>3, <2>4, ZenonT(30) DEF TaskType
<1>5. TypeOK'
  BY <1>2, <1>3, <1>4, ZenonT(30)
<1>6. EndOK' /\ OpenOK' /\ DrainedOK' /\ ContextOK' /\ CallerOK'
  BY <1>1, CalmFrame, ZenonT(30)
<1>7. TaskOK'
  <2> SUFFICES ASSUME NEW u \in Tasks
               PROVE  TaskFine(u)'
    BY <1>2, ZenonT(30) DEF TaskOK
  <2>1. TaskFine(u)
    BY ZenonT(30) DEF TaskOK
  <2>2. CASE u = t
    BY <1>1, <1>2, <2>1, <2>2, TaskForms, SameGraph, ZenonT(30) DEF TaskFine, TaskType
  <2>3. CASE u # t
    BY <1>1, <1>2, <2>1, <2>3, TaskFrame, ZenonT(30) DEF TaskType
  <2> QED BY <2>2, <2>3, ZenonT(30)
<1>8. LinkOK'
  <2>1. Len(errs) \in Nat /\ DOMAIN errs = 1..Len(errs) /\ DOMAIN errs' = 1..(Len(errs) + 1)
    BY <1>1, SMT, SMTT(30) DEF TaskType
  <2>2. \A u \in Tasks \ {t} : st'[u] = st[u] /\ slot'[u] = slot[u]
    BY <1>1, ZenonT(30) DEF TaskType
  <2>3. slot'[t] = Len(errs) + 1
    BY <1>1, ZenonT(30) DEF TaskType
  <2>4. \A u \in Tasks \ {t} : st'[u] = "link" => slot'[u] \in 1..Len(errs)
    BY <2>1, <2>2, ZenonT(30) DEF LinkOK
  <2>5. \A u \in Tasks : st'[u] = "link" => slot'[u] \in DOMAIN errs'
    BY <2>1, <2>3, <2>4, SMT, SMTT(30)
  <2>6. \A u, v \in Tasks : st'[u] = "link" /\ st'[v] = "link" /\ slot'[u] = slot'[v] => u = v
    BY <2>1, <2>2, <2>3, <2>4, SMT, SMTT(30) DEF LinkOK
  <2> QED BY <1>2, <2>5, <2>6, ZenonT(30) DEF LinkOK
<1>9. ReportOK'
  <2>1. Len(errs) \in Nat /\ Len(errs') = Len(errs) + 1
    BY <1>1, SMT, SMTT(30) DEF TaskType
  <2>2. errs' # <<>>
    BY <2>1, SMT, SMTT(30)
  <2> QED BY <2>2, ZenonT(30) DEF ReportOK
<1>10. CloseOK'
  BY <1>1, <1>2, ZenonT(30) DEF CloseOK
<1> QED BY <1>5, <1>6, <1>7, <1>8, <1>9, <1>10, ZenonT(30)

(* Linking the error ends the ownership.                                   *)
LEMMA ReportLinkShut ==
  ASSUME ShutInv, NEW t \in Tasks, ReportLink(t)
  PROVE  ShutInv'
<1> USE DEF ShutInv, TypeOK
<1>1. /\ UNCHANGED <<g, chan, open, phase, received, failures, todo, buf, pend, bad, slot,
           seen, bag, base, wpc, reqDone, pipeDone, childDone, pc, buffer, delivered, failed,
           full>>
      /\ st[t] = "link"
      /\ st' = [st EXCEPT ![t] = "idle"]
      /\ errs' = [errs EXCEPT ![slot[t]] = TRUE]
  BY ZenonT(30) DEF ReportLink, media, sets, ctxs, caller
<1>2. /\ g \in Graphs /\ g' = g /\ Workers' = Workers /\ Edges' = Edges /\ Tasks' = Tasks
      /\ Out' = Out /\ Src' = Src
  BY <1>1, SameGraph, ZenonT(30)
<1>3. EdgeType' /\ WorkerType' /\ CallerType'
  BY <1>1, TypeFrame, ZenonT(30)
<1>4. TaskType'
  <2>1. st' \in [Tasks -> {"idle", "work", "send", "cas", "link"}]
    BY <1>1, ZenonT(30) DEF TaskType
  <2>2. errs' \in Seq(BOOLEAN)
    <3>1. errs \in Seq(BOOLEAN) /\ slot[t] \in DOMAIN errs
      BY <1>1, ZenonT(30) DEF TaskType, LinkOK
    <3> QED BY <1>1, <3>1, SMT, SMTT(30)
  <2> QED BY <1>1, <1>2, <2>1, <2>2, ZenonT(30) DEF TaskType
<1>5. TypeOK'
  BY <1>2, <1>3, <1>4, ZenonT(30)
<1>6. EndOK' /\ OpenOK' /\ DrainedOK' /\ ContextOK' /\ CallerOK'
  BY <1>1, CalmFrame, ZenonT(30)
<1>7. TaskOK'
  <2> SUFFICES ASSUME NEW u \in Tasks
               PROVE  TaskFine(u)'
    BY <1>2, ZenonT(30) DEF TaskOK
  <2>1. TaskFine(u)
    BY ZenonT(30) DEF TaskOK
  <2>2. CASE u = t
    BY <1>1, <1>2, <2>1, <2>2, TaskForms, SameGraph, ZenonT(30) DEF TaskFine, TaskType
  <2>3. CASE u # t
    BY <1>1, <1>2, <2>1, <2>3, TaskFrame, ZenonT(30) DEF TaskType
  <2> QED BY <2>2, <2>3, ZenonT(30)
<1>8. LinkOK'
  <2>1. DOMAIN errs' = DOMAIN errs
    BY <1>1, ZenonT(30) DEF TaskType
  <2>2. \A u \in Tasks : st'[u] = "link" => st[u] = "link" /\ slot'[u] = slot[u]
    BY <1>1, ZenonT(30) DEF TaskType
  <2>3. \A u \in Tasks : st'[u] = "link" => slot'[u] \in DOMAIN errs'
    BY <2>1, <2>2, ZenonT(30) DEF LinkOK
  <2>4. \A u, v \in Tasks : st'[u] = "link" /\ st'[v] = "link" /\ slot'[u] = slot'[v] => u = v
    BY <2>2, ZenonT(30) DEF LinkOK
  <2> QED BY <1>2, <2>3, <2>4, ZenonT(30) DEF LinkOK
<1>9. ReportOK'
  <2>1. errs # <<>> => errs' # <<>>
    BY <1>1, SMT, SMTT(30) DEF TaskType
  <2>2. \A u \in Tasks : st[u] = "cas" => st'[u] = "cas"
    BY <1>1, ZenonT(30) DEF TaskType
  <2> QED BY <1>1, <1>2, <2>1, <2>2, ReportFrame, ZenonT(30)
<1>10. CloseOK'
  <2>1. errs' # <<>> => errs # <<>>
    BY <1>1, SMT, SMTT(30) DEF TaskType
  <2> QED BY <1>1, <1>2, <2>1, ZenonT(30) DEF CloseOK
<1> QED BY <1>5, <1>6, <1>7, <1>8, <1>9, <1>10, ZenonT(30)

(* A sender leaves its loop.                                               *)
LEMMA StopRecvShut ==
  ASSUME ShutInv, NEW e \in Edges \ {Out}, StopRecv(e)
  PROVE  ShutInv'
<1> USE DEF ShutInv, TypeOK
<1>1. /\ UNCHANGED <<g, chan, open, received, failures, st, todo, buf, pend, bad, errs,
           slot, seen, bag, base, wpc, reqDone, pipeDone, childDone, pc, buffer, delivered,
           failed, full>>
      /\ phase[e] = "recv"
      /\ phase' = [phase EXCEPT ![e] = "join"]
  BY ZenonT(30) DEF StopRecv, sets, ctxs, caller, media, tasks
<1>2. /\ g \in Graphs /\ g' = g /\ Workers' = Workers /\ Edges' = Edges /\ Tasks' = Tasks
      /\ Out' = Out /\ Src' = Src
  BY <1>1, SameGraph, ZenonT(30)
<1>3. TaskType' /\ WorkerType' /\ CallerType'
  BY <1>1, TypeFrame, ZenonT(30)
<1>4. EdgeType'
  <2>1. phase' \in [Edges -> {"recv", "join", "drain", "done"}]
    BY <1>1, ZenonT(30) DEF EdgeType
  <2> QED BY <1>1, <1>2, <2>1, ZenonT(30) DEF EdgeType
<1>5. TypeOK'
  BY <1>2, <1>3, <1>4, ZenonT(30)
<1>6. LinkOK' /\ ReportOK' /\ OpenOK' /\ CloseOK' /\ ContextOK' /\ CallerOK'
  BY <1>1, CalmFrame, ZenonT(30)
<1>7. TaskOK'
  <2> SUFFICES ASSUME NEW u \in Tasks
               PROVE  TaskFine(u)'
    BY <1>2, ZenonT(30) DEF TaskOK
  <2>1. TaskFine(u)
    BY ZenonT(30) DEF TaskOK
  <2>2. u[2] # 0 /\ st[u] # "idle" => phase'[u[1]] \in {"recv", "join"}
    BY <1>1, <2>1, TaskForms, ZenonT(30) DEF TaskFine, EdgeType
  <2> QED BY <1>1, <1>2, <2>1, <2>2, SameGraph, ZenonT(30) DEF TaskFine
<1>8. EndOK'
  <2>1. \A x \in Edges : phase[x] = "done" => phase'[x] = "done"
    BY <1>1, ZenonT(30) DEF EdgeType
  <2> QED BY <1>1, <2>1, EndFrame, ZenonT(30) DEF EndOK
<1>9. DrainedOK'
  BY <1>1, <1>2, ZenonT(30) DEF DrainedOK, EdgeType
<1> QED BY <1>5, <1>6, <1>7, <1>8, <1>9, ZenonT(30)

(* A sender joins its goroutines: all of them are idle.                    *)
LEMMA JoinShut ==
  ASSUME ShutInv, NEW e \in Edges \ {Out}, Join(e)
  PROVE  ShutInv'
<1> USE DEF ShutInv, TypeOK
<1>1. /\ UNCHANGED <<g, chan, open, received, failures, st, todo, buf, pend, bad, errs,
           slot, seen, bag, base, wpc, reqDone, pipeDone, childDone, pc, buffer, delivered,
           failed, full>>
      /\ phase[e] = "join" /\ \A p \in Procs : st[<<e, p>>] = "idle"
      /\ phase' = [phase EXCEPT ![e] = "drain"]
  BY ZenonT(30) DEF Join, sets, ctxs, caller, media, tasks
<1>2. /\ g \in Graphs /\ g' = g /\ Workers' = Workers /\ Edges' = Edges /\ Tasks' = Tasks
      /\ Out' = Out /\ Src' = Src
  BY <1>1, SameGraph, ZenonT(30)
<1>3. TaskType' /\ WorkerType' /\ CallerType'
  BY <1>1, TypeFrame, ZenonT(30)
<1>4. EdgeType'
  <2>1. phase' \in [Edges -> {"recv", "join", "drain", "done"}]
    BY <1>1, ZenonT(30) DEF EdgeType
  <2> QED BY <1>1, <1>2, <2>1, ZenonT(30) DEF EdgeType
<1>5. TypeOK'
  BY <1>2, <1>3, <1>4, ZenonT(30)
<1>6. LinkOK' /\ ReportOK' /\ OpenOK' /\ CloseOK' /\ ContextOK' /\ CallerOK'
  BY <1>1, CalmFrame, ZenonT(30)
<1>7. TaskOK'
  <2> SUFFICES ASSUME NEW u \in Tasks
               PROVE  TaskFine(u)'
    BY <1>2, ZenonT(30) DEF TaskOK
  <2>1. TaskFine(u)
    BY ZenonT(30) DEF TaskOK
  <2>2. u[2] # 0 /\ st[u] # "idle" => phase'[u[1]] \in {"recv", "join"}
    <3> SUFFICES ASSUME u[2] # 0, st[u] # "idle"
                 PROVE  phase'[u[1]] \in {"recv", "join"}
      BY ZenonT(30)
    <3>1. u[1] \in Edges /\ u[2] \in Procs /\ u = <<u[1], u[2]>>
      BY <1>2, TaskForms, ZenonT(30)
    <3>2. u[1] # e
      BY <1>1, <3>1, ZenonT(30)
    <3> QED BY <1>1, <2>1, <3>1, <3>2, ZenonT(30) DEF TaskFine, EdgeType
  <2> QED BY <1>1, <1>2, <2>1, <2>2, SameGraph, ZenonT(30) DEF TaskFine
<1>8. EndOK'
  <2>1. \A x \in Edges : phase[x] = "done" => phase'[x] = "done"
    BY <1>1, ZenonT(30) DEF EdgeType
  <2> QED BY <1>1, <2>1, EndFrame, ZenonT(30) DEF EndOK
<1>9. DrainedOK'
  BY <1>1, <1>2, ZenonT(30) DEF DrainedOK, EdgeType
<1> QED BY <1>5, <1>6, <1>7, <1>8, <1>9, ZenonT(30)

(* A sender discards what its channel still holds.                         *)
LEMMA DrainShut ==
  ASSUME ShutInv, NEW e \in Edges \ {Out}, Drain(e)
  PROVE  ShutInv'
<1> USE DEF ShutInv, TypeOK
<1>1. /\ UNCHANGED <<g, open, phase, received, failures, st, todo, buf, pend, bad, errs,
           slot, seen, bag, base, wpc, reqDone, pipeDone, childDone, pc, buffer, delivered,
           failed, full>>
      /\ phase[e] = "drain" /\ chan[e] # <<>>
      /\ chan' = [chan EXCEPT ![e] = Tail(@)]
  BY ZenonT(30) DEF Drain, sets, ctxs, caller, media, tasks
<1>2. /\ g \in Graphs /\ g' = g /\ Workers' = Workers /\ Edges' = Edges /\ Tasks' = Tasks
      /\ Out' = Out /\ Src' = Src
  BY <1>1, SameGraph, ZenonT(30)
<1>3. TaskType' /\ WorkerType' /\ CallerType'
  BY <1>1, TypeFrame, ZenonT(30)
<1>4. EdgeType'
  <2>1. chan' \in [Edges -> Seq(Seq(Values))]
    <3>1. Tail(chan[e]) \in Seq(Seq(Values))
      BY <1>1, SMT, SMTT(30) DEF EdgeType
    <3> QED BY <1>1, <3>1, ZenonT(30) DEF EdgeType
  <2> QED BY <1>1, <1>2, <2>1, ZenonT(30) DEF EdgeType
<1>5. TypeOK'
  BY <1>2, <1>3, <1>4, ZenonT(30)
<1>6. TaskOK' /\ LinkOK' /\ ReportOK' /\ EndOK' /\ OpenOK' /\ ContextOK' /\ CallerOK'
  BY <1>1, CalmFrame, ZenonT(30)
<1>7. DrainedOK'
  BY <1>1, <1>2, ZenonT(30) DEF DrainedOK, EdgeType
<1>8. CloseOK'
  BY <1>1, <1>2, SMT, SMTT(30) DEF CloseOK, EdgeType, TaskType, WorkerType, CallerType
<1> QED BY <1>5, <1>6, <1>7, <1>8, ZenonT(30)

(* A sender is done: its channel is empty and closed, and stays so because *)
(* its feeder has ended.                                                   *)
LEMMA SenderDoneShut ==
  ASSUME ShutInv, NEW e \in Edges \ {Out}, SenderDone(e)
  PROVE  ShutInv'
<1> USE DEF ShutInv, TypeOK
<1>1. /\ UNCHANGED <<g, chan, open, received, failures, st, todo, buf, pend, bad, errs,
           slot, seen, bag, base, wpc, reqDone, pipeDone, pc, buffer, delivered, failed,
           full>>
      /\ phase[e] = "drain" /\ chan[e] = <<>> /\ ~open[e]
      /\ phase' = [phase EXCEPT ![e] = "done"]
      /\ childDone' = [childDone EXCEPT ![Dst[e]] = @ \/ Fruitless(e)]
  BY ZenonT(30) DEF SenderDone, sets, ctxs, caller, media, tasks
<1>2. /\ g \in Graphs /\ g' = g /\ Workers' = Workers /\ Edges' = Edges /\ Tasks' = Tasks
      /\ Out' = Out /\ Src' = Src
  BY <1>1, SameGraph, ZenonT(30)
<1>3. TaskType' /\ CallerType'
  BY <1>1, TypeFrame, ZenonT(30)
<1>4. EdgeType'
  <2>1. phase' \in [Edges -> {"recv", "join", "drain", "done"}]
    BY <1>1, ZenonT(30) DEF EdgeType
  <2> QED BY <1>1, <1>2, <2>1, ZenonT(30) DEF EdgeType
<1>5. WorkerType'
  <2>1. childDone' \in [Workers -> BOOLEAN]
    <3>1. (childDone[Dst[e]] \/ Fruitless(e)) \in BOOLEAN
      BY ZenonT(30)
    <3> QED BY <1>1, <3>1, ZenonT(30) DEF WorkerType
  <2> QED BY <1>1, <1>2, <2>1, ZenonT(30) DEF WorkerType
<1>6. TypeOK'
  BY <1>2, <1>3, <1>4, <1>5, ZenonT(30)
<1>7. LinkOK' /\ ReportOK' /\ OpenOK' /\ CloseOK' /\ CallerOK'
  BY <1>1, CalmFrame, ZenonT(30)
<1>8. TaskOK'
  <2> SUFFICES ASSUME NEW u \in Tasks
               PROVE  TaskFine(u)'
    BY <1>2, ZenonT(30) DEF TaskOK
  <2>1. TaskFine(u)
    BY ZenonT(30) DEF TaskOK
  <2>2. u[2] # 0 /\ st[u] # "idle" => phase'[u[1]] \in {"recv", "join"}
    BY <1>1, <2>1, TaskForms, ZenonT(30) DEF TaskFine, EdgeType
  <2> QED BY <1>1, <1>2, <2>1, <2>2, SameGraph, ZenonT(30) DEF TaskFine
<1>9. EndOK'
  <2>1. \A x \in Edges : phase[x] = "done" => phase'[x] = "done"
    BY <1>1, ZenonT(30) DEF EdgeType
  <2> QED BY <1>1, <2>1, EndFrame, ZenonT(30) DEF EndOK
<1>10. DrainedOK'
  BY <1>1, <1>2, ZenonT(30) DEF DrainedOK, EdgeType
<1>11. ContextOK'
  <2>1. \A w \in Workers : childDone'[w] => childDone[w] \/ (w = Dst[e] /\ Fruitless(e))
    BY <1>1, ZenonT(30) DEF WorkerType
  <2>2. Fruitless(e) => OwnContext(Dst[e])
    BY ZenonT(30) DEF Fruitless, OwnContext
  <2>3. \A w \in Workers : childDone'[w] => OwnContext(w)
    BY <2>1, <2>2, ZenonT(30) DEF ContextOK
  <2> QED BY <1>1, <1>2, <2>3, SameGraph, ZenonT(30) DEF ContextOK, Asking
<1> QED BY <1>6, <1>7, <1>8, <1>9, <1>10, <1>11, ZenonT(30)

(* Sending a batch to one listener.                                        *)
LEMMA SendShut ==
  ASSUME ShutInv, NEW t \in Tasks, NEW l, l = (CHOOSE x \in pend[t] : \A y \in pend[t] : x <= y), Send(t)
  PROVE  ShutInv'
<1> USE DEF ShutInv, TypeOK
<1>0. st[t] = "send" /\ l \in pend[t] /\ l \in Edges /\ open[l]
  <2>1. st[t] = "send" /\ TaskFine(t)
    BY ZenonT(30) DEF Send, TaskOK
  <2>2. pend[t] # {} /\ pend[t] \subseteq Listeners(WorkerOf(t))
    BY <2>1, ZenonT(30) DEF TaskFine
  <2>3. pend[t] \in SUBSET Nat
    BY <2>2, GraphFacts, ZenonT(30) DEF Listeners
  <2>4. \E x \in pend[t] : \A y \in pend[t] : x <= y
    BY <2>2, <2>3, NatMin, ZenonT(30)
  <2>5. l \in pend[t]
    BY <2>4, ZenonT(30)
  <2> QED BY <2>1, <2>2, <2>5, Active, ZenonT(30)
<1>1. /\ UNCHANGED <<g, open, phase, received, failures, todo, bad, errs, slot, seen, bag,
           base, wpc, reqDone, pipeDone, childDone, pc, buffer, delivered, failed, full>>
      /\ st[t] = "send" /\ l \in pend[t] /\ l \in Edges /\ open[l]
      /\ chan' = [chan EXCEPT ![l] = Append(@, buf[t])] \/ chan' = chan
      /\ pend' = [pend EXCEPT ![t] = @ \ {l}]
      /\ st' = [st EXCEPT ![t] = IF pend[t] = {l} THEN "work" ELSE @]
      /\ buf' = [buf EXCEPT ![t] = IF pend[t] = {l} THEN <<>> ELSE @]
  BY <1>0, ZenonT(30) DEF Send, sets, ctxs, caller
<1>2. /\ g \in Graphs /\ g' = g /\ Workers' = Workers /\ Edges' = Edges /\ Tasks' = Tasks
      /\ Out' = Out /\ Src' = Src
  BY <1>1, SameGraph, ZenonT(30)
<1>3. WorkerType' /\ CallerType'
  BY <1>1, TypeFrame, ZenonT(30)
<1>4. EdgeType'
  <2>1. chan' \in [Edges -> Seq(Seq(Values))]
    <3>1. chan[l] \in Seq(Seq(Values)) /\ buf[t] \in Seq(Values)
      BY <1>1, ZenonT(30) DEF EdgeType, TaskType
    <3>2. Append(chan[l], buf[t]) \in Seq(Seq(Values))
      BY <3>1, AppendIn, ZenonT(30)
    <3> QED BY <1>1, <3>2, ZenonT(30) DEF EdgeType
  <2> QED BY <1>1, <1>2, <2>1, ZenonT(30) DEF EdgeType
<1>5. TaskType'
  <2>1. st' \in [Tasks -> {"idle", "work", "send", "cas", "link"}]
    BY <1>1, ZenonT(30) DEF TaskType
  <2>2. buf' \in [Tasks -> Seq(Values)]
    BY <1>1, SMT, SMTT(30) DEF TaskType
  <2>3. pend' \in [Tasks -> SUBSET Edges]
    BY <1>1, ZenonT(30) DEF TaskType
  <2> QED BY <1>1, <1>2, <2>1, <2>2, <2>3, ZenonT(30) DEF TaskType
<1>6. TypeOK'
  BY <1>2, <1>3, <1>4, <1>5, ZenonT(30)
<1>7. EndOK' /\ OpenOK' /\ ContextOK' /\ CallerOK'
  BY <1>1, CalmFrame, ZenonT(30)
<1>8. TaskOK'
  <2> SUFFICES ASSUME NEW u \in Tasks
               PROVE  TaskFine(u)'
    BY <1>2, ZenonT(30) DEF TaskOK
  <2>1. TaskFine(u)
    BY ZenonT(30) DEF TaskOK
  <2>2. CASE u = t
    <3>1. /\ st[t] = "send" => pend[t] # {} /\ pend[t] \subseteq Listeners(WorkerOf(t))
          /\ pend'[t] = pend[t] \ {l}
          /\ st'[t] = IF pend[t] = {l} THEN "work" ELSE "send"
      BY <1>1, <2>1, <2>2, ZenonT(30) DEF TaskFine, TaskType
    <3>2. l \in pend[t] /\ st[t] = "send"
      BY <1>1, ZenonT(30)
    <3>3. st'[t] = "send" => pend'[t] # {} /\ pend'[t] \subseteq Listeners(WorkerOf(t))
      <4>1. st'[t] = "send" => \E y \in pend[t] : y # l
        BY <3>1, <3>2, ZenonT(30)
      <4> QED BY <3>1, <3>2, <4>1, ZenonT(30)
    <3>4. st'[t] # "send" => pend'[t] = {}
      BY <3>1, ZenonT(30)
    <3>5. st'[t] \in {"work", "send"} /\ st[t] = "send"
      BY <1>1, <3>1, ZenonT(30)
    <3>6. Listeners(WorkerOf(t))' = Listeners(WorkerOf(t)) /\ Out' = Out
      BY <1>1, SameGraph, ZenonT(30)
    <3> QED BY <1>1, <2>1, <2>2, <3>3, <3>4, <3>5, <3>6, ZenonT(30) DEF TaskFine
  <2>3. CASE u # t
    BY <1>1, <1>2, <2>1, <2>3, TaskFrame, ZenonT(30) DEF TaskType
  <2> QED BY <2>2, <2>3, ZenonT(30)
<1>9. LinkOK'
  <2>1. \A u \in Tasks : st'[u] = "link" => st[u] = "link"
    BY <1>1, ZenonT(30) DEF TaskType
  <2> QED BY <1>1, <1>2, <2>1, LinkKeep, ZenonT(30)
<1>10. ReportOK'
  <2>1. \A u \in Tasks : st[u] = "cas" => st'[u] = "cas"
    BY <1>1, ZenonT(30) DEF TaskType
  <2> QED BY <1>1, <1>2, <2>1, ReportFrame, ZenonT(30)
<1>11. DrainedOK'
  <2>1. \A x \in Edges \ {l} : chan'[x] = chan[x]
    BY <1>1, ZenonT(30) DEF EdgeType
  <2>2. phase[l] # "done" \/ l = Out
    BY <1>1, ZenonT(30) DEF DrainedOK
  <2> QED BY <1>1, <1>2, <2>1, <2>2, ZenonT(30) DEF DrainedOK
<1>12. CloseOK'
  <2>1. \A x \in Edges \ {l} : chan'[x] = chan[x]
    BY <1>1, ZenonT(30) DEF EdgeType
  <2> QED BY <1>1, <1>2, <2>1, GraphFacts, ZenonT(30) DEF CloseOK
<1> QED BY <1>6, <1>7, <1>8, <1>9, <1>10, <1>11, <1>12, ZenonT(30)

(* A worker whose senders are done starts to emit.                         *)
LEMMA GatherEmitShut ==
  ASSUME ShutInv, NEW w \in Workers, Gather(w), Broadcasts(w)
  PROVE  ShutInv'
<1> USE DEF ShutInv, TypeOK
<1>0. st[<<w, 0>>] = "idle"
  <2>1. <<w, 0>> \in Tasks /\ <<w, 0>>[2] = 0 /\ <<w, 0>>[1] = w
    BY TaskForms, ZenonT(30)
  <2>2. wpc[w] = "run"
    BY ZenonT(30) DEF Gather
  <2> QED BY <2>1, <2>2, ZenonT(30) DEF TaskOK, TaskFine
<1>1. /\ UNCHANGED <<g, chan, open, phase, received, failures, buf, pend, bad, errs, slot,
           seen, bag, base, reqDone, pipeDone, childDone, pc, buffer, delivered, failed,
           full>>
      /\ wpc[w] = "run" /\ Broadcasts(w) /\ st[<<w, 0>>] = "idle"
      /\ wpc' = [wpc EXCEPT ![w] = "emit"]
      /\ st' = [st EXCEPT ![<<w, 0>>] = "work"]
      /\ todo' = [todo EXCEPT ![<<w, 0>>] = Own(w)]
  BY <1>0, ZenonT(30) DEF Gather, media, sets, ctxs, caller
<1>2. /\ g \in Graphs /\ g' = g /\ Workers' = Workers /\ Edges' = Edges /\ Tasks' = Tasks
      /\ Out' = Out /\ Src' = Src
  BY <1>1, SameGraph, ZenonT(30)
<1>3. EdgeType' /\ CallerType'
  BY <1>1, TypeFrame, ZenonT(30)
<1>4. TaskType'
  <2>1. st' \in [Tasks -> {"idle", "work", "send", "cas", "link"}]
    BY <1>1, ZenonT(30) DEF TaskType
  <2>2. todo' \in [Tasks -> SUBSET Values]
    <3>1. Own(w) \subseteq Values
      BY <1>2, GraphFacts, ZenonT(30) DEF Own, Common
    <3> QED BY <1>1, <3>1, ZenonT(30) DEF TaskType
  <2> QED BY <1>1, <1>2, <2>1, <2>2, ZenonT(30) DEF TaskType
<1>5. WorkerType'
  <2>1. wpc' \in [Workers -> {"run", "emit", "return", "end"}]
    BY <1>1, ZenonT(30) DEF WorkerType
  <2> QED BY <1>1, <1>2, <2>1, ZenonT(30) DEF WorkerType
<1>6. TypeOK'
  BY <1>2, <1>3, <1>4, <1>5, ZenonT(30)
<1>7. DrainedOK' /\ ContextOK' /\ CallerOK'
  BY <1>1, CalmFrame, ZenonT(30)
<1>8. TaskOK'
  <2> SUFFICES ASSUME NEW u \in Tasks
               PROVE  TaskFine(u)'
    BY <1>2, ZenonT(30) DEF TaskOK
  <2>1. TaskFine(u)
    BY ZenonT(30) DEF TaskOK
  <2>2. CASE u = <<w, 0>>
    <3>1. u[1] = w /\ u[2] = 0
      BY <2>2, ZenonT(30)
    <3> QED BY <1>1, <1>2, <2>1, <2>2, <3>1, SameGraph, ZenonT(30) DEF TaskFine, TaskType, WorkerType
  <2>3. CASE u # <<w, 0>>
    <3>1. u[2] = 0 => u[1] # w
      BY <1>2, <2>3, TaskForms, ZenonT(30)
    <3>2. u[2] = 0 => wpc'[u[1]] = wpc[u[1]]
      BY <1>1, <1>2, <3>1, TaskForms, ZenonT(30) DEF WorkerType
    <3> QED BY <1>1, <1>2, <2>1, <2>3, <3>2, TaskFrame, ZenonT(30) DEF TaskType
  <2> QED BY <2>2, <2>3, ZenonT(30)
<1>9. LinkOK'
  <2>1. \A u \in Tasks : st'[u] = "link" => st[u] = "link"
    BY <1>1, ZenonT(30) DEF TaskType
  <2> QED BY <1>1, <1>2, <2>1, LinkKeep, ZenonT(30)
<1>10. ReportOK'
  <2>1. \A u \in Tasks : st[u] = "cas" => st'[u] = "cas"
    BY <1>1, ZenonT(30) DEF TaskType
  <2> QED BY <1>1, <1>2, <2>1, ReportFrame, ZenonT(30)
<1>11. EndOK'
  <2>1. \A x \in Workers \ {w} : wpc'[x] = wpc[x]
    BY <1>1, ZenonT(30) DEF WorkerType
  <2>2. \A x \in Workers : Kind'[x] = Kind[x] /\ (SendersDone(x)' <=> SendersDone(x))
    BY <1>1, <1>2, SameGraph, ZenonT(30) DEF SendersDone
  <2>3. wpc'[w] = "emit" => Kind[w] \in {"wildcard", "intersection", "difference"}
    BY <1>1, ZenonT(30) DEF WorkerType, Broadcasts
  <2> QED BY <1>1, <1>2, <2>1, <2>2, <2>3, ZenonT(30) DEF EndOK, WorkerType
<1>12. OpenOK'
  <2>1. \A x \in Workers : wpc'[x] = "end" <=> wpc[x] = "end"
    BY <1>1, ZenonT(30) DEF WorkerType
  <2>2. \A x \in Edges : Src[x] # None => (wpc'[Src[x]] = "end" <=> wpc[Src[x]] = "end")
    BY <1>2, <2>1, GraphFacts, ZenonT(30)
  <2> QED BY <1>1, <1>2, <2>2, ZenonT(30) DEF OpenOK
<1>13. CloseOK'
  <2>1. \A x \in Workers : wpc'[x] = "end" <=> wpc[x] = "end"
    BY <1>1, ZenonT(30) DEF WorkerType
  <2> QED BY <1>1, <1>2, <2>1, ZenonT(30) DEF CloseOK
<1> QED BY <1>6, <1>7, <1>8, <1>9, <1>10, <1>11, <1>12, <1>13, ZenonT(30)

(* A worker whose senders are done has nothing to emit.                    *)
LEMMA GatherQuietShut ==
  ASSUME ShutInv, NEW w \in Workers, Gather(w), ~Broadcasts(w)
  PROVE  ShutInv'
<1> USE DEF ShutInv, TypeOK
<1>1. /\ UNCHANGED <<g, chan, open, phase, received, failures, st, todo, buf, pend, bad,
           errs, slot, seen, bag, base, reqDone, pipeDone, childDone, pc, buffer, delivered,
           failed, full>>
      /\ wpc[w] = "run"
      /\ wpc' = [wpc EXCEPT ![w] = "return"]
  BY ZenonT(30) DEF Gather, media, sets, ctxs, caller
<1>2. /\ g \in Graphs /\ g' = g /\ Workers' = Workers /\ Edges' = Edges /\ Tasks' = Tasks
      /\ Out' = Out /\ Src' = Src
  BY <1>1, SameGraph, ZenonT(30)
<1>3. EdgeType' /\ TaskType' /\ CallerType'
  BY <1>1, TypeFrame, ZenonT(30)
<1>4. WorkerType'
  <2>1. wpc' \in [Workers -> {"run", "emit", "return", "end"}]
    BY <1>1, ZenonT(30) DEF WorkerType
  <2> QED BY <1>1, <1>2, <2>1, ZenonT(30) DEF WorkerType
<1>5. TypeOK'
  BY <1>2, <1>3, <1>4, ZenonT(30)
<1>6. LinkOK' /\ ReportOK' /\ DrainedOK' /\ ContextOK' /\ CallerOK'
  BY <1>1, CalmFrame, ZenonT(30)
<1>7. TaskOK'
  <2> SUFFICES ASSUME NEW u \in Tasks
               PROVE  TaskFine(u)'
    BY <1>2, ZenonT(30) DEF TaskOK
  <2>1. TaskFine(u)
    BY ZenonT(30) DEF TaskOK
  <2>2. CASE u = <<w, 0>>
    <3>1. u[1] = w /\ u[2] = 0
      BY <2>2, ZenonT(30)
    <3> QED BY <1>1, <1>2, <2>1, <2>2, <3>1, SameGraph, ZenonT(30) DEF TaskFine, TaskType, WorkerType
  <2>3. CASE u # <<w, 0>>
    <3>1. u[2] = 0 => u[1] # w
      BY <1>2, <2>3, TaskForms, ZenonT(30)
    <3>2. u[2] = 0 => wpc'[u[1]] = wpc[u[1]]
      BY <1>1, <1>2, <3>1, TaskForms, ZenonT(30) DEF WorkerType
    <3> QED BY <1>1, <1>2, <2>1, <2>3, <3>2, TaskFrame, ZenonT(30) DEF TaskType
  <2> QED BY <2>2, <2>3, ZenonT(30)
<1>8. EndOK'
  <2>1. \A x \in Workers \ {w} : wpc'[x] = wpc[x]
    BY <1>1, ZenonT(30) DEF WorkerType
  <2>2. \A x \in Workers : Kind'[x] = Kind[x] /\ (SendersDone(x)' <=> SendersDone(x))
    BY <1>1, <1>2, SameGraph, ZenonT(30) DEF SendersDone
  <2>3. wpc'[w] = "emit" => Kind[w] \in {"wildcard", "intersection", "difference"}
    BY <1>1, ZenonT(30) DEF WorkerType, Broadcasts
  <2> QED BY <1>1, <1>2, <2>1, <2>2, <2>3, ZenonT(30) DEF EndOK, WorkerType
<1>9. OpenOK'
  <2>1. \A x \in Workers : wpc'[x] = "end" <=> wpc[x] = "end"
    BY <1>1, ZenonT(30) DEF WorkerType
  <2>2. \A x \in Edges : Src[x] # None => (wpc'[Src[x]] = "end" <=> wpc[Src[x]] = "end")
    BY <1>2, <2>1, GraphFacts, ZenonT(30)
  <2> QED BY <1>1, <1>2, <2>2, ZenonT(30) DEF OpenOK
<1>10. CloseOK'
  <2>1. \A x \in Workers : wpc'[x] = "end" <=> wpc[x] = "end"
    BY <1>1, ZenonT(30) DEF WorkerType
  <2> QED BY <1>1, <1>2, <2>1, ZenonT(30) DEF CloseOK
<1> QED BY <1>5, <1>6, <1>7, <1>8, <1>9, <1>10, ZenonT(30)

(* A worker has emitted.                                                   *)
LEMMA EmitDoneShut ==
  ASSUME ShutInv, NEW w \in Workers, EmitDone(w)
  PROVE  ShutInv'
<1> USE DEF ShutInv, TypeOK
<1>0. wpc[w] # "end"
  BY TaskForms, Active, SMT, SMTT(30) DEF EmitDone
<1>1. /\ UNCHANGED <<g, chan, open, phase, received, failures, todo, buf, pend, bad, errs,
           slot, seen, bag, base, reqDone, pipeDone, childDone, pc, buffer, delivered, failed,
           full>>
      /\ st[<<w, 0>>] = "work" /\ todo[<<w, 0>>] = {} /\ buf[<<w, 0>>] = <<>>
      /\ wpc[w] # "end"
      /\ wpc' = [wpc EXCEPT ![w] = "return"]
      /\ st' = [st EXCEPT ![<<w, 0>>] = "idle"]
  BY <1>0, ZenonT(30) DEF EmitDone, Exhausted, media, sets, ctxs, caller
<1>2. /\ g \in Graphs /\ g' = g /\ Workers' = Workers /\ Edges' = Edges /\ Tasks' = Tasks
      /\ Out' = Out /\ Src' = Src
  BY <1>1, SameGraph, ZenonT(30)
<1>3. EdgeType' /\ CallerType'
  BY <1>1, TypeFrame, ZenonT(30)
<1>4. TaskType'
  <2>1. st' \in [Tasks -> {"idle", "work", "send", "cas", "link"}]
    BY <1>1, ZenonT(30) DEF TaskType
  <2> QED BY <1>1, <1>2, <2>1, ZenonT(30) DEF TaskType
<1>5. WorkerType'
  <2>1. wpc' \in [Workers -> {"run", "emit", "return", "end"}]
    BY <1>1, ZenonT(30) DEF WorkerType
  <2> QED BY <1>1, <1>2, <2>1, ZenonT(30) DEF WorkerType
<1>6. TypeOK'
  BY <1>2, <1>3, <1>4, <1>5, ZenonT(30)
<1>7. DrainedOK' /\ ContextOK' /\ CallerOK'
  BY <1>1, CalmFrame, ZenonT(30)
<1>8. TaskOK'
  <2> SUFFICES ASSUME NEW u \in Tasks
               PROVE  TaskFine(u)'
    BY <1>2, ZenonT(30) DEF TaskOK
  <2>1. TaskFine(u)
    BY ZenonT(30) DEF TaskOK
  <2>2. CASE u = <<w, 0>>
    <3>1. u[1] = w /\ u[2] = 0
      BY <2>2, ZenonT(30)
    <3> QED BY <1>1, <1>2, <2>1, <2>2, <3>1, SameGraph, ZenonT(30) DEF TaskFine, TaskType, WorkerType
  <2>3. CASE u # <<w, 0>>
    <3>1. u[2] = 0 => u[1] # w
      BY <1>2, <2>3, TaskForms, ZenonT(30)
    <3>2. u[2] = 0 => wpc'[u[1]] = wpc[u[1]]
      BY <1>1, <1>2, <3>1, TaskForms, ZenonT(30) DEF WorkerType
    <3> QED BY <1>1, <1>2, <2>1, <2>3, <3>2, TaskFrame, ZenonT(30) DEF TaskType
  <2> QED BY <2>2, <2>3, ZenonT(30)
<1>9. LinkOK'
  <2>1. \A u \in Tasks : st'[u] = "link" => st[u] = "link"
    BY <1>1, ZenonT(30) DEF TaskType
  <2> QED BY <1>1, <1>2, <2>1, LinkKeep, ZenonT(30)
<1>10. ReportOK'
  <2>1. \A u \in Tasks : st[u] = "cas" => st'[u] = "cas"
    BY <1>1, ZenonT(30) DEF TaskType
  <2> QED BY <1>1, <1>2, <2>1, ReportFrame, ZenonT(30)
<1>11. EndOK'
  <2>1. \A x \in Workers \ {w} : wpc'[x] = wpc[x]
    BY <1>1, ZenonT(30) DEF WorkerType
  <2>2. \A x \in Workers : Kind'[x] = Kind[x] /\ (SendersDone(x)' <=> SendersDone(x))
    BY <1>1, <1>2, SameGraph, ZenonT(30) DEF SendersDone
  <2>3. wpc'[w] = "emit" => Kind[w] \in {"wildcard", "intersection", "difference"}
    BY <1>1, ZenonT(30) DEF WorkerType, Broadcasts
  <2> QED BY <1>1, <1>2, <2>1, <2>2, <2>3, ZenonT(30) DEF EndOK, WorkerType
<1>12. OpenOK'
  <2>1. \A x \in Workers : wpc'[x] = "end" <=> wpc[x] = "end"
    BY <1>1, ZenonT(30) DEF WorkerType
  <2>2. \A x \in Edges : Src[x] # None => (wpc'[Src[x]] = "end" <=> wpc[Src[x]] = "end")
    BY <1>2, <2>1, GraphFacts, ZenonT(30)
  <2> QED BY <1>1, <1>2, <2>2, ZenonT(30) DEF OpenOK
<1>13. CloseOK'
  <2>1. \A x \in Workers : wpc'[x] = "end" <=> wpc[x] = "end"
    BY <1>1, ZenonT(30) DEF WorkerType
  <2> QED BY <1>1, <1>2, <2>1, ZenonT(30) DEF CloseOK
<1> QED BY <1>6, <1>7, <1>8, <1>9, <1>10, <1>11, <1>12, <1>13, ZenonT(30)

(* A worker ends and closes the channels it feeds.                         *)
LEMMA ReturnShut ==
  ASSUME ShutInv, NEW w \in Workers, Return(w)
  PROVE  ShutInv'
<1> USE DEF ShutInv, TypeOK
<1>1. /\ UNCHANGED <<g, chan, phase, received, failures, st, todo, buf, pend, bad, errs,
           slot, seen, bag, base, reqDone, pipeDone, pc, buffer, delivered, failed, full>>
      /\ wpc[w] = "return" /\ SendersDone(w)
      /\ wpc' = [wpc EXCEPT ![w] = "end"]
      /\ childDone' = [childDone EXCEPT ![w] = @ \/ OwnContext(w)]
      /\ open' = [x \in Edges |-> open[x] /\ x \notin Listeners(w)]
  BY ZenonT(30) DEF Return, tasks, sets, ctxs, caller
<1>2. /\ g \in Graphs /\ g' = g /\ Workers' = Workers /\ Edges' = Edges /\ Tasks' = Tasks
      /\ Out' = Out /\ Src' = Src
  BY <1>1, SameGraph, ZenonT(30)
<1>3. TaskType' /\ CallerType'
  BY <1>1, TypeFrame, ZenonT(30)
<1>4. EdgeType'
  <2>1. open' \in [Edges -> BOOLEAN]
    <3>1. \A x \in Edges : (open[x] /\ x \notin Listeners(w)) \in BOOLEAN
      BY ZenonT(30)
    <3> QED BY <1>1, <3>1, ZenonT(30)
  <2> QED BY <1>1, <1>2, <2>1, ZenonT(30) DEF EdgeType
<1>5. WorkerType'
  <2>1. wpc' \in [Workers -> {"run", "emit", "return", "end"}]
    BY <1>1, ZenonT(30) DEF WorkerType
  <2>2. childDone' \in [Workers -> BOOLEAN]
    <3>1. (childDone[w] \/ OwnContext(w)) \in BOOLEAN
      BY ZenonT(30)
    <3> QED BY <1>1, <3>1, ZenonT(30) DEF WorkerType
  <2> QED BY <1>1, <1>2, <2>1, <2>2, ZenonT(30) DEF WorkerType
<1>6. TypeOK'
  BY <1>2, <1>3, <1>4, <1>5, ZenonT(30)
<1>7. LinkOK' /\ ReportOK' /\ CallerOK'
  BY <1>1, CalmFrame, ZenonT(30)
<1>8. TaskOK'
  <2> SUFFICES ASSUME NEW u \in Tasks
               PROVE  TaskFine(u)'
    BY <1>2, ZenonT(30) DEF TaskOK
  <2>1. TaskFine(u)
    BY ZenonT(30) DEF TaskOK
  <2>2. CASE u = <<w, 0>>
    <3>1. u[1] = w /\ u[2] = 0
      BY <2>2, ZenonT(30)
    <3> QED BY <1>1, <1>2, <2>1, <2>2, <3>1, SameGraph, ZenonT(30) DEF TaskFine, TaskType, WorkerType
  <2>3. CASE u # <<w, 0>>
    <3>1. u[2] = 0 => u[1] # w
      BY <1>2, <2>3, TaskForms, ZenonT(30)
    <3>2. u[2] = 0 => wpc'[u[1]] = wpc[u[1]]
      BY <1>1, <1>2, <3>1, TaskForms, ZenonT(30) DEF WorkerType
    <3> QED BY <1>1, <1>2, <2>1, <2>3, <3>2, TaskFrame, ZenonT(30) DEF TaskType
  <2> QED BY <2>2, <2>3, ZenonT(30)
<1>9. EndOK'
  <2>1. \A x \in Workers \ {w} : wpc'[x] = wpc[x]
    BY <1>1, ZenonT(30) DEF WorkerType
  <2>2. \A x \in Workers : Kind'[x] = Kind[x] /\ (SendersDone(x)' <=> SendersDone(x))
    BY <1>1, <1>2, SameGraph, ZenonT(30) DEF SendersDone
  <2> QED BY <1>1, <1>2, <2>1, <2>2, ZenonT(30) DEF EndOK, WorkerType
<1>10. OpenOK'
  <2>1. \A x \in Workers : wpc'[x] = "end" <=> wpc[x] = "end" \/ x = w
    BY <1>1, ZenonT(30) DEF WorkerType
  <2>2. \A x \in Edges : open'[x] <=> open[x] /\ Src[x] # w
    BY <1>1, ZenonT(30) DEF Listeners
  <2>3. \A x \in Edges : Src[x] # None => Src[x] \in Workers
    BY <1>2, GraphFacts, ZenonT(30)
  <2> QED BY <1>2, <2>1, <2>2, <2>3, ZenonT(30) DEF OpenOK
<1>11. DrainedOK'
  <2>1. \A x \in Edges : open'[x] => open[x]
    BY <1>1, ZenonT(30)
  <2> QED BY <1>1, <1>2, <2>1, ZenonT(30) DEF DrainedOK
<1>12. CloseOK'
  <2>1. \A x \in Workers : wpc[x] = "end" => wpc'[x] = "end"
    BY <1>1, ZenonT(30) DEF WorkerType
  <2>2. open'[Out] => open[Out]
    BY <1>1, <1>2, GraphFacts, ZenonT(30)
  <2> QED BY <1>1, <1>2, <2>1, <2>2, ZenonT(30) DEF CloseOK
<1>13. ContextOK'
  <2>1. \A x \in Workers : childDone'[x] => OwnContext(x)
    BY <1>1, ZenonT(30) DEF ContextOK, WorkerType
  <2> QED BY <1>1, <1>2, <2>1, SameGraph, ZenonT(30) DEF ContextOK, Asking
<1> QED BY <1>6, <1>7, <1>8, <1>9, <1>10, <1>11, <1>12, <1>13, ZenonT(30)

(* A worker emits a value of its own.                                      *)
LEMMA EmitOwnShut ==
  ASSUME ShutInv, NEW w \in Workers, EmitOwn(w)
  PROVE  ShutInv'
<1> USE DEF ShutInv, TypeOK
<1>0. PICK v \in todo[<<w, 0>>] :
        /\ <<w, 0>> \in Tasks /\ st[<<w, 0>>] = "work" /\ v \in Values
        /\ todo' = [todo EXCEPT ![<<w, 0>>] = @ \ {v}]
        /\ Collect(<<w, 0>>, v)
  BY TaskForms, ZenonT(30) DEF EmitOwn, TaskType
<1>1. /\ UNCHANGED <<g, chan, open, phase, received, failures, bad, errs, slot, seen, bag,
           base, wpc, reqDone, pipeDone, childDone, pc, buffer, delivered, failed, full>>
      /\ <<w, 0>> \in Tasks /\ st[<<w, 0>>] = "work"
      /\ todo' = [todo EXCEPT ![<<w, 0>>] = @ \ {v}]
      /\ st' \in [Tasks -> {"idle", "work", "send", "cas", "link"}]
      /\ buf' \in [Tasks -> Seq(Values)]
      /\ pend' \in [Tasks -> SUBSET Edges]
      /\ \/ st'[<<w, 0>>] = "work" /\ pend'[<<w, 0>>] = {}
         \/ st'[<<w, 0>>] = "send" /\ pend'[<<w, 0>>] = Listeners(WorkerOf(<<w, 0>>)) /\ pend'[<<w, 0>>] # {}
      /\ \A u \in Tasks \ {<<w, 0>>} : st'[u] = st[u] /\ buf'[u] = buf[u] /\ pend'[u] = pend[u]
  BY <1>0, CollectFacts, ZenonT(30) DEF EmitOwn, media, sets, ctxs, caller
<1>2. /\ g \in Graphs /\ g' = g /\ Workers' = Workers /\ Edges' = Edges /\ Tasks' = Tasks
      /\ Out' = Out /\ Src' = Src
  BY <1>1, SameGraph, ZenonT(30)
<1>3. EdgeType' /\ WorkerType' /\ CallerType'
  BY <1>1, TypeFrame, ZenonT(30)
<1>4. TaskType'
  <2>1. st' \in [Tasks -> {"idle", "work", "send", "cas", "link"}]
    BY <1>1, ZenonT(30)
  <2>2. todo' \in [Tasks -> SUBSET Values]
    BY <1>1, ZenonT(30) DEF TaskType
  <2>3. buf' \in [Tasks -> Seq(Values)]
    BY <1>1, ZenonT(30)
  <2>4. pend' \in [Tasks -> SUBSET Edges]
    BY <1>1, ZenonT(30)
  <2> QED BY <1>1, <1>2, <2>1, <2>2, <2>3, <2>4, ZenonT(30) DEF TaskType
<1>5. TypeOK'
  BY <1>2, <1>3, <1>4, ZenonT(30)
<1>6. EndOK' /\ OpenOK' /\ DrainedOK' /\ CloseOK' /\ ContextOK' /\ CallerOK'
  BY <1>1, CalmFrame, ZenonT(30)
<1>7. TaskOK'
  <2> SUFFICES ASSUME NEW u \in Tasks
               PROVE  TaskFine(u)'
    BY <1>2, ZenonT(30) DEF TaskOK
  <2>1. TaskFine(u)
    BY ZenonT(30) DEF TaskOK
  <2>2. CASE u = <<w, 0>>
    <3>1. Listeners(WorkerOf(u))' = Listeners(WorkerOf(u)) /\ Out' = Out
      BY <1>1, SameGraph, ZenonT(30)
    <3>2. st'[u] \in {"work", "send"} /\ st[u] = "work"
      BY <1>1, <2>2, ZenonT(30)
    <3>3. st'[u] # "send" => pend'[u] = {}
      BY <1>1, <2>2, ZenonT(30)
    <3>4. st'[u] = "send" => pend'[u] # {} /\ pend'[u] \subseteq Listeners(WorkerOf(u))
      BY <1>1, <2>2, ZenonT(30)
    <3> QED BY <1>1, <2>1, <3>1, <3>2, <3>3, <3>4, ZenonT(30) DEF TaskFine
  <2>3. CASE u # <<w, 0>>
    BY <1>1, <1>2, <2>1, <2>3, TaskFrame, ZenonT(30) DEF TaskType
  <2> QED BY <2>2, <2>3, ZenonT(30)
<1>8. LinkOK'
  <2>1. \A u \in Tasks : st'[u] = "link" => st[u] = "link"
    BY <1>1, ZenonT(30)
  <2> QED BY <1>1, <1>2, <2>1, LinkKeep, ZenonT(30)
<1>9. ReportOK'
  <2>1. \A u \in Tasks : st[u] = "cas" => st'[u] = "cas"
    BY <1>1, ZenonT(30)
  <2> QED BY <1>1, <1>2, <2>1, ReportFrame, ZenonT(30)
<1> QED BY <1>5, <1>6, <1>7, <1>8, <1>9, ZenonT(30)

(* A difference or an intersection emits a value of its base.              *)
LEMMA EmitBaseShut ==
  ASSUME ShutInv, NEW w \in Workers, EmitBase(w)
  PROVE  ShutInv'
<1> USE DEF ShutInv, TypeOK
<1>0. /\ <<w, 0>> \in Tasks /\ st[<<w, 0>>] = "work"
      /\ Head(base[w]) \in Values /\ Tail(base[w]) \in Seq(Values)
      /\ base' = [base EXCEPT ![w] = Tail(@)]
      /\ Collect(<<w, 0>>, Head(base[w])) \/ UNCHANGED <<buf, st, pend>>
  <2>1. base[w] \in Seq(Values) /\ base[w] # <<>>
    BY ZenonT(30) DEF EmitBase, WorkerType
  <2>2. Head(base[w]) \in Values /\ Tail(base[w]) \in Seq(Values)
    BY <2>1, SMT, SMTT(30)
  <2> QED BY <2>2, TaskForms, ZenonT(30) DEF EmitBase, Pass
<1>1. /\ UNCHANGED <<g, chan, open, phase, received, failures, todo, bad, errs, slot, seen,
           bag, wpc, reqDone, pipeDone, childDone, pc, buffer, delivered, failed, full>>
      /\ <<w, 0>> \in Tasks /\ st[<<w, 0>>] = "work"
      /\ base' = [base EXCEPT ![w] = Tail(@)]
      /\ st' \in [Tasks -> {"idle", "work", "send", "cas", "link"}]
      /\ buf' \in [Tasks -> Seq(Values)]
      /\ pend' \in [Tasks -> SUBSET Edges]
      /\ \/ st'[<<w, 0>>] = "work" /\ pend'[<<w, 0>>] = {}
         \/ st'[<<w, 0>>] = "send" /\ pend'[<<w, 0>>] = Listeners(WorkerOf(<<w, 0>>)) /\ pend'[<<w, 0>>] # {}
      /\ \A u \in Tasks \ {<<w, 0>>} : st'[u] = st[u] /\ buf'[u] = buf[u] /\ pend'[u] = pend[u]
  BY <1>0, CollectFacts, ZenonT(30) DEF EmitBase, media, ctxs, caller
<1>2. /\ g \in Graphs /\ g' = g /\ Workers' = Workers /\ Edges' = Edges /\ Tasks' = Tasks
      /\ Out' = Out /\ Src' = Src
  BY <1>1, SameGraph, ZenonT(30)
<1>3. EdgeType' /\ CallerType'
  BY <1>1, TypeFrame, ZenonT(30)
<1>4. TaskType'
  <2>1. st' \in [Tasks -> {"idle", "work", "send", "cas", "link"}]
    BY <1>1, ZenonT(30)
  <2>2. buf' \in [Tasks -> Seq(Values)]
    BY <1>1, ZenonT(30)
  <2>3. pend' \in [Tasks -> SUBSET Edges]
    BY <1>1, ZenonT(30)
  <2> QED BY <1>1, <1>2, <2>1, <2>2, <2>3, ZenonT(30) DEF TaskType
<1>5. WorkerType'
  <2>1. base' \in [Workers -> Seq(Values)]
    BY <1>0, ZenonT(30) DEF WorkerType
  <2> QED BY <1>1, <1>2, <2>1, ZenonT(30) DEF WorkerType
<1>6. TypeOK'
  BY <1>2, <1>3, <1>4, <1>5, ZenonT(30)
<1>7. EndOK' /\ OpenOK' /\ DrainedOK' /\ CloseOK' /\ ContextOK' /\ CallerOK'
  BY <1>1, CalmFrame, ZenonT(30)
<1>8. TaskOK'
  <2> SUFFICES ASSUME NEW u \in Tasks
               PROVE  TaskFine(u)'
    BY <1>2, ZenonT(30) DEF TaskOK
  <2>1. TaskFine(u)
    BY ZenonT(30) DEF TaskOK
  <2>2. CASE u = <<w, 0>>
    <3>1. Listeners(WorkerOf(u))' = Listeners(WorkerOf(u)) /\ Out' = Out
      BY <1>1, SameGraph, ZenonT(30)
    <3>2. st'[u] \in {"work", "send"} /\ st[u] = "work"
      BY <1>1, <2>2, ZenonT(30)
    <3>3. st'[u] # "send" => pend'[u] = {}
      BY <1>1, <2>2, ZenonT(30)
    <3>4. st'[u] = "send" => pend'[u] # {} /\ pend'[u] \subseteq Listeners(WorkerOf(u))
      BY <1>1, <2>2, ZenonT(30)
    <3> QED BY <1>1, <2>1, <3>1, <3>2, <3>3, <3>4, ZenonT(30) DEF TaskFine
  <2>3. CASE u # <<w, 0>>
    BY <1>1, <1>2, <2>1, <2>3, TaskFrame, ZenonT(30) DEF TaskType
  <2> QED BY <2>2, <2>3, ZenonT(30)
<1>9. LinkOK'
  <2>1. \A u \in Tasks : st'[u] = "link" => st[u] = "link"
    BY <1>1, ZenonT(30)
  <2> QED BY <1>1, <1>2, <2>1, LinkKeep, ZenonT(30)
<1>10. ReportOK'
  <2>1. \A u \in Tasks : st[u] = "cas" => st'[u] = "cas"
    BY <1>1, ZenonT(30)
  <2> QED BY <1>1, <1>2, <2>1, ReportFrame, ZenonT(30)
<1> QED BY <1>6, <1>7, <1>8, <1>9, <1>10, ZenonT(30)

(* A goroutine adds the results of a read to its batch.                    *)
LEMMA ResultShut ==
  ASSUME ShutInv, NEW e \in Edges \ {Out}, NEW p \in Procs, Result(e, p)
  PROVE  ShutInv'
<1> USE DEF ShutInv, TypeOK
<1>0. PICK v \in todo[<<e, p>>] :
        /\ <<e, p>> \in Tasks /\ st[<<e, p>>] = "work" /\ v \in Values /\ Dst[e] \in Workers
        /\ todo' = [todo EXCEPT ![<<e, p>>] = @ \ {v}]
        /\ Collect(<<e, p>>, v) \/ UNCHANGED <<buf, st, pend>>
        /\ seen' = seen \/ seen' = [seen EXCEPT ![Dst[e]] = @ \cup {v}]
        /\ bag' = bag \/ bag' = [bag EXCEPT ![e] = @ \cup {v}]
        /\ base' = base \/ base' = [base EXCEPT ![Dst[e]] = Append(@, v)]
  BY TaskForms, GraphFacts, ZenonT(30) DEF Result, Pass, sets, TaskType
<1>1. /\ UNCHANGED <<g, chan, open, phase, received, failures, bad, errs, slot, wpc,
           reqDone, pipeDone, childDone, pc, buffer, delivered, failed, full>>
      /\ <<e, p>> \in Tasks /\ st[<<e, p>>] = "work"
      /\ todo' = [todo EXCEPT ![<<e, p>>] = @ \ {v}]
      /\ st' \in [Tasks -> {"idle", "work", "send", "cas", "link"}]
      /\ buf' \in [Tasks -> Seq(Values)]
      /\ pend' \in [Tasks -> SUBSET Edges]
      /\ \/ st'[<<e, p>>] = "work" /\ pend'[<<e, p>>] = {}
         \/ st'[<<e, p>>] = "send" /\ pend'[<<e, p>>] = Listeners(WorkerOf(<<e, p>>)) /\ pend'[<<e, p>>] # {}
      /\ \A u \in Tasks \ {<<e, p>>} : st'[u] = st[u] /\ buf'[u] = buf[u] /\ pend'[u] = pend[u]
  BY <1>0, CollectFacts, ZenonT(30) DEF Result, media, ctxs, caller
<1>2. /\ g \in Graphs /\ g' = g /\ Workers' = Workers /\ Edges' = Edges /\ Tasks' = Tasks
      /\ Out' = Out /\ Src' = Src
  BY <1>1, SameGraph, ZenonT(30)
<1>3. EdgeType' /\ CallerType'
  BY <1>1, TypeFrame, ZenonT(30)
<1>4. TaskType'
  <2>1. st' \in [Tasks -> {"idle", "work", "send", "cas", "link"}]
    BY <1>1, ZenonT(30)
  <2>2. todo' \in [Tasks -> SUBSET Values]
    BY <1>1, ZenonT(30) DEF TaskType
  <2>3. buf' \in [Tasks -> Seq(Values)]
    BY <1>1, ZenonT(30)
  <2>4. pend' \in [Tasks -> SUBSET Edges]
    BY <1>1, ZenonT(30)
  <2> QED BY <1>1, <1>2, <2>1, <2>2, <2>3, <2>4, ZenonT(30) DEF TaskType
<1>5. WorkerType'
  <2>1. seen' \in [Workers -> SUBSET Values]
    <3>1. seen[Dst[e]] \cup {v} \in SUBSET Values
      BY <1>0, ZenonT(30) DEF WorkerType
    <3> QED BY <1>0, <3>1, ZenonT(30) DEF WorkerType
  <2>2. bag' \in [Edges -> SUBSET Values]
    <3>1. bag[e] \cup {v} \in SUBSET Values
      BY <1>0, ZenonT(30) DEF WorkerType
    <3> QED BY <1>0, <3>1, ZenonT(30) DEF WorkerType
  <2>3. base' \in [Workers -> Seq(Values)]
    <3>1. base \in [Workers -> Seq(Values)] /\ Dst[e] \in Workers /\ v \in Values
      BY <1>0, ZenonT(30) DEF WorkerType
    <3>2. base[Dst[e]] \in Seq(Values)
      BY <3>1, ZenonT(30)
    <3>3. Append(base[Dst[e]], v) \in Seq(Values)
      BY <3>1, <3>2, AppendIn, ZenonT(30)
    <3>4. CASE base' = base
      BY <3>1, <3>4, ZenonT(30)
    <3>5. CASE base' = [base EXCEPT ![Dst[e]] = Append(@, v)]
      BY <3>1, <3>3, <3>5, ZenonT(30)
    <3> QED BY <1>0, <3>4, <3>5, ZenonT(30)
  <2> QED BY <1>1, <1>2, <2>1, <2>2, <2>3, ZenonT(30) DEF WorkerType
<1>6. TypeOK'
  BY <1>2, <1>3, <1>4, <1>5, ZenonT(30)
<1>7. EndOK' /\ OpenOK' /\ DrainedOK' /\ CloseOK' /\ ContextOK' /\ CallerOK'
  BY <1>1, CalmFrame, ZenonT(30)
<1>8. TaskOK'
  <2> SUFFICES ASSUME NEW u \in Tasks
               PROVE  TaskFine(u)'
    BY <1>2, ZenonT(30) DEF TaskOK
  <2>1. TaskFine(u)
    BY ZenonT(30) DEF TaskOK
  <2>2. CASE u = <<e, p>>
    <3>1. Listeners(WorkerOf(u))' = Listeners(WorkerOf(u)) /\ Out' = Out
      BY <1>1, SameGraph, ZenonT(30)
    <3>2. st'[u] \in {"work", "send"} /\ st[u] = "work"
      BY <1>1, <2>2, ZenonT(30)
    <3>3. st'[u] # "send" => pend'[u] = {}
      BY <1>1, <2>2, ZenonT(30)
    <3>4. st'[u] = "send" => pend'[u] # {} /\ pend'[u] \subseteq Listeners(WorkerOf(u))
      BY <1>1, <2>2, ZenonT(30)
    <3> QED BY <1>1, <2>1, <3>1, <3>2, <3>3, <3>4, ZenonT(30) DEF TaskFine
  <2>3. CASE u # <<e, p>>
    BY <1>1, <1>2, <2>1, <2>3, TaskFrame, ZenonT(30) DEF TaskType
  <2> QED BY <2>2, <2>3, ZenonT(30)
<1>9. LinkOK'
  <2>1. \A u \in Tasks : st'[u] = "link" => st[u] = "link"
    BY <1>1, ZenonT(30)
  <2> QED BY <1>1, <1>2, <2>1, LinkKeep, ZenonT(30)
<1>10. ReportOK'
  <2>1. \A u \in Tasks : st[u] = "cas" => st'[u] = "cas"
    BY <1>1, ZenonT(30)
  <2> QED BY <1>1, <1>2, <2>1, ReportFrame, ZenonT(30)
<1> QED BY <1>6, <1>7, <1>8, <1>9, <1>10, ZenonT(30)

(* Recv looks at the context and at the errors.                            *)
LEMMA RecvTopShut ==
  ASSUME ShutInv, RecvTop
  PROVE  ShutInv'
<1> USE DEF ShutInv, TypeOK
<1>1. /\ UNCHANGED <<g, chan, open, phase, received, failures, st, todo, buf, pend, bad,
           errs, slot, seen, bag, base, wpc, reqDone, pipeDone, childDone, buffer, delivered,
           failed, full>>
      /\ pc = "top"
      /\ pc' = IF reqDone THEN "stopped" ELSE "try"
  BY ZenonT(30) DEF RecvTop, media, network, tasks, sets, ctxs, Go
<1>2. /\ g \in Graphs /\ g' = g /\ Workers' = Workers /\ Edges' = Edges /\ Tasks' = Tasks
      /\ Out' = Out /\ Src' = Src
  BY <1>1, SameGraph, ZenonT(30)
<1>3. EdgeType' /\ TaskType' /\ WorkerType'
  BY <1>1, TypeFrame, ZenonT(30)
<1>4. CallerType'
  <2>1. pc' \in {"top", "try", "buffer", "output", "stopped", "drain", "wait", "end"}
    BY <1>1, ZenonT(30) DEF CallerType
  <2> QED BY <1>1, <1>2, <2>1, ZenonT(30) DEF CallerType
<1>5. TypeOK'
  BY <1>2, <1>3, <1>4, ZenonT(30)
<1>6. TaskOK' /\ LinkOK' /\ ReportOK' /\ EndOK' /\ OpenOK' /\ DrainedOK'
  BY <1>1, CalmFrame, ZenonT(30)
<1>7. CloseOK'
  BY <1>1, <1>2, ZenonT(30) DEF CloseOK, EdgeType, TaskType, WorkerType, CallerType
<1>8. ContextOK'
  BY <1>1, <1>2, SameGraph, ZenonT(30) DEF ContextOK, Asking
<1>9. CallerOK'
  BY <1>1, <1>2, ZenonT(30) DEF CallerOK, Asking, CallerType
<1> QED BY <1>5, <1>6, <1>7, <1>8, <1>9, ZenonT(30)

(* Recv looks for a batch that is ready.                                   *)
LEMMA RecvTryShut ==
  ASSUME ShutInv, RecvTry
  PROVE  ShutInv'
<1> USE DEF ShutInv, TypeOK
<1>1. /\ UNCHANGED <<g, chan, open, phase, received, failures, st, todo, buf, pend, bad,
           errs, slot, seen, bag, base, wpc, reqDone, childDone, delivered, full>>
      /\ pc = "try"
      /\ \/ pc' = "drain" /\ failed' = TRUE /\ buffer' = <<>> /\ pipeDone' = TRUE
         \/ pc' = "buffer" /\ UNCHANGED <<failed, buffer, pipeDone>>
  BY ZenonT(30) DEF RecvTry, Cancelled, media, network, tasks, sets, ctxs, Go
<1>2. /\ g \in Graphs /\ g' = g /\ Workers' = Workers /\ Edges' = Edges /\ Tasks' = Tasks
      /\ Out' = Out /\ Src' = Src
  BY <1>1, SameGraph, ZenonT(30)
<1>3. EdgeType' /\ TaskType'
  BY <1>1, TypeFrame, ZenonT(30)
<1>4. WorkerType'
  <2>1. pipeDone' \in BOOLEAN
    BY <1>1, ZenonT(30) DEF WorkerType
  <2> QED BY <1>1, <1>2, <2>1, ZenonT(30) DEF WorkerType
<1>5. CallerType'
  <2>1. pc' \in {"top", "try", "buffer", "output", "stopped", "drain", "wait", "end"}
    BY <1>1, ZenonT(30) DEF CallerType
  <2>2. buffer' \in Seq(Values)
    <3>1. <<>> \in Seq(Values)
      BY SMT, SMTT(30)
    <3> QED BY <1>1, <3>1, ZenonT(30) DEF CallerType
  <2>3. failed' \in BOOLEAN
    BY <1>1, ZenonT(30) DEF CallerType
  <2> QED BY <1>1, <1>2, <2>1, <2>2, <2>3, ZenonT(30) DEF CallerType
<1>6. TypeOK'
  BY <1>2, <1>3, <1>4, <1>5, ZenonT(30)
<1>7. TaskOK' /\ LinkOK' /\ ReportOK' /\ EndOK' /\ OpenOK' /\ DrainedOK'
  BY <1>1, CalmFrame, ZenonT(30)
<1>8. CloseOK'
  BY <1>1, <1>2, ZenonT(30) DEF CloseOK, EdgeType, TaskType, WorkerType, CallerType
<1>9. ContextOK'
  <2>1. pipeDone' => reqDone' \/ ~Asking'
    BY <1>1, ZenonT(30) DEF ContextOK, Asking
  <2>2. \A w \in Workers : OwnContext(w)' <=> OwnContext(w)
    BY <1>1, SameGraph, ZenonT(30)
  <2>3. \A w \in Workers' : childDone'[w] => OwnContext(w)'
    BY <1>1, <1>2, <2>2, ZenonT(30) DEF ContextOK
  <2> QED BY <2>1, <2>3, ZenonT(30) DEF ContextOK
<1>10. CallerOK'
  BY <1>1, <1>2, ZenonT(30) DEF CallerOK, Asking, CallerType
<1> QED BY <1>6, <1>7, <1>8, <1>9, <1>10, ZenonT(30)

(* Recv returns a value it has buffered.                                   *)
LEMMA RecvBufferShut ==
  ASSUME ShutInv, RecvBuffer
  PROVE  ShutInv'
<1> USE DEF ShutInv, TypeOK
<1>1. /\ UNCHANGED <<g, chan, open, phase, received, failures, st, todo, buf, pend, bad,
           errs, slot, seen, bag, base, wpc, reqDone, pipeDone, childDone, failed, full>>
      /\ pc = "buffer"
      /\ \/ /\ buffer # <<>> /\ pc' = "top" /\ delivered' = Append(delivered, Head(buffer))
            /\ buffer' = Tail(buffer)
         \/ buffer = <<>> /\ pc' = "output" /\ UNCHANGED <<delivered, buffer>>
  BY ZenonT(30) DEF RecvBuffer, media, network, tasks, sets, ctxs, Go
<1>2. /\ g \in Graphs /\ g' = g /\ Workers' = Workers /\ Edges' = Edges /\ Tasks' = Tasks
      /\ Out' = Out /\ Src' = Src
  BY <1>1, SameGraph, ZenonT(30)
<1>3. EdgeType' /\ TaskType' /\ WorkerType'
  BY <1>1, TypeFrame, ZenonT(30)
<1>4. CallerType'
  <2>1. pc' \in {"top", "try", "buffer", "output", "stopped", "drain", "wait", "end"}
    BY <1>1, ZenonT(30) DEF CallerType
  <2>2. buffer' \in Seq(Values)
    <3>1. buffer # <<>> => Tail(buffer) \in Seq(Values)
      BY SMT, SMTT(30) DEF CallerType
    <3> QED BY <1>1, <3>1, ZenonT(30) DEF CallerType
  <2>3. delivered' \in Seq(Values)
    <3>1. buffer # <<>> => Head(buffer) \in Values
      BY SMT, SMTT(30) DEF CallerType
    <3>2. buffer # <<>> => Append(delivered, Head(buffer)) \in Seq(Values)
      BY <3>1, AppendIn, ZenonT(30) DEF CallerType
    <3> QED BY <1>1, <3>2, ZenonT(30) DEF CallerType
  <2> QED BY <1>1, <1>2, <2>1, <2>2, <2>3, ZenonT(30) DEF CallerType
<1>5. TypeOK'
  BY <1>2, <1>3, <1>4, ZenonT(30)
<1>6. TaskOK' /\ LinkOK' /\ ReportOK' /\ EndOK' /\ OpenOK' /\ DrainedOK'
  BY <1>1, CalmFrame, ZenonT(30)
<1>7. CloseOK'
  BY <1>1, <1>2, ZenonT(30) DEF CloseOK, EdgeType, TaskType, WorkerType, CallerType
<1>8. ContextOK'
  BY <1>1, <1>2, SameGraph, ZenonT(30) DEF ContextOK, Asking
<1>9. CallerOK'
  BY <1>1, <1>2, ZenonT(30) DEF CallerOK, Asking, CallerType
<1> QED BY <1>5, <1>6, <1>7, <1>8, <1>9, ZenonT(30)

(* Recv waits for a batch.                                                 *)
LEMMA RecvOutputShut ==
  ASSUME ShutInv, RecvOutput
  PROVE  ShutInv'
<1> USE DEF ShutInv, TypeOK
<1>1. /\ UNCHANGED <<g, open, phase, received, failures, st, todo, buf, pend, bad, errs,
           slot, seen, bag, base, wpc, reqDone, childDone, delivered, failed>>
      /\ pc = "output"
      /\ \/ /\ chan[Out] # <<>> /\ pc' = "top" /\ buffer' = Head(chan[Out])
            /\ chan' = [chan EXCEPT ![Out] = Tail(@)] /\ UNCHANGED <<full, pipeDone>>
         \/ pc' = "drain" /\ full' = TRUE /\ pipeDone' = TRUE /\ UNCHANGED <<chan, buffer>>
         \/ reqDone /\ pc' = "stopped" /\ UNCHANGED <<chan, buffer, full, pipeDone>>
  BY ZenonT(30) DEF RecvOutput, Cancelled, media, network, tasks, sets, ctxs, Go
<1>2. /\ g \in Graphs /\ g' = g /\ Workers' = Workers /\ Edges' = Edges /\ Tasks' = Tasks
      /\ Out' = Out /\ Src' = Src
  BY <1>1, SameGraph, ZenonT(30)
<1>3. TaskType'
  BY <1>1, TypeFrame, ZenonT(30)
<1>4. EdgeType'
  <2>1. chan' \in [Edges -> Seq(Seq(Values))]
    <3>1. chan[Out] \in Seq(Seq(Values))
      BY <1>2, GraphFacts, ZenonT(30) DEF EdgeType
    <3>2. chan[Out] # <<>> => Tail(chan[Out]) \in Seq(Seq(Values))
      BY <3>1, SMT, SMTT(30)
    <3> QED BY <1>1, <3>2, ZenonT(30) DEF EdgeType
  <2> QED BY <1>1, <1>2, <2>1, ZenonT(30) DEF EdgeType
<1>5. WorkerType'
  <2>1. pipeDone' \in BOOLEAN
    BY <1>1, ZenonT(30) DEF WorkerType
  <2> QED BY <1>1, <1>2, <2>1, ZenonT(30) DEF WorkerType
<1>6. CallerType'
  <2>1. pc' \in {"top", "try", "buffer", "output", "stopped", "drain", "wait", "end"}
    BY <1>1, ZenonT(30) DEF CallerType
  <2>2. buffer' \in Seq(Values)
    <3>1. chan[Out] \in Seq(Seq(Values))
      BY <1>2, GraphFacts, ZenonT(30) DEF EdgeType
    <3>2. chan[Out] # <<>> => Head(chan[Out]) \in Seq(Values)
      BY <3>1, SMT, SMTT(30)
    <3> QED BY <1>1, <3>2, ZenonT(30) DEF CallerType
  <2>3. full' \in BOOLEAN
    BY <1>1, ZenonT(30) DEF CallerType
  <2> QED BY <1>1, <1>2, <2>1, <2>2, <2>3, ZenonT(30) DEF CallerType
<1>7. TypeOK'
  BY <1>2, <1>3, <1>4, <1>5, <1>6, ZenonT(30)
<1>8. TaskOK' /\ LinkOK' /\ ReportOK' /\ EndOK' /\ OpenOK'
  BY <1>1, CalmFrame, ZenonT(30)
<1>9. DrainedOK'
  BY <1>1, <1>2, ZenonT(30) DEF DrainedOK, EdgeType
<1>10. CloseOK'
  BY <1>1, <1>2, ZenonT(30) DEF CloseOK, EdgeType, TaskType, WorkerType, CallerType
<1>11. ContextOK'
  BY <1>1, <1>2, SameGraph, SMT, SMTT(30) DEF ContextOK, Asking
<1>12. CallerOK'
  BY <1>1, <1>2, SMT, SMTT(30) DEF CallerOK, Asking, CallerType
<1> QED BY <1>7, <1>8, <1>9, <1>10, <1>11, <1>12, ZenonT(30)

(* Close cancels the pipeline.                                             *)
LEMMA CallCloseShut ==
  ASSUME ShutInv, CallClose
  PROVE  ShutInv'
<1> USE DEF ShutInv, TypeOK
<1>1. /\ UNCHANGED <<g, chan, open, phase, received, failures, st, todo, buf, pend, bad,
           errs, slot, seen, bag, base, wpc, reqDone, childDone, buffer, delivered, failed,
           full>>
      /\ pc \in {"stopped", "top"}
      /\ pc' = "drain" /\ pipeDone' = TRUE
  BY ZenonT(30) DEF CallClose, Cancelled, media, network, tasks, sets, ctxs, Go
<1>2. /\ g \in Graphs /\ g' = g /\ Workers' = Workers /\ Edges' = Edges /\ Tasks' = Tasks
      /\ Out' = Out /\ Src' = Src
  BY <1>1, SameGraph, ZenonT(30)
<1>3. EdgeType' /\ TaskType'
  BY <1>1, TypeFrame, ZenonT(30)
<1>4. WorkerType'
  <2>1. pipeDone' \in BOOLEAN
    BY <1>1, ZenonT(30) DEF WorkerType
  <2> QED BY <1>1, <1>2, <2>1, ZenonT(30) DEF WorkerType
<1>5. CallerType'
  <2>1. pc' \in {"top", "try", "buffer", "output", "stopped", "drain", "wait", "end"}
    BY <1>1, ZenonT(30) DEF CallerType
  <2> QED BY <1>1, <1>2, <2>1, ZenonT(30) DEF CallerType
<1>6. TypeOK'
  BY <1>2, <1>3, <1>4, <1>5, ZenonT(30)
<1>7. TaskOK' /\ LinkOK' /\ ReportOK' /\ EndOK' /\ OpenOK' /\ DrainedOK'
  BY <1>1, CalmFrame, ZenonT(30)
<1>8. CloseOK'
  BY <1>1, <1>2, ZenonT(30) DEF CloseOK, EdgeType, TaskType, WorkerType, CallerType
<1>9. ContextOK'
  BY <1>1, <1>2, SameGraph, ZenonT(30) DEF ContextOK, Asking
<1>10. CallerOK'
  BY <1>1, <1>2, ZenonT(30) DEF CallerOK, Asking, CallerType
<1> QED BY <1>6, <1>7, <1>8, <1>9, <1>10, ZenonT(30)

(* Close discards what the output still holds.                             *)
LEMMA CloseDrainShut ==
  ASSUME ShutInv, CloseDrain
  PROVE  ShutInv'
<1> USE DEF ShutInv, TypeOK
<1>1. /\ UNCHANGED <<g, open, phase, received, failures, st, todo, buf, pend, bad, errs,
           slot, seen, bag, base, wpc, reqDone, pipeDone, childDone, buffer, delivered,
           failed, full>>
      /\ pc = "drain"
      /\ \/ chan[Out] # <<>> /\ pc' = "drain" /\ chan' = [chan EXCEPT ![Out] = Tail(@)]
         \/ chan[Out] = <<>> /\ ~open[Out] /\ pc' = "wait" /\ chan' = chan
  BY ZenonT(30) DEF CloseDrain, media, network, tasks, sets, ctxs, Go
<1>2. /\ g \in Graphs /\ g' = g /\ Workers' = Workers /\ Edges' = Edges /\ Tasks' = Tasks
      /\ Out' = Out /\ Src' = Src
  BY <1>1, SameGraph, ZenonT(30)
<1>3. TaskType' /\ WorkerType'
  BY <1>1, TypeFrame, ZenonT(30)
<1>4. EdgeType'
  <2>1. chan' \in [Edges -> Seq(Seq(Values))]
    <3>1. chan[Out] \in Seq(Seq(Values))
      BY <1>2, GraphFacts, ZenonT(30) DEF EdgeType
    <3>2. chan[Out] # <<>> => Tail(chan[Out]) \in Seq(Seq(Values))
      BY <3>1, SMT, SMTT(30)
    <3> QED BY <1>1, <3>2, ZenonT(30) DEF EdgeType
  <2> QED BY <1>1, <1>2, <2>1, ZenonT(30) DEF EdgeType
<1>5. CallerType'
  <2>1. pc' \in {"top", "try", "buffer", "output", "stopped", "drain", "wait", "end"}
    BY <1>1, ZenonT(30) DEF CallerType
  <2> QED BY <1>1, <1>2, <2>1, ZenonT(30) DEF CallerType
<1>6. TypeOK'
  BY <1>2, <1>3, <1>4, <1>5, ZenonT(30)
<1>7. TaskOK' /\ LinkOK' /\ ReportOK' /\ EndOK' /\ OpenOK'
  BY <1>1, CalmFrame, ZenonT(30)
<1>8. DrainedOK'
  BY <1>1, <1>2, ZenonT(30) DEF DrainedOK, EdgeType
<1>9. CloseOK'
  BY <1>1, <1>2, ZenonT(30) DEF CloseOK, EdgeType, TaskType, WorkerType, CallerType
<1>10. ContextOK'
  BY <1>1, <1>2, SameGraph, ZenonT(30) DEF ContextOK, Asking
<1>11. CallerOK'
  BY <1>1, <1>2, ZenonT(30) DEF CallerOK, Asking, CallerType
<1> QED BY <1>6, <1>7, <1>8, <1>9, <1>10, <1>11, ZenonT(30)

(* Close waits for all workers, and reports an error it finds in the list. *)
LEMMA CloseWaitShut ==
  ASSUME ShutInv, CloseWait
  PROVE  ShutInv'
<1> USE DEF ShutInv, TypeOK
<1>1. /\ UNCHANGED <<g, chan, open, phase, received, failures, st, todo, buf, pend, bad,
           errs, slot, seen, bag, base, wpc, reqDone, pipeDone, childDone, buffer, delivered,
           full>>
      /\ pc = "wait" /\ pc' = "end" /\ \A w \in Workers : wpc[w] = "end"
      /\ failed' = (failed \/ errs # <<>>)
  BY ZenonT(30) DEF CloseWait, media, network, tasks, sets, ctxs, Go
<1>2. /\ g \in Graphs /\ g' = g /\ Workers' = Workers /\ Edges' = Edges /\ Tasks' = Tasks
      /\ Out' = Out /\ Src' = Src
  BY <1>1, SameGraph, ZenonT(30)
<1>3. EdgeType' /\ TaskType' /\ WorkerType'
  BY <1>1, TypeFrame, ZenonT(30)
<1>4. CallerType'
  <2>1. pc' \in {"top", "try", "buffer", "output", "stopped", "drain", "wait", "end"}
    BY <1>1, ZenonT(30) DEF CallerType
  <2>2. failed' \in BOOLEAN
    <3>1. (failed \/ errs # <<>>) \in BOOLEAN
      BY ZenonT(30)
    <3> QED BY <1>1, <3>1, ZenonT(30)
  <2> QED BY <1>1, <1>2, <2>1, <2>2, ZenonT(30) DEF CallerType
<1>5. TypeOK'
  BY <1>2, <1>3, <1>4, ZenonT(30)
<1>6. TaskOK' /\ LinkOK' /\ ReportOK' /\ EndOK' /\ OpenOK' /\ DrainedOK'
  BY <1>1, CalmFrame, ZenonT(30)
<1>7. CloseOK'
  BY <1>1, <1>2, ZenonT(30) DEF CloseOK, EdgeType, TaskType, WorkerType, CallerType
<1>8. ContextOK'
  BY <1>1, <1>2, SameGraph, ZenonT(30) DEF ContextOK, Asking
<1>9. CallerOK'
  BY <1>1, <1>2, ZenonT(30) DEF CallerOK, Asking, CallerType
<1> QED BY <1>5, <1>6, <1>7, <1>8, <1>9, ZenonT(30)

(* The request is cancelled.                                               *)
LEMMA CancelRequestShut ==
  ASSUME ShutInv, CancelRequest
  PROVE  ShutInv'
<1> USE DEF ShutInv, TypeOK
<1>1. /\ UNCHANGED <<g, chan, open, phase, received, failures, st, todo, buf, pend, bad,
           errs, slot, seen, bag, base, wpc, pipeDone, childDone, pc, buffer, delivered,
           failed, full>>
      /\ reqDone' = TRUE
  BY ZenonT(30) DEF CancelRequest, caller, media, network, tasks, sets
<1>2. /\ g \in Graphs /\ g' = g /\ Workers' = Workers /\ Edges' = Edges /\ Tasks' = Tasks
      /\ Out' = Out /\ Src' = Src
  BY <1>1, SameGraph, ZenonT(30)
<1>3. EdgeType' /\ TaskType' /\ CallerType'
  BY <1>1, TypeFrame, ZenonT(30)
<1>4. WorkerType'
  <2>1. reqDone' \in BOOLEAN
    BY <1>1, ZenonT(30) DEF WorkerType
  <2> QED BY <1>1, <1>2, <2>1, ZenonT(30) DEF WorkerType
<1>5. TypeOK'
  BY <1>2, <1>3, <1>4, ZenonT(30)
<1>6. TaskOK' /\ LinkOK' /\ ReportOK' /\ EndOK' /\ OpenOK' /\ DrainedOK' /\ CloseOK' /\ CallerOK'
  BY <1>1, CalmFrame, ZenonT(30)
<1>7. ContextOK'
  BY <1>1, <1>2, SameGraph, ZenonT(30) DEF ContextOK, Asking
<1> QED BY <1>5, <1>6, <1>7, ZenonT(30)

(* The cancellation reaches the pipeline.                                  *)
LEMMA CancelPipeShut ==
  ASSUME ShutInv, CancelPipe
  PROVE  ShutInv'
<1> USE DEF ShutInv, TypeOK
<1>1. /\ UNCHANGED <<g, chan, open, phase, received, failures, st, todo, buf, pend, bad,
           errs, slot, seen, bag, base, wpc, reqDone, childDone, pc, buffer, delivered,
           failed, full>>
      /\ reqDone /\ pipeDone' = TRUE
  BY ZenonT(30) DEF CancelPipe, caller, media, network, tasks, sets
<1>2. /\ g \in Graphs /\ g' = g /\ Workers' = Workers /\ Edges' = Edges /\ Tasks' = Tasks
      /\ Out' = Out /\ Src' = Src
  BY <1>1, SameGraph, ZenonT(30)
<1>3. EdgeType' /\ TaskType' /\ CallerType'
  BY <1>1, TypeFrame, ZenonT(30)
<1>4. WorkerType'
  <2>1. pipeDone' \in BOOLEAN
    BY <1>1, ZenonT(30) DEF WorkerType
  <2> QED BY <1>1, <1>2, <2>1, ZenonT(30) DEF WorkerType
<1>5. TypeOK'
  BY <1>2, <1>3, <1>4, ZenonT(30)
<1>6. TaskOK' /\ LinkOK' /\ ReportOK' /\ EndOK' /\ OpenOK' /\ DrainedOK' /\ CloseOK' /\ CallerOK'
  BY <1>1, CalmFrame, ZenonT(30)
<1>7. ContextOK'
  BY <1>1, <1>2, SameGraph, ZenonT(30) DEF ContextOK, Asking
<1> QED BY <1>5, <1>6, <1>7, ZenonT(30)

(* The cancellation reaches a worker with a context of its own.            *)
LEMMA CancelChildShut ==
  ASSUME ShutInv, NEW w \in Workers, CancelChild(w)
  PROVE  ShutInv'
<1> USE DEF ShutInv, TypeOK
<1>1. /\ UNCHANGED <<g, chan, open, phase, received, failures, st, todo, buf, pend, bad,
           errs, slot, seen, bag, base, wpc, reqDone, pipeDone, pc, buffer, delivered, failed,
           full>>
      /\ OwnContext(w) /\ childDone' = [childDone EXCEPT ![w] = TRUE]
  BY ZenonT(30) DEF CancelChild, caller, media, network, tasks, sets
<1>2. /\ g \in Graphs /\ g' = g /\ Workers' = Workers /\ Edges' = Edges /\ Tasks' = Tasks
      /\ Out' = Out /\ Src' = Src
  BY <1>1, SameGraph, ZenonT(30)
<1>3. EdgeType' /\ TaskType' /\ CallerType'
  BY <1>1, TypeFrame, ZenonT(30)
<1>4. WorkerType'
  <2>1. childDone' \in [Workers -> BOOLEAN]
    BY <1>1, ZenonT(30) DEF WorkerType
  <2> QED BY <1>1, <1>2, <2>1, ZenonT(30) DEF WorkerType
<1>5. TypeOK'
  BY <1>2, <1>3, <1>4, ZenonT(30)
<1>6. TaskOK' /\ LinkOK' /\ ReportOK' /\ EndOK' /\ OpenOK' /\ DrainedOK' /\ CloseOK' /\ CallerOK'
  BY <1>1, CalmFrame, ZenonT(30)
<1>7. ContextOK'
  <2>1. \A x \in Workers : childDone'[x] => OwnContext(x)
    BY <1>1, ZenonT(30) DEF ContextOK, WorkerType
  <2> QED BY <1>1, <1>2, <2>1, SameGraph, ZenonT(30) DEF ContextOK, Asking
<1> QED BY <1>5, <1>6, <1>7, ZenonT(30)

(* The invariant holds initially.                                          *)
LEMMA InitShut ==
  ASSUME Init
  PROVE  ShutInv
<1>1. /\ g \in Graphs
      /\ chan = [e \in Edges |-> IF Seeds[e] = <<>> THEN <<>> ELSE <<Seeds[e]>>]
      /\ phase = [e \in Edges |-> IF e = Out THEN "done" ELSE "recv"]
      /\ received = [e \in Edges |-> {}] /\ failures = [e \in Edges |-> 0]
  BY ZenonT(30) DEF Init
<1>2. /\ st = [t \in Tasks |-> "idle"] /\ todo = [t \in Tasks |-> {}] /\ buf = [t \in Tasks |-> <<>>]
      /\ pend = [t \in Tasks |-> {}] /\ bad = [t \in Tasks |-> FALSE]
      /\ errs = <<>> /\ slot = [t \in Tasks |-> 0]
  BY ZenonT(30) DEF Init
<1>3. /\ seen = [w \in Workers |-> {}] /\ bag = [e \in Edges |-> {}] /\ base = [w \in Workers |-> <<>>]
      /\ wpc = [w \in Workers |-> "run"] /\ childDone = [w \in Workers |-> FALSE]
      /\ reqDone = FALSE /\ pipeDone = FALSE
  BY ZenonT(30) DEF Init
<1>4. pc = "top" /\ buffer = <<>> /\ delivered = <<>> /\ failed = FALSE /\ full = FALSE
  BY ZenonT(30) DEF Init
<1>5. open = [e \in Edges |-> Src[e] # None]
  BY ZenonT(30) DEF Init
<1>6. open \in [Edges -> BOOLEAN]
  BY <1>5, ZenonT(30)
<1>7. \A e \in Edges : open[e] <=> Src[e] # None
  BY <1>5, ZenonT(30)
<1>8. /\ Out \in Edges /\ None \notin Workers /\ Seeds \in [Edges -> Seq(Values)]
      /\ \A e \in Edges : Src[e] # None => Src[e] \in Workers
  BY <1>1, GraphFacts, ZenonT(30)
<1>9. EdgeType
  <2>1. <<>> \in Seq(Seq(Values)) /\ \A e \in Edges : <<Seeds[e]>> \in Seq(Seq(Values))
    BY <1>8, SMT, SMTT(30)
  <2>2. chan \in [Edges -> Seq(Seq(Values))]
    BY <1>1, <2>1, ZenonT(30)
  <2>3. /\ phase \in [Edges -> {"recv", "join", "drain", "done"}]
        /\ received \in [Edges -> SUBSET Values] /\ failures \in [Edges -> Nat]
    BY <1>1, ZenonT(30)
  <2> QED BY <1>6, <2>2, <2>3, ZenonT(30) DEF EdgeType
<1>10. TaskType
  <2>1. <<>> \in Seq(Values) /\ errs \in Seq(BOOLEAN)
    BY <1>2, SMT, SMTT(30)
  <2> QED BY <1>2, <2>1, ZenonT(30) DEF TaskType
<1>11. WorkerType
  <2>1. <<>> \in Seq(Values)
    BY SMT, SMTT(30)
  <2> QED BY <1>3, <2>1, ZenonT(30) DEF WorkerType
<1>12. CallerType
  <2>1. <<>> \in Seq(Values)
    BY SMT, SMTT(30)
  <2> QED BY <1>4, <2>1, ZenonT(30) DEF CallerType
<1>13. TaskOK
  BY <1>1, <1>2, <1>3, TaskForms, ZenonT(30) DEF TaskOK, TaskFine
<1>14. LinkOK
  BY <1>2, ZenonT(30) DEF LinkOK
<1>15. ReportOK
  BY <1>1, SMT, SMTT(30) DEF ReportOK
<1>16. EndOK
  BY <1>1, <1>3, <1>8, ZenonT(30) DEF EndOK
<1>17. OpenOK
  BY <1>3, <1>7, <1>8, ZenonT(30) DEF OpenOK
<1>18. DrainedOK
  BY <1>1, ZenonT(30) DEF DrainedOK
<1>19. CloseOK /\ ContextOK /\ CallerOK
  BY <1>3, <1>4, ZenonT(30) DEF CloseOK, ContextOK, CallerOK
<1>20. TypeOK
  BY <1>1, <1>9, <1>10, <1>11, <1>12, ZenonT(30) DEF TypeOK
<1> QED BY <1>13, <1>14, <1>15, <1>16, <1>17, <1>18, <1>19, <1>20, ZenonT(30) DEF ShutInv

(* And when nothing happens.                                               *)
LEMMA StutterShut ==
  ASSUME ShutInv, UNCHANGED vars
  PROVE  ShutInv'
<1>1. UNCHANGED <<g, chan, open, phase, received, failures, st, todo, buf, pend, bad, errs, slot>>
  BY ZenonT(30) DEF vars
<1>2. UNCHANGED <<g, seen, bag, base, wpc, reqDone, pipeDone, childDone, pc, buffer, delivered,
                  failed, full>>
  BY ZenonT(30) DEF vars
<1>3. TypeOK'
  BY <1>1, <1>2, TypeFrame, ZenonT(30) DEF ShutInv, TypeOK
<1> QED BY <1>1, <1>2, <1>3, CalmFrame, ZenonT(30) DEF ShutInv

(* Every step of a processing goroutine keeps the invariant.               *)
LEMMA ProcessShut ==
  ASSUME ShutInv, NEW e \in Edges \ {Out}, NEW p \in Procs, Process(e, p)
  PROVE  ShutInv'
<1>1. <<e, p>> \in Tasks
  BY TaskForms, ZenonT(30) DEF ShutInv, TypeOK
<1>2. CASE Take(e, p) \/ Result(e, p) \/ ReadFails(e, p) \/ MessageDone(e, p)
  BY <1>2, TakeShut, ResultShut, ReadFailsShut, MessageDoneShut, ZenonT(30)
<1>3. CASE CutShort(<<e, p>>) \/ Flush(<<e, p>>)
  BY <1>1, <1>3, CutShortShut, FlushShut, ZenonT(30)
<1>4. CASE Send(<<e, p>>)
  BY <1>1, <1>4, SendShut, ZenonT(30)
<1>5. CASE ReportCas(<<e, p>>) \/ ReportLink(<<e, p>>)
  BY <1>1, <1>5, ReportCasShut, ReportLinkShut, ZenonT(30)
<1> QED BY <1>2, <1>3, <1>4, <1>5, ZenonT(30) DEF Process

(* Every step of a sender does.                                            *)
LEMMA ProcessSenderShut ==
  ASSUME ShutInv, NEW e \in Edges \ {Out}, ProcessSender(e)
  PROVE  ShutInv'
BY StopRecvShut, JoinShut, DrainShut, SenderDoneShut, ZenonT(30) DEF ProcessSender

(* Every step of a worker does.                                            *)
LEMMA ExecuteShut ==
  ASSUME ShutInv, NEW w \in Workers, Execute(w)
  PROVE  ShutInv'
<1>1. <<w, 0>> \in Tasks
  BY TaskForms, ZenonT(30) DEF ShutInv, TypeOK
<1>2. CASE Gather(w)
  BY <1>2, GatherEmitShut, GatherQuietShut, ZenonT(30)
<1>3. CASE EmitOwn(w) \/ EmitBase(w) \/ EmitDone(w) \/ Return(w)
  BY <1>3, EmitOwnShut, EmitBaseShut, EmitDoneShut, ReturnShut, ZenonT(30)
<1>4. CASE CutShort(<<w, 0>>) \/ Flush(<<w, 0>>)
  BY <1>1, <1>4, CutShortShut, FlushShut, ZenonT(30)
<1>5. CASE Send(<<w, 0>>)
  BY <1>1, <1>5, SendShut, ZenonT(30)
<1> QED BY <1>2, <1>3, <1>4, <1>5, ZenonT(30) DEF Execute

(* Every step of the caller and of the contexts does.                      *)
LEMMA CallerShut ==
  ASSUME ShutInv,
         \/ Recv \/ CallClose \/ CloseDrain \/ CloseWait
         \/ CancelRequest \/ CancelPipe \/ \E w \in Workers : CancelChild(w)
  PROVE  ShutInv'
<1>1. CASE Recv
  BY <1>1, RecvTopShut, RecvTryShut, RecvBufferShut, RecvOutputShut, ZenonT(30) DEF Recv
<1>2. CASE CallClose \/ CloseDrain \/ CloseWait
  BY <1>2, CallCloseShut, CloseDrainShut, CloseWaitShut, ZenonT(30)
<1>3. CASE CancelRequest \/ CancelPipe \/ \E w \in Workers : CancelChild(w)
  BY <1>3, CancelRequestShut, CancelPipeShut, CancelChildShut, ZenonT(30)
<1> QED BY <1>1, <1>2, <1>3, ZenonT(30)

(* Every step does.                                                        *)
LEMMA NextShut ==
  ASSUME ShutInv, [Next]_vars
  PROVE  ShutInv'
BY ProcessShut, ProcessSenderShut, ExecuteShut, CallerShut, StutterShut, ZenonT(30) DEF Next

(* The inductive invariant holds in every reachable state: goroutines,     *)
(* senders, workers and the caller end in this order (Execute of the       *)
(* workers, ProcessSender, Close).                                         *)
THEOREM ShutdownOrderly == Spec => []ShutInv
<1>1. Init => ShutInv
  BY InitShut, ZenonT(30)
<1>2. ShutInv /\ [Next]_vars => ShutInv'
  BY NextShut, ZenonT(30)
<1> QED BY <1>1, <1>2, PTL DEF Spec

(* When the pipeline has ended after a read failed, the caller was told of *)
(* an error, also when several goroutines raced to report theirs           *)
(* (reporting in the workers, Recv and Close).                             *)
THEOREM ErrorsSurface == Spec => []ErrorSurfaces
<1>1. ShutInv => ErrorSurfaces
  <2> SUFFICES ASSUME ShutInv, pc = "end", ~failed, NEW e \in Edges, failures[e] # 0
               PROVE  FALSE
    BY ZenonT(30) DEF ErrorSurfaces
  <2>1. errs = <<>>
    BY ZenonT(30) DEF ShutInv, CloseOK
  <2>2. failures[e] > 0
    BY SMT, SMTT(30) DEF ShutInv, TypeOK, EdgeType
  <2>3. PICK t \in Tasks : st[t] = "cas"
    BY <2>1, <2>2, ZenonT(30) DEF ShutInv, ReportOK
  <2> QED BY <2>3, Active, ZenonT(30)
<1> QED BY <1>1, ShutdownOrderly, PTL

(* Close leaves no goroutine, no message and no open channel behind.       *)
THEOREM CloseLeavesNothing == Spec => []NothingLeft
<1>1. ShutInv => NothingLeft
  <2> SUFFICES ASSUME ShutInv, pc = "end"
               PROVE  /\ \A t \in Tasks : st[t] = "idle"
                      /\ \A w \in Workers : wpc[w] = "end"
                      /\ \A e \in Edges : phase[e] = "done" /\ chan[e] = <<>> /\ ~open[e]
    BY ZenonT(30) DEF NothingLeft
  <2>1. \A t \in Tasks : st[t] = "idle"
    BY Active, ZenonT(30)
  <2>2. \A w \in Workers : wpc[w] = "end"
    BY ZenonT(30) DEF ShutInv, CloseOK
  <2>3. ASSUME NEW e \in Edges
        PROVE  phase[e] = "done" /\ chan[e] = <<>> /\ ~open[e]
    <3>1. CASE e = Out
      BY <3>1, ZenonT(30) DEF ShutInv, CloseOK, EndOK
    <3>2. CASE e # Out
      <4>1. Dst[e] \in Workers /\ e \in Senders(Dst[e])
        BY <3>2, GraphFacts, ZenonT(30) DEF ShutInv, TypeOK, Senders
      <4>2. phase[e] = "done"
        BY <2>2, <4>1, ZenonT(30) DEF ShutInv, EndOK, SendersDone
      <4> QED BY <3>2, <4>2, ZenonT(30) DEF ShutInv, DrainedOK
    <3> QED BY <3>1, <3>2, ZenonT(30)
  <2> QED BY <2>1, <2>2, <2>3, ZenonT(30)
<1> QED BY <1>1, ShutdownOrderly, PTL

=============================================================================
