----------------------- MODULE SharedIteratorsProofs -----------------------
(***************************************************************************)
(* What the shared iterators and the bounded reader promise, for any       *)
(* number of clients, requests, rows, buffer size and limit.  That every   *)
(* step keeps the inductive invariant is in SharedIteratorsSteps.          *)
(***************************************************************************)
EXTENDS SharedIteratorsSteps, FiniteSetTheorems

-----------------------------------------------------------------------------
(* The actions, in terms of the steps above. *)

\* Goto is an assignment that leaves the result as it was.
LEMMA GotoIs ==
  ASSUME TypeOK, NEW c \in Clients, NEW p, Goto(c, p)
  PROVE  cl' = [cl EXCEPT ![c] = SetPcRes(cl[c], p, cl[c].res)]
<1>1. PICK r : r = cl[c]
  BY ZenonT(30)
<1>2. r \in ClientRec
  BY <1>1, ZenonT(30) DEF TypeOK
<1>3. [r EXCEPT !.pc = p] = SetPcRes(r, p, r.res)
  BY <1>2, ZenonT(30) DEF ClientRec, SetPcRes
<1>4. cl' = [cl EXCEPT ![c] = [cl[c] EXCEPT !.pc = p]]
  BY ZenonT(30) DEF Goto
<1> QED
  BY <1>1, <1>3, <1>4, ZenonT(30)

\* A failed read keeps the invariant (ReadFails).
LEMMA ReadFailsKeeps ==
  ASSUME SharedAssumption, ClientSets, CoreInv, NEW c \in Clients, ReadFails(c), cl[c].pc \in OpenPcs \cup InnerPcs,
         UNCHANGED <<load, entry, ctxDone, db>>, faults' \in Nat, faults' <= faults,
         Owner(c) \in ctxDone \/ faults' < faults
  PROVE  CoreInv'
<1>1. TypeOK /\ faults \in Nat /\ faults <= load.faults /\ load.faults \in Nat
      /\ entry' \in [Ops -> Clients \cup {None}]
  BY ZenonT(30) DEF CoreInv, TypeOK, SharedAssumption
<1>2. CASE cl[c].pc \in InnerPcs
  <2>1. Owner(c) = c
    BY <1>2, ZenonT(30) DEF Owner, InnerPcs
  <2>2. Finish(c, "error") /\ item' = item
    BY <1>2, <2>1, ZenonT(30) DEF ReadFails, InnerPcs
  <2>3. cl' = [cl EXCEPT ![c] = SetPcRes(cl[c], "stop", "error")]
    BY <2>2, ZenonT(30) DEF Finish, SetPcRes
  <2>4. c \in ctxDone \/ faults' < load.faults
    BY <1>1, <2>1, SMT, SMTT(30)
  <2>5. Moves(c, "stop", "error")
    BY <1>1, <1>2, <2>2, <2>3, <2>4, ZenonT(30) DEF Moves
  <2> QED
    BY <2>5, PcMove, ZenonT(30)
<1>3. CASE cl[c].pc \in OpenPcs
  <2>1. Goto(c, "unwrap") /\ item' = [item EXCEPT ![cl[c].item] = SetSt(item[cl[c].item], "failed")]
    BY <1>3, ZenonT(30) DEF ReadFails, OpenPcs, SetSt
  <2>2. cl' = [cl EXCEPT ![c] = SetPcRes(cl[c], "unwrap", cl[c].res)]
    BY <1>1, <2>1, GotoIs, ZenonT(30)
  <2>3. Opens(c, "unwrap", "failed")
    BY <1>3, <2>1, <2>2, ZenonT(30) DEF Opens
  <2> QED
    BY <2>3, OpensKeeps, ZenonT(30)
<1> QED
  BY <1>2, <1>3, ZenonT(30)

\* A wait that goes on keeps the invariant.
LEMMA GotoKeeps ==
  ASSUME SharedAssumption, ClientSets, CoreInv, NEW c \in Clients, NEW p, Goto(c, p),
         UNCHANGED <<load, entry, item, ctxDone, db, faults>>,
         \/ cl[c].pc \in InnerPcs \cup {"unwrap"} /\ p \in InnerPcs
         \/ cl[c].pc \in OpenPcs /\ p \in OpenPcs
  PROVE  CoreInv'
<1>1. TypeOK /\ faults \in Nat /\ entry' \in [Ops -> Clients \cup {None}]
  BY ZenonT(30) DEF CoreInv, TypeOK
<1>2. faults' \in Nat /\ faults' <= faults
  BY <1>1, SMT, SMTT(30)
<1>3. cl' = [cl EXCEPT ![c] = SetPcRes(cl[c], p, cl[c].res)]
  BY <1>1, GotoIs, ZenonT(30)
<1>4. Moves(c, p, cl[c].res)
  BY <1>1, <1>2, <1>3, ZenonT(30) DEF Moves
<1> QED
  BY <1>4, PcMove, ZenonT(30)

\* The end of a client's work keeps the invariant (Finish).
LEMMA FinishKeeps ==
  ASSUME SharedAssumption, ClientSets, CoreInv, NEW c \in Clients, NEW res \in {"done", "error", "left"}, Finish(c, res),
         UNCHANGED <<load, item, ctxDone, db, faults>>,
         entry' \in [Ops -> Clients \cup {None}], \A op \in Ops : entry'[op] # None => entry'[op] = entry[op],
         cl[c].pc \in InnerPcs \cup {"unwrap", "reading"},
         res = "done" => Len(cl[c].got) = Rows,
         res = "error" => c \in ctxDone \/ faults < load.faults
                          \/ (cl[c].item # None /\ item[cl[c].item].st = "failed")
  PROVE  CoreInv'
<1>1. faults \in Nat
  BY ZenonT(30) DEF CoreInv, TypeOK
<1>2. faults' \in Nat /\ faults' <= faults
  BY <1>1, SMT, SMTT(30)
<1>3. cl' = [cl EXCEPT ![c] = SetPcRes(cl[c], "stop", res)]
  BY ZenonT(30) DEF Finish, SetPcRes
<1>4. Moves(c, "stop", res)
  BY <1>2, <1>3, ZenonT(30) DEF Moves
<1> QED
  BY <1>4, PcMove, ZenonT(30)

\* A client that bypasses the sharing reads its own rows (InnerRead).
ReadsOwn(c) ==
  /\ cl[c].pc = "innerRead"
  /\ cl' = [cl EXCEPT ![c] = SetPcResVerGot(cl[c], "stop", "done", db, [n \in 1..Rows |-> n])]
  /\ UNCHANGED <<load, entry, item, ctxDone, db, faults>>

\* Such a read keeps the invariant: all rows, of the present version.
LEMMA ReadsOwnKeeps ==
  ASSUME SharedAssumption, ClientSets, CoreInv, NEW c \in Clients, ReadsOwn(c)
  PROVE  CoreInv'
<1>f. ASSUME NEW r0 \in ClientRec, NEW p0, NEW o0, NEW w0, NEW g0
      PROVE  /\ SetPcResVerGot(r0, p0, o0, w0, g0).pc = p0 /\ SetPcResVerGot(r0, p0, o0, w0, g0).item = r0.item /\ SetPcResVerGot(r0, p0, o0, w0, g0).shares = r0.shares
             /\ SetPcResVerGot(r0, p0, o0, w0, g0).head = r0.head /\ SetPcResVerGot(r0, p0, o0, w0, g0).got = g0 /\ SetPcResVerGot(r0, p0, o0, w0, g0).ver = w0
             /\ SetPcResVerGot(r0, p0, o0, w0, g0).began = r0.began /\ SetPcResVerGot(r0, p0, o0, w0, g0).res = o0
             /\ p0 \in Pcs /\ o0 \in {"none", "done", "error", "left"} /\ w0 \in Nat \cup {None} /\ g0 \in Seq(Nat) => SetPcResVerGot(r0, p0, o0, w0, g0) \in ClientRec
  BY ZenonT(30) DEF ClientRec, SetPcResVerGot
<1>0. UNCHANGED <<load, entry, item, ctxDone, db, faults>> /\ cl[c].pc = "innerRead"
  BY ZenonT(30) DEF ReadsOwn
<1>1. TypeOK /\ cl[c] \in ClientRec /\ db \in Nat /\ faults \in Nat /\ Rows \in Nat
  BY ZenonT(30) DEF CoreInv, TypeOK, SharedAssumption
<1>2. ClientOK(c) /\ GotOK(c) /\ ItemOfOK(c) /\ ErrorOK(c) /\ BeganOK(c)
  BY ZenonT(30) DEF CoreInv, ClientsOK
<1>3. PICK g : g = [n \in 1..Rows |-> n]
  BY ZenonT(30)
<1>4. g \in Seq(Nat) /\ Len(g) = Rows /\ \A n \in 1..Len(g) : g[n] = n
  BY <1>1, <1>3, SMT, SMTT(30)
<1>5. cl' = [cl EXCEPT ![c] = SetPcResVerGot(cl[c], "stop", "done", db, g)]
  BY <1>3, ZenonT(30) DEF ReadsOwn
<1>6. SetPcResVerGot(cl[c], "stop", "done", db, g) \in ClientRec
  <2>1. "stop" \in Pcs
    BY ZenonT(30) DEF Pcs
  <2> QED
    BY <1>1, <1>4, <2>1, <1>f, ZenonT(30)
<1>7. cl' \in [Clients -> ClientRec] /\ cl'[c] = SetPcResVerGot(cl[c], "stop", "done", db, g)
      /\ \A d \in Clients \ {c} : cl'[d] = cl[d]
  BY <1>1, <1>5, <1>6, ClientSet, ZenonT(30)
<1>8. /\ cl'[c].pc = "stop" /\ cl'[c].res = "done" /\ cl'[c].item = cl[c].item
      /\ cl'[c].shares = cl[c].shares /\ cl'[c].head = cl[c].head /\ cl'[c].got = g
      /\ cl'[c].ver = db /\ cl'[c].began = cl[c].began
  BY <1>1, <1>7, <1>f, SMT, SMTT(30)
<1>9. TypeOK'
  BY <1>0, <1>1, <1>7, ZenonT(30) DEF TypeOK
<1>10. OneProducer'
  BY <1>7, <1>8, ProducersKeep, ZenonT(30) DEF OpenPcs
<1>11. EntriesOK'
  BY <1>0, EntriesKeep, ZenonT(30)
<1>12. Around(Clients \ {c}, Clients)
  <2>1. \A j \in Clients : item[j].pos \in Nat
    BY <1>1, ZenonT(30) DEF TypeOK, ItemRec
  <2>2. \A j \in Clients : Keeps(j, Clients \ {c})
    BY <1>0, <2>1, SMT, SMTT(30) DEF Keeps
  <2>3. db <= db' /\ faults' <= faults
    BY <1>0, <1>1, SMT, SMTT(30)
  <2>4. cl'[c].pc \notin {"start", "store"} /\ cl[c].pc # "fetching"
    BY <1>0, <1>8, ZenonT(30)
  <2> QED
    BY <1>0, <1>7, <1>8, <2>2, <2>3, <2>4, ZenonT(30) DEF Around
<1>13. ~cl[c].shares /\ c \in Active
  BY <1>0, <1>2, ZenonT(30) DEF ClientOK, HeadPcs
<1>14. ClientOK(c)'
  BY <1>0, <1>8, <1>13, ZenonT(30) DEF ClientOK, Active, HeadPcs, OpenPcs
<1>15. GotOK(c)' /\ ErrorOK(c)'
  BY <1>4, <1>8, ZenonT(30) DEF GotOK, ErrorOK
<1>16. ItemOfOK(c)'
  BY <1>0, <1>2, <1>8, <1>13, ZenonT(30) DEF ItemOfOK, HeadPcs, OpenPcs
<1>17. BeganOK(c)'
  <2>1. cl'[c].ver \in Nat /\ cl'[c].ver >= cl'[c].began.ver
    <3>1. cl[c].began.ver \in Nat /\ cl[c].began.ver <= db
      BY <1>1, <1>2, ZenonT(30) DEF ClientRec, BeganOK
    <3> QED
      BY <1>1, <1>8, <3>1, ZenonT(30)
  <2> QED
    BY <1>0, <1>2, <1>8, <2>1, ZenonT(30) DEF BeganOK, Active
<1> QED
  BY <1>9, <1>10, <1>11, <1>12, <1>14, <1>15, <1>16, <1>17, ClientOnlyStep, ZenonT(30)

\* Unwrap keeps the invariant.
LEMMA UnwrapKeeps ==
  ASSUME SharedAssumption, ClientSets, CoreInv, NEW c \in Clients, Unwrap(c)
  PROVE  CoreInv'
<1>0. UNCHANGED <<load, ctxDone, db, faults>> /\ cl[c].pc = "unwrap"
  BY ZenonT(30) DEF Unwrap
<1>1. TypeOK /\ entry \in [Ops -> Clients \cup {None}] /\ cl[c].item # None
  BY <1>0, ZenonT(30) DEF CoreInv, TypeOK, ClientsOK, ClientOK
<1>2. CASE item[cl[c].item].st = "failed"
  <2>1. entry' = [entry EXCEPT ![Op(c)] = IF entry[Op(c)] = c THEN None ELSE entry[Op(c)]]
        /\ Finish(c, "error") /\ item' = item
    BY <1>2, ZenonT(30) DEF Unwrap
  <2>2. entry' \in [Ops -> Clients \cup {None}] /\ \A op \in Ops : entry'[op] # None => entry'[op] = entry[op]
    BY <1>1, <2>1, ZenonT(30)
  <2> QED
    BY <1>0, <1>1, <1>2, <2>1, <2>2, FinishKeeps, ZenonT(30)
<1>3. CASE item[cl[c].item].st = "ready" /\ item[cl[c].item].stopped
  <2>1. Goto(c, "inner") /\ UNCHANGED <<entry, item>>
    BY <1>3, ZenonT(30) DEF Unwrap
  <2>2. "inner" \in InnerPcs
    BY ZenonT(30) DEF InnerPcs
  <2> QED
    BY <1>0, <2>1, <2>2, GotoKeeps, ZenonT(30)
<1>4. CASE item[cl[c].item].st = "ready" /\ ~item[cl[c].item].stopped
  <2>1. /\ item' = [item EXCEPT ![cl[c].item] = clone(item[cl[c].item])]
        /\ cl' = [cl EXCEPT ![c] = SetPcShares(cl[c], "reading")]
        /\ entry' = entry
    BY <1>4, ZenonT(30) DEF Unwrap, SetPcShares
  <2>2. Clones(c)
    BY <1>0, <1>4, <2>1, ZenonT(30) DEF Clones
  <2> QED
    BY <2>2, ClonesKeeps, ZenonT(30)
<1> QED
  BY <1>2, <1>3, <1>4, ZenonT(30) DEF Unwrap

\* Produce keeps the invariant.
LEMMA ProduceKeeps ==
  ASSUME SharedAssumption, ClientSets, CoreInv, NEW c \in Clients, Produce(c)
  PROVE  CoreInv'
<1>1. TypeOK /\ faults \in Nat /\ faults <= faults
  BY SMT, SMTT(30) DEF CoreInv, TypeOK
<1>2. cl' = [cl EXCEPT ![c] = SetPcRes(cl[c], "open", cl[c].res)]
  BY <1>1, GotoIs, ZenonT(30) DEF Produce
<1>3. item' = [item EXCEPT ![cl[c].item] = SetSt(item[cl[c].item], "producing")]
  BY ZenonT(30) DEF Produce, SetSt
<1>4. Opens(c, "open", "producing")
  BY <1>1, <1>2, <1>3, ZenonT(30) DEF Opens, Produce
<1> QED
  BY <1>4, OpensKeeps, ZenonT(30)

\* bound keeps the invariant.
LEMMA boundKeeps ==
  ASSUME SharedAssumption, ClientSets, CoreInv, NEW c \in Clients, bound(c)
  PROVE  CoreInv'
<1>0. UNCHANGED <<load, entry, ctxDone, db, faults>> /\ cl[c].pc \in {"open", "inner"}
  BY ZenonT(30) DEF bound, WaitPc
<1>1. faults \in Nat /\ faults' \in Nat /\ faults' <= faults
  BY <1>0, SMT, SMTT(30) DEF CoreInv, TypeOK
<1>2. CASE Owner(c) \in ctxDone /\ ReadFails(c)
  BY <1>0, <1>1, <1>2, ReadFailsKeeps, ZenonT(30) DEF OpenPcs, InnerPcs
<1>3. CASE item' = item /\ \E p \in {ThrottledPc(cl[c].pc), ReadPc(cl[c].pc)} : Goto(c, p)
  <2>1. PICK p \in {ThrottledPc(cl[c].pc), ReadPc(cl[c].pc)} : Goto(c, p)
    BY <1>3, ZenonT(30)
  <2>2. \/ cl[c].pc \in InnerPcs /\ p \in InnerPcs
        \/ cl[c].pc \in OpenPcs /\ p \in OpenPcs
    BY <1>0, <2>1, ZenonT(30) DEF ThrottledPc, ReadPc, InnerPcs, OpenPcs
  <2> QED
    BY <1>0, <1>3, <2>1, <2>2, GotoKeeps, ZenonT(30)
<1> QED
  BY <1>2, <1>3, ZenonT(30) DEF bound

\* Throttled keeps the invariant.
LEMMA ThrottledKeeps ==
  ASSUME SharedAssumption, ClientSets, CoreInv, NEW c \in Clients, Throttled(c)
  PROVE  CoreInv'
<1>0. UNCHANGED <<load, entry, ctxDone, db, faults>> /\ cl[c].pc \in {"openThrottled", "innerThrottled"}
  BY ZenonT(30) DEF Throttled
<1>1. faults \in Nat /\ faults' \in Nat /\ faults' <= faults
  BY <1>0, SMT, SMTT(30) DEF CoreInv, TypeOK
<1>2. CASE Owner(c) \in ctxDone /\ ReadFails(c)
  BY <1>0, <1>1, <1>2, ReadFailsKeeps, ZenonT(30) DEF OpenPcs, InnerPcs
<1>3. CASE item' = item /\ Goto(c, ReadPc(cl[c].pc))
  <2>1. PICK p : p = ReadPc(cl[c].pc)
    BY ZenonT(30)
  <2>2. \/ cl[c].pc \in InnerPcs /\ p \in InnerPcs
        \/ cl[c].pc \in OpenPcs /\ p \in OpenPcs
    BY <1>0, <2>1, ZenonT(30) DEF ReadPc, InnerPcs, OpenPcs
  <2> QED
    BY <1>0, <1>3, <2>1, <2>2, GotoKeeps, ZenonT(30)
<1> QED
  BY <1>2, <1>3, ZenonT(30) DEF Throttled

\* InnerRead keeps the invariant.
LEMMA InnerReadKeeps ==
  ASSUME SharedAssumption, ClientSets, CoreInv, NEW c \in Clients, InnerRead(c)
  PROVE  CoreInv'
<1>0. UNCHANGED <<load, entry, ctxDone, db>> /\ cl[c].pc \in {"openRead", "innerRead"}
  BY ZenonT(30) DEF InnerRead
<1>1. TypeOK /\ faults \in Nat
  BY ZenonT(30) DEF CoreInv, TypeOK
<1>2. CASE faults > 0 /\ faults' = faults - 1 /\ ReadFails(c)
  <2>1. faults' \in Nat /\ faults' <= faults /\ faults' < faults
    BY <1>1, <1>2, SMT, SMTT(30)
  <2> QED
    BY <1>0, <1>2, <2>1, ReadFailsKeeps, ZenonT(30) DEF OpenPcs, InnerPcs
<1>3. CASE /\ faults' = faults /\ cl[c].pc = "innerRead"
           /\ cl' = [cl EXCEPT ![c].pc = "stop", ![c].res = "done", ![c].ver = db, ![c].got = [n \in 1..Rows |-> n]]
           /\ item' = item
  <2>1. cl' = [cl EXCEPT ![c] = SetPcResVerGot(cl[c], "stop", "done", db, [n \in 1..Rows |-> n])]
    BY <1>3, ZenonT(30) DEF SetPcResVerGot
  <2>2. ReadsOwn(c)
    BY <1>0, <1>3, <2>1, ZenonT(30) DEF ReadsOwn
  <2> QED
    BY <2>2, ReadsOwnKeeps, ZenonT(30)
<1>4. CASE /\ faults' = faults /\ cl[c].pc # "innerRead"
           /\ item' = [item EXCEPT ![cl[c].item] = newSharedIterator(item[cl[c].item])]
           /\ Goto(c, "unwrap")
  <2>1. cl' = [cl EXCEPT ![c] = SetPcRes(cl[c], "unwrap", cl[c].res)]
    BY <1>1, <1>4, GotoIs, ZenonT(30)
  <2>2. Ready(c)
    BY <1>0, <1>4, <2>1, ZenonT(30) DEF Ready, OpenPcs
  <2> QED
    BY <2>2, ReadyKeeps, ZenonT(30)
<1> QED
  BY <1>2, <1>3, <1>4, ZenonT(30) DEF InnerRead

\* NextItem keeps the invariant: the end comes after the last row.
LEMMA NextItemKeeps ==
  ASSUME SharedAssumption, ClientSets, CoreInv, NEW c \in Clients, NextItem(c)
  PROVE  CoreInv'
<1>0. UNCHANGED <<load, entry, ctxDone, db, faults>> /\ cl[c].pc = "reading"
  BY ZenonT(30) DEF NextItem
<1>1. TypeOK /\ entry' \in [Ops -> Clients \cup {None}] /\ cl[c] \in ClientRec
  BY <1>0, ZenonT(30) DEF CoreInv, TypeOK
<1>2. ClientOK(c) /\ ItemOfOK(c)
  BY ZenonT(30) DEF CoreInv, ClientsOK
<1>3. PICK i \in Clients : i = cl[c].item /\ i # None
  BY <1>0, <1>1, <1>2, ZenonT(30) DEF ClientOK, ClientRec, HeadPcs
<1>4. CASE c \in ctxDone /\ Finish(c, "error") /\ item' = item
  BY <1>0, <1>1, <1>4, FinishKeeps, ZenonT(30)
<1>5. CASE /\ cl[c].head < Len(item[i].items)
           /\ cl' = [cl EXCEPT ![c].head = cl[c].head + 1, ![c].ver = item[i].ver,
                               ![c].got = Append(cl[c].got, item[i].items[cl[c].head + 1])]
           /\ item' = item
  <2>1. cl' = [cl EXCEPT ![c] = SetHeadVerGot(cl[c], cl[c].head + 1, item[i].ver,
                                              Append(cl[c].got, item[i].items[cl[c].head + 1]))]
    BY <1>5, ZenonT(30) DEF SetHeadVerGot
  <2>2. Takes(c)
    BY <1>0, <1>3, <1>5, <2>1, ZenonT(30) DEF Takes
  <2> QED
    BY <2>2, TakesKeeps, ZenonT(30)
<1>6. CASE /\ cl[c].head >= Len(item[i].items) /\ item[i].err # "none" /\ item' = item
           /\ Finish(c, IF item[i].err = "done" THEN "done" ELSE "error")
  <2>1. cl[c].shares /\ cl[c].head = Len(cl[c].got) /\ cl[c].head \in Nat /\ cl[c].head <= item[i].pos
    BY <1>0, <1>1, <1>2, <1>3, ZenonT(30) DEF ClientOK, ItemOfOK, HeadPcs, ClientRec
  <2>2. /\ ItemOK(i) /\ item[i].refs \in Nat /\ item[i].refs >= 1 /\ item[i].pos \in Nat
        /\ item[i].err \in {"none", "done", "err"}
    BY <1>1, <1>3, <2>1, LiveRefs, ZenonT(30) DEF CoreInv, ItemsOK, TypeOK, ItemRec
  <2>3. item[i].refs > 0 /\ cl[c].head = item[i].pos
    <3>1. Len(item[i].items) = item[i].pos
      BY <2>2, ZenonT(30) DEF ItemOK
    <3> QED
      BY <1>6, <2>1, <2>2, <3>1, SMT, SMTT(30)
  <2>4. item[i].err = "done" => Len(cl[c].got) = Rows
    BY <2>1, <2>2, <2>3, ZenonT(30) DEF ItemOK
  <2>5. item[i].err = "err" => faults < load.faults
    BY <2>2, ZenonT(30) DEF ItemOK
  <2>6. CASE item[i].err = "done"
    <3>1. Finish(c, "done")
      BY <1>6, <2>6, ZenonT(30)
    <3> QED
      BY <1>0, <1>1, <1>6, <2>4, <2>6, <3>1, FinishKeeps, ZenonT(30)
  <2>7. CASE item[i].err = "err"
    <3>1. Finish(c, "error")
      BY <1>6, <2>7, ZenonT(30)
    <3> QED
      BY <1>0, <1>1, <1>6, <2>5, <2>7, <3>1, FinishKeeps, ZenonT(30)
  <2> QED
    BY <1>6, <2>2, <2>6, <2>7, ZenonT(30)
<1>7. CASE /\ item[i].fetching = None /\ item' = [item EXCEPT ![i].fetching = c] /\ Goto(c, "fetching")
  <2>1. item' = [item EXCEPT ![i] = SetFetching(item[i], c)]
    BY <1>7, ZenonT(30) DEF SetFetching
  <2>2. cl' = [cl EXCEPT ![c] = SetPcRes(cl[c], "fetching", cl[c].res)]
    BY <1>1, <1>7, GotoIs, ZenonT(30)
  <2>3. Fetches(c)
    BY <1>0, <1>3, <1>7, <2>1, <2>2, ZenonT(30) DEF Fetches
  <2> QED
    BY <2>3, FetchesKeeps, ZenonT(30)
<1> QED
  BY <1>3, <1>4, <1>5, <1>6, <1>7, ZenonT(30) DEF NextItem

FetchBase(r, w) == [r EXCEPT !.fetching = None, !.ver = w]
FetchRows(r, t, x) == [r EXCEPT !.pos = t, !.items = x]
FetchErr(r, e) == [r EXCEPT !.err = e]

\* fetchMore keeps the invariant.
LEMMA fetchMoreKeeps ==
  ASSUME SharedAssumption, ClientSets, CoreInv, NEW c \in Clients, fetchMore(c)
  PROVE  CoreInv'
<1>f. ASSUME NEW r0 \in ItemRec, NEW w0
      PROVE  LET q == FetchBase(r0, w0) IN
             /\ q.st = r0.st /\ q.refs = r0.refs /\ q.stopped = r0.stopped /\ q.pos = r0.pos /\ q.items = r0.items
             /\ q.err = r0.err /\ q.fetching = None /\ q.rowsOpen = r0.rowsOpen /\ q.expired = r0.expired
             /\ w0 \in Nat \cup {None} => q \in ItemRec
  BY ZenonT(30) DEF ItemRec, FetchBase
<1>g. ASSUME NEW r0 \in ItemRec, NEW t0, NEW x0
      PROVE  LET q == FetchRows(r0, t0, x0) IN
             /\ q.st = r0.st /\ q.refs = r0.refs /\ q.stopped = r0.stopped /\ q.pos = t0 /\ q.items = x0
             /\ q.err = r0.err /\ q.fetching = r0.fetching /\ q.rowsOpen = r0.rowsOpen /\ q.expired = r0.expired
             /\ t0 \in Nat /\ x0 \in Seq(Nat) => q \in ItemRec
  BY ZenonT(30) DEF ItemRec, FetchRows
<1>h. ASSUME NEW r0 \in ItemRec, NEW e0
      PROVE  LET q == FetchErr(r0, e0) IN
             /\ q.st = r0.st /\ q.refs = r0.refs /\ q.stopped = r0.stopped /\ q.pos = r0.pos /\ q.items = r0.items
             /\ q.err = e0 /\ q.fetching = r0.fetching /\ q.rowsOpen = r0.rowsOpen /\ q.expired = r0.expired
             /\ e0 \in {"none", "done", "err"} => q \in ItemRec
  BY ZenonT(30) DEF ItemRec, FetchErr
<1>0. UNCHANGED <<load, entry, ctxDone, db>> /\ cl[c].pc = "fetching"
  BY ZenonT(30) DEF fetchMore
<1>1. TypeOK /\ cl[c] \in ClientRec /\ faults \in Nat /\ faults <= load.faults /\ load.faults \in Nat /\ db \in Nat
      /\ Rows \in Nat /\ BufferSize \in Nat /\ BufferSize # 0
  BY ZenonT(30) DEF CoreInv, TypeOK, SharedAssumption
<1>2. PICK i \in Clients : i = cl[c].item /\ i # None
  BY <1>0, <1>1, ZenonT(30) DEF CoreInv, ClientsOK, ClientOK, ClientRec, HeadPcs
<1>3. cl[c].shares
  BY <1>0, ZenonT(30) DEF CoreInv, ClientsOK, ClientOK, HeadPcs
<1>4. PICK r, to, w, x : /\ r = item[i] /\ to = Smaller(item[i].pos + BufferSize, Rows)
                         /\ w = IF item[i].ver = None THEN db ELSE item[i].ver
                         /\ x = item[i].items \o [n \in 1..(to - item[i].pos) |-> item[i].pos + n]
  BY ZenonT(30)
<1>5. /\ r \in ItemRec /\ r.pos \in Nat /\ r.items \in Seq(Nat) /\ r.err \in {"none", "done", "err"}
      /\ w \in Nat \cup {None} /\ r.refs \in Nat
  BY <1>1, <1>4, ZenonT(30) DEF TypeOK, ItemRec
<1>6. /\ r.pos <= Rows /\ Len(r.items) = r.pos /\ (\A n \in 1..r.pos : r.items[n] = n)
      /\ r.err = "done" => r.pos = Rows
      /\ r.err = "err" => faults < load.faults
  <2>1. item[i].refs >= 1
    BY <1>2, <1>3, LiveRefs, ZenonT(30)
  <2>2. r = item[i]
    BY <1>4, ZenonT(30)
  <2>3. r.refs > 0
    BY <1>5, <2>1, <2>2, SMT, SMTT(30)
  <2> QED
    BY <2>2, <2>3, ZenonT(30) DEF CoreInv, ItemsOK, ItemOK
<1>7. to \in Nat /\ r.pos <= to /\ to <= Rows /\ (r.pos + BufferSize > Rows => to = Rows)
  <2>1. to = Smaller(r.pos + BufferSize, Rows)
    BY <1>4, ZenonT(30)
  <2>2. r.pos <= Rows
    BY <1>6, ZenonT(30)
  <2> QED
    BY <1>1, <1>5, <2>1, <2>2, SMT, SMTT(30) DEF Smaller
<1>8. x \in Seq(Nat) /\ Len(x) = to /\ \A n \in 1..to : x[n] = n
  <2>1. x = NextRows(r.items, r.pos, to)
    BY <1>4, ZenonT(30) DEF NextRows
  <2>2. PICK s, m : s = r.items /\ m = r.pos
    BY ZenonT(30)
  <2>3. s \in Seq(Nat) /\ m \in Nat /\ m <= to /\ Len(s) = m /\ (\A n \in 1..m : s[n] = n) /\ to \in Nat
    BY <1>5, <1>6, <1>7, <2>2, ZenonT(30)
  <2>4. /\ NextRows(s, m, to) \in Seq(Nat) /\ Len(NextRows(s, m, to)) = to
        /\ \A n \in 1..to : NextRows(s, m, to)[n] = n
    BY <2>3, ConcatRows, ZenonT(30)
  <2> QED
    BY <2>1, <2>2, <2>4, ZenonT(30)
<1>9. PICK base : base = FetchBase(r, w)
  BY ZenonT(30)
<1>10. base = [item[i] EXCEPT !.fetching = None, !.ver = IF @ = None THEN db ELSE @]
  BY <1>4, <1>9, ZenonT(30) DEF FetchBase
<1>11. /\ base.st = r.st /\ base.refs = r.refs /\ base.stopped = r.stopped /\ base.pos = r.pos /\ base.items = r.items
       /\ base.err = r.err /\ base.fetching = None /\ base.rowsOpen = r.rowsOpen /\ base.expired = r.expired
       /\ base \in ItemRec
  BY <1>5, <1>9, <1>f, ZenonT(30)
<1>12. PICK read : read = FetchRows(base, to, x)
  BY ZenonT(30)
<1>13. read = [base EXCEPT !.pos = to, !.items = @ \o [n \in 1..(to - item[i].pos) |-> item[i].pos + n]]
  BY <1>4, <1>11, <1>12, ZenonT(30) DEF FetchRows
<1>14. /\ read.st = r.st /\ read.refs = r.refs /\ read.stopped = r.stopped /\ read.pos = to /\ read.items = x
       /\ read.err = r.err /\ read.fetching = None /\ read.rowsOpen = r.rowsOpen /\ read.expired = r.expired
       /\ read \in ItemRec
  BY <1>7, <1>8, <1>11, <1>12, <1>g, SMT, SMTT(30)
<1>15. cl' = [cl EXCEPT ![c] = SetPcRes(cl[c], "reading", cl[c].res)]
  BY <1>1, GotoIs, ZenonT(30) DEF fetchMore
<1>16. CASE /\ item' = [item EXCEPT ![i] = IF item[i].pos + BufferSize > Rows THEN [read EXCEPT !.err = "done"] ELSE read]
            /\ faults' = faults
  <2>1. faults' \in Nat /\ faults' <= faults
    BY <1>1, <1>16, SMT, SMTT(30)
  <2>2. CASE r.pos + BufferSize > Rows
    <3>1. item' = [item EXCEPT ![i] = FetchErr(read, "done")]
      BY <1>4, <1>16, <2>2, ZenonT(30) DEF FetchErr
    <3>2. PICK q : q = FetchErr(read, "done")
      BY ZenonT(30)
    <3>3. /\ q.st = r.st /\ q.refs = r.refs /\ q.stopped = r.stopped /\ q.pos = to /\ q.items = x
          /\ q.err = "done" /\ q.fetching = None /\ q.rowsOpen = r.rowsOpen /\ q.expired = r.expired
          /\ q \in ItemRec
      BY <1>14, <3>2, <1>h, SMT, SMTT(30)
    <3>4. item' \in [Clients -> ItemRec] /\ item'[i] = q /\ \A j \in Clients \ {i} : item'[j] = item[j]
      BY <1>1, <3>1, <3>2, <3>3, ItemSet, ZenonT(30)
    <3>5. FetchEnds(c, to, x, "done")
      BY <1>0, <1>2, <1>4, <1>7, <1>8, <1>15, <2>1, <2>2, <3>3, <3>4, ZenonT(30) DEF FetchEnds
    <3> QED
      BY <3>5, FetchEndsKeeps, ZenonT(30)
  <2>3. CASE ~(r.pos + BufferSize > Rows)
    <3>1. item' = [item EXCEPT ![i] = read]
      BY <1>4, <1>16, <2>3, ZenonT(30)
    <3>2. item' \in [Clients -> ItemRec] /\ item'[i] = read /\ \A j \in Clients \ {i} : item'[j] = item[j]
      BY <1>1, <1>14, <3>1, ItemSet, ZenonT(30)
    <3>3. r.err # "done" /\ (r.err = "err" => faults' < load.faults)
      <4>1. r.pos # Rows
        BY <1>1, <1>5, <2>3, SMT, SMTT(30)
      <4> QED
        BY <1>6, <1>16, <4>1, ZenonT(30)
    <3>4. FetchEnds(c, to, x, r.err)
      BY <1>0, <1>2, <1>4, <1>7, <1>8, <1>14, <1>15, <2>1, <3>2, <3>3, ZenonT(30) DEF FetchEnds
    <3> QED
      BY <3>4, FetchEndsKeeps, ZenonT(30)
  <2> QED
    BY <2>2, <2>3, ZenonT(30)
<1>17. CASE faults > 0 /\ faults' = faults - 1 /\ item' = [item EXCEPT ![i] = [base EXCEPT !.err = "err"]]
  <2>1. faults' \in Nat /\ faults' <= faults /\ faults' < load.faults
    BY <1>1, <1>17, SMT, SMTT(30)
  <2>2. item' = [item EXCEPT ![i] = FetchErr(base, "err")]
    BY <1>17, ZenonT(30) DEF FetchErr
  <2>3. PICK q : q = FetchErr(base, "err")
    BY ZenonT(30)
  <2>4. /\ q.st = r.st /\ q.refs = r.refs /\ q.stopped = r.stopped /\ q.pos = r.pos /\ q.items = r.items
        /\ q.err = "err" /\ q.fetching = None /\ q.rowsOpen = r.rowsOpen /\ q.expired = r.expired
        /\ q \in ItemRec
    BY <1>11, <2>3, <1>h, SMT, SMTT(30)
  <2>5. item' \in [Clients -> ItemRec] /\ item'[i] = q /\ \A j \in Clients \ {i} : item'[j] = item[j]
    BY <1>1, <2>2, <2>3, <2>4, ItemSet, ZenonT(30)
  <2>6. r.pos <= r.pos
    BY <1>5, SMT, SMTT(30)
  <2>7. FetchEnds(c, r.pos, r.items, "err")
    BY <1>0, <1>2, <1>4, <1>5, <1>6, <1>15, <2>1, <2>4, <2>5, <2>6, ZenonT(30) DEF FetchEnds
  <2> QED
    BY <2>7, FetchEndsKeeps, ZenonT(30)
<1> QED
  BY <1>2, <1>4, <1>10, <1>13, <1>16, <1>17, ZenonT(60) DEF fetchMore

\* Every step keeps the invariant without the limiters.
LEMMA CoreStep ==
  ASSUME SharedAssumption, ClientSets, CoreInv, [Next]_vars
  PROVE  CoreInv'
<1>1. ASSUME NEW c \in Clients, ClientStep(c) PROVE CoreInv'
  <2>1. CASE c \in Active /\ (Read(c) \/ ReadUsersetTuples(c) \/ ReadStartingWithUser(c))
    BY <2>1, ShareKeeps, ZenonT(30) DEF Read, ReadUsersetTuples, ReadStartingWithUser
  <2>2. CASE Stop(c)
    BY <2>2, StopPlain, StopShared, ZenonT(30)
  <2> QED
    BY <1>1, <2>1, <2>2, LoadOrStoreKeeps, ProduceKeeps, UnwrapKeeps, boundKeeps, ThrottledKeeps,
       InnerReadKeeps, NextItemKeeps, fetchMoreKeeps, ZenonT(30) DEF ClientStep
<1>2. ASSUME NEW i \in Clients, TimerStep(i) PROVE CoreInv'
  BY <1>2, AdmissionTimerKeeps, IdleTimerKeeps, cleanupKeeps, ZenonT(30) DEF TimerStep
<1>3. ASSUME NEW c \in Clients, Leave(c) PROVE CoreInv'
  <2>1. entry' \in [Ops -> Clients \cup {None}] /\ entry' = entry
    BY <1>3, ZenonT(30) DEF Leave, CoreInv, TypeOK
  <2> QED
    BY <1>3, <2>1, FinishKeeps, ZenonT(30) DEF Leave
<1>4. CASE UNCHANGED vars
  <2>1. UNCHANGED <<load, entry, item, cl, ctxDone, db, faults>>
    BY <1>4, ZenonT(30) DEF vars
  <2>2. TypeOK' /\ OneProducer' /\ EntriesOK'
    BY <2>1, ZenonT(30) DEF CoreInv, TypeOK, OneProducer, EntriesOK, EntryOK, Active, Op
  <2>3. ClientsOK'
    <3> SUFFICES ASSUME NEW c \in Clients
                 PROVE  (ClientOK(c) /\ GotOK(c) /\ ItemOfOK(c) /\ ErrorOK(c) /\ BeganOK(c))'
      BY ZenonT(30) DEF ClientsOK
    <3>1. ClientOK(c) /\ GotOK(c) /\ ItemOfOK(c) /\ ErrorOK(c) /\ BeganOK(c)
      BY ZenonT(30) DEF CoreInv, ClientsOK
    <3>2. ClientOK(c)' /\ GotOK(c)' /\ ItemOfOK(c)'
      BY <2>1, <3>1, ZenonT(30) DEF ClientOK, GotOK, ItemOfOK, Active
    <3>3. ErrorOK(c)' /\ BeganOK(c)'
      BY <2>1, <3>1, ZenonT(30) DEF ErrorOK, BeganOK, Active
    <3> QED
      BY <3>2, <3>3, ZenonT(30)
  <2>4. ItemsOK'
    <3> SUFFICES ASSUME NEW i \in Clients PROVE (ItemOK(i) /\ FetchOK(i) /\ CountOK(i))'
      BY ZenonT(30) DEF ItemsOK
    <3>1. ItemOK(i) /\ FetchOK(i) /\ CountOK(i)
      BY ZenonT(30) DEF CoreInv, ItemsOK
    <3>2. ItemOK(i)'
      BY <2>1, <3>1, ZenonT(30) DEF ItemOK, Active
    <3>3. FetchOK(i)'
      BY <2>1, <3>1, ZenonT(30) DEF FetchOK
    <3>4. CountOK(i)'
      <4>1. Live(i)' = Live(i)
        BY <2>1, ZenonT(30) DEF Live
      <4> QED
        BY <2>1, <3>1, <4>1, ZenonT(30) DEF CountOK
    <3> QED
      BY <3>2, <3>3, <3>4, ZenonT(30)
  <2> QED
    BY <2>2, <2>3, <2>4, ZenonT(30) DEF CoreInv
<1> QED
  BY <1>1, <1>2, <1>3, <1>4, OutsideKeeps, ZenonT(30) DEF Next, Run, Outside, Items

\* Every step keeps the invariant.
LEMMA NextInv ==
  ASSUME SharedAssumption, ClientSets, SharedInv, [Next]_vars
  PROVE  SharedInv'
<1>0. CoreInv /\ SlotsOK /\ TypeOK
  BY ZenonT(30) DEF SharedInv, CoreInv
<1>1. CoreInv'
  BY <1>0, CoreStep, ZenonT(30)
<1>2. ASSUME UNCHANGED <<load, cl, slots>> PROVE SlotsOK'
  BY <1>0, <1>2, SlotsFrame, ZenonT(30) DEF Owner
<1>3. ASSUME NEW c \in Clients, Plain(c) PROVE SlotsOK'
  BY <1>0, <1>3, SlotsOther, ZenonT(30) DEF Plain
<1>4. ASSUME NEW c \in Clients, ClientStep(c) \/ Leave(c) PROVE SlotsOK'
  <2>1. CASE bound(c) \/ Throttled(c) \/ InnerRead(c)
    BY <1>0, <2>1, BoundedSteps, ZenonT(30)
  <2>2. CASE Share(c) \/ LoadOrStore(c) \/ Produce(c) \/ Unwrap(c) \/ NextItem(c) \/ fetchMore(c) \/ Stop(c) \/ Leave(c)
    BY <1>0, <1>3, <2>2, PlainSteps, ZenonT(30)
  <2> QED
    BY <1>4, <2>1, <2>2, ZenonT(30) DEF ClientStep, Read, ReadUsersetTuples, ReadStartingWithUser
<1>5. ASSUME NEW i \in Clients, TimerStep(i) PROVE SlotsOK'
  BY <1>2, <1>5, ZenonT(30) DEF TimerStep, AdmissionTimer, IdleTimer, cleanup
<1>6. ASSUME Write \/ UNCHANGED vars \/ \E c \in Clients : Cancel(c) PROVE SlotsOK'
  BY <1>2, <1>6, ZenonT(30) DEF Write, Cancel, vars
<1>7. SlotsOK'
  BY <1>4, <1>5, <1>6, ZenonT(30) DEF Next, Run, Outside, Items
<1> QED
  BY <1>1, <1>7, ZenonT(30) DEF SharedInv

-----------------------------------------------------------------------------
(* The theorems. *)

\* The clients are finitely many, so their sets are counted as expected.
LEMMA ClientCounts ==
  ASSUME SharedAssumption
  PROVE  ClientSets
<1> SUFFICES ASSUME NEW S \in SUBSET Clients
             PROVE  /\ Cardinality(S) \in Nat /\ (Cardinality(S) = 0 <=> S = {})
                    /\ \A c \in Clients \ S : Cardinality(S \cup {c}) = Cardinality(S) + 1
                    /\ \A c \in S : Cardinality(S \ {c}) = Cardinality(S) - 1
  BY ZenonT(30) DEF ClientSets
<1>1. IsFiniteSet(S) /\ Cardinality(S) \in Nat
  BY FS_Subset, FS_CardinalityType, ZenonT(30) DEF SharedAssumption
<1>2. Cardinality(S) = 0 <=> S = {}
  BY <1>1, FS_EmptySet, ZenonT(30)
<1>3. \A c \in Clients \ S : Cardinality(S \cup {c}) = Cardinality(S) + 1
  BY <1>1, FS_AddElement, ZenonT(30)
<1>4. \A c \in S : Cardinality(S \ {c}) = Cardinality(S) - 1
  BY <1>1, FS_RemoveElement, ZenonT(30)
<1> QED
  BY <1>1, <1>2, <1>3, <1>4, ZenonT(30)

\* The inductive invariant of the shared iterators is one.
LEMMA Invariant == SharedAssumption => (Spec => []SharedInv)
<1> SUFFICES ASSUME SharedAssumption PROVE Spec => []SharedInv
  BY ZenonT(30)
<1>1. Init => SharedInv
  BY ClientCounts, InitInv, ZenonT(30)
<1>2. SharedInv /\ [Next]_vars => SharedInv'
  BY ClientCounts, NextInv, ZenonT(30)
<1> QED
  BY <1>1, <1>2, PTL DEF Spec

\* Every client of a shared iterator gets the rows in order and each once, whoever fetched them,
\* the end only after the last of them, and an error only from its own context, from its own
\* read or from the iterator it shares (sharedIterator's fetchMore and currentLocked).
THEOREM SharedReads == SharedAssumption => (Spec => []SharedReadsExact)
<1> SUFFICES ASSUME SharedAssumption PROVE Spec => []SharedReadsExact
  BY ZenonT(30)
<1>1. SharedInv => SharedReadsExact
  <2> SUFFICES ASSUME SharedInv, NEW c \in Clients
               PROVE  /\ cl[c].got = [n \in 1..Len(cl[c].got) |-> n]
                      /\ cl[c].res = "done" => Len(cl[c].got) = Rows
                      /\ cl[c].res = "error" => c \in ctxDone \/ faults < load.faults
                                                \/ (cl[c].item # None /\ Failed(cl[c].item))
    BY ZenonT(30) DEF SharedReadsExact
  <2>1. cl[c].got \in Seq(Nat) /\ GotOK(c) /\ ErrorOK(c)
    BY ZenonT(30) DEF SharedInv, CoreInv, TypeOK, ClientRec, ClientsOK
  <2>2. cl[c].got = [n \in 1..Len(cl[c].got) |-> n]
    <3>1. PICK s \in Seq(Nat) : s = cl[c].got
      BY <2>1, ZenonT(30)
    <3>2. \A n \in 1..Len(s) : s[n] = n
      BY <2>1, <3>1, ZenonT(30) DEF GotOK
    <3>3. DOMAIN s = 1..Len(s) /\ s = [n \in DOMAIN s |-> s[n]]
      BY SMT, SMTT(30)
    <3>4. s = [n \in 1..Len(s) |-> n]
      BY <3>2, <3>3, ZenonT(30)
    <3> QED
      BY <3>1, <3>4, ZenonT(30)
  <2> QED
    BY <2>1, <2>2, ZenonT(30) DEF GotOK, ErrorOK, Failed
<1> QED
  BY <1>1, Invariant, PTL

\* The reference count of a shared iterator is the number of its instances that were not stopped;
\* the rows below are open exactly while there is one, and a fetch never meets stopped rows
\* (clone and Stop of sharedIterator, with the timers of the storage item).
THEOREM ReferencesCounted == SharedAssumption => (Spec => []RowsReleased)
<1> SUFFICES ASSUME SharedAssumption PROVE Spec => []RowsReleased
  BY ZenonT(30)
<1>1. SharedInv => RowsReleased
  <2> SUFFICES ASSUME SharedInv, NEW i \in Clients, item[i].st = "ready"
               PROVE  /\ item[i].refs = Cardinality(Live(i)) + (IF item[i].stopped THEN 0 ELSE 1)
                      /\ item[i].rowsOpen <=> item[i].refs > 0
                      /\ item[i].fetching # None => item[i].rowsOpen
    BY ZenonT(30) DEF RowsReleased, Items
  <2>1. ItemOK(i) /\ FetchOK(i) /\ CountOK(i) /\ item[i] \in ItemRec
    BY ZenonT(30) DEF SharedInv, CoreInv, ItemsOK, TypeOK
  <2>2. item[i].refs = Cardinality(Live(i)) + (IF item[i].stopped THEN 0 ELSE 1)
    BY <2>1, ZenonT(30) DEF CountOK
  <2>3. item[i].rowsOpen <=> item[i].refs > 0
    BY <2>1, ZenonT(30) DEF ItemOK
  <2>4. ASSUME item[i].fetching # None PROVE item[i].refs > 0
    <3>1. PICK c \in Clients : c = item[i].fetching
      BY <2>1, <2>4, ZenonT(30) DEF ItemRec
    <3>2. cl[c].pc = "fetching" /\ cl[c].item = i
      BY <2>1, <2>4, <3>1, ZenonT(30) DEF FetchOK
    <3>3. cl[c].shares
      BY <3>2, ZenonT(30) DEF SharedInv, CoreInv, ClientsOK, ClientOK, HeadPcs
    <3> QED
      BY <3>2, <3>3, ClientCounts, LiveRefs, SMT, SMTT(30) DEF SharedInv
  <2> QED
    BY <2>2, <2>3, <2>4, ZenonT(30)
<1> QED
  BY <1>1, Invariant, PTL

\* No client is given an iterator that a timer had taken out of the map before the client asked,
\* and a client that asks for higher consistency reads a version no older than its request
\* (the admission timer, LoadOrStore and the consistency check of the three reads).
THEOREM StalenessIsBounded == SharedAssumption => (Spec => []StalenessBounded)
<1> SUFFICES ASSUME SharedAssumption PROVE Spec => []StalenessBounded
  BY ZenonT(30)
<1>1. SharedInv => StalenessBounded
  <2> SUFFICES ASSUME SharedInv, NEW c \in Clients, cl[c].got # <<>>
               PROVE  /\ cl[c].item \notin cl[c].began.expired
                      /\ load.client[c].higher => cl[c].ver >= cl[c].began.ver
    BY ZenonT(30) DEF StalenessBounded
  <2>1. ClientOK(c) /\ BeganOK(c) /\ cl[c].began \in [ver : Nat, expired : SUBSET Clients]
    BY ZenonT(30) DEF SharedInv, CoreInv, ClientsOK, TypeOK, ClientRec
  <2>2. cl[c].item = None => cl[c].item \notin cl[c].began.expired
    BY <2>1, ZenonT(30) DEF SharedAssumption
  <2>3. c \in Active
    BY <2>1, ZenonT(30) DEF ClientOK, HeadPcs
  <2> QED
    BY <2>1, <2>2, <2>3, ZenonT(30) DEF BeganOK
<1> QED
  BY <1>1, Invariant, PTL

\* The reads a request has in the datastore are the places taken in the limiter of its
\* BoundedTupleReader, and never more than its limit (bound and done).
THEOREM LimiterHolds == SharedAssumption => (Spec => []BoundHolds)
<1> SUFFICES ASSUME SharedAssumption PROVE Spec => []BoundHolds
  BY ZenonT(30)
<1>1. SharedInv => BoundHolds
  BY ZenonT(30) DEF SharedInv, SlotsOK, BoundHolds, SlotPcs
<1> QED
  BY <1>1, Invariant, PTL

=============================================================================
