----------------------- MODULE SharedIteratorsSteps ------------------------
(***************************************************************************)
(* The inductive invariant of the shared iterators and of the limiters,    *)
(* and that every step keeps it.                                           *)
(***************************************************************************)
EXTENDS SharedIterators, TLAPS

OpenPcs == {"open", "openThrottled", "openRead"}
InnerPcs == {"inner", "innerThrottled", "innerRead"}
SlotPcs == {"openThrottled", "openRead", "innerThrottled", "innerRead"}
HeadPcs == {"reading", "fetching"}
Pcs == {"start", "store", "unwrap", "stop", "finished"} \cup OpenPcs \cup InnerPcs \cup HeadPcs

ClientRec == [pc : Pcs, item : Clients \cup {None}, shares : BOOLEAN, head : Nat, got : Seq(Nat),
              ver : Nat \cup {None}, began : [ver : Nat, expired : SUBSET Clients],
              res : {"none", "done", "error", "left"}]

ItemRec == [st : {"none", "new", "producing", "ready", "failed"}, refs : Nat, stopped : BOOLEAN,
            ver : Nat \cup {None}, pos : Nat, items : Seq(Nat), err : {"none", "done", "err"},
            fetching : Clients \cup {None}, rowsOpen : BOOLEAN, admission : {"off", "armed"},
            idle : {"off", "armed"}, timer : {"off", "cleanup"}, expired : BOOLEAN]

\* The values of the variables.
TypeOK ==
  /\ load \in Loads
  /\ entry \in [Ops -> Clients \cup {None}]
  /\ item \in [Clients -> ItemRec]
  /\ cl \in [Clients -> ClientRec]
  /\ db \in Nat /\ faults \in Nat /\ faults <= load.faults

\* What a client has, by the place it is at.
ClientOK(c) ==
  /\ cl[c].pc # "finished" => c \in Active
  /\ cl[c].pc \in {"start", "store"} => cl[c].item = None
  /\ cl[c].pc \in {"unwrap"} \cup OpenPcs \cup HeadPcs => cl[c].item # None
  /\ cl[c].pc \in HeadPcs => cl[c].shares /\ cl[c].head = Len(cl[c].got) /\ cl[c].res = "none"
  /\ cl[c].shares => cl[c].pc \in HeadPcs \cup {"stop"} /\ cl[c].item # None
  /\ cl[c].pc \notin HeadPcs \cup {"stop"} =>
       cl[c].got = <<>> /\ cl[c].head = 0 /\ cl[c].res = "none"

\* What a client has read: a prefix of the rows, all of them at the end.
GotOK(c) ==
  /\ \A n \in 1..Len(cl[c].got) : cl[c].got[n] = n
  /\ cl[c].res = "done" => Len(cl[c].got) = Rows

\* A client and its item.
ItemOfOK(c) ==
  cl[c].item # None =>
    /\ item[cl[c].item].st # "none"
    /\ cl[c].shares => item[cl[c].item].st = "ready"
    /\ cl[c].pc \in HeadPcs => cl[c].head <= item[cl[c].item].pos
    /\ cl[c].pc \in OpenPcs => item[cl[c].item].st = "producing"
    /\ cl[c].pc = "fetching" => item[cl[c].item].fetching = c

\* One client runs the producer of an item.
OneProducer ==
  \A c, d \in Clients :
    cl[c].pc \in OpenPcs /\ cl[d].pc \in OpenPcs /\ cl[c].item = cl[d].item => c = d

\* Why a client failed.
ErrorOK(c) ==
  cl[c].res = "error" => c \in ctxDone \/ faults < load.faults
                         \/ (cl[c].item # None /\ item[cl[c].item].st = "failed")

\* An item by itself: as it was made until it is ready, and then the rows read so far.
ItemOK(i) ==
  /\ item[i].st # "none" => i \in Active /\ cl[i].pc \notin {"start", "store"}
  /\ item[i].st # "ready" =>
       /\ item[i].refs = 0 /\ ~item[i].stopped /\ item[i].pos = 0 /\ item[i].err = "none"
       /\ item[i].fetching = None /\ ~item[i].rowsOpen /\ item[i].admission = "off"
       /\ item[i].idle = "off" /\ item[i].timer = "off" /\ ~item[i].expired
  /\ Len(item[i].items) = item[i].pos /\ item[i].pos <= Rows
  /\ \A n \in 1..item[i].pos : item[i].items[n] = n
  /\ item[i].refs > 0 /\ item[i].err = "done" => item[i].pos = Rows
  /\ item[i].err = "err" => faults < load.faults
  /\ item[i].rowsOpen <=> item[i].refs > 0

\* The client that fetches for an item is at it.
FetchOK(i) ==
  item[i].fetching # None => /\ cl[item[i].fetching].pc = "fetching"
                             /\ cl[item[i].fetching].item = i

\* The reference count.
CountOK(i) ==
  item[i].st = "ready" =>
    item[i].refs = Cardinality(Live(i)) + (IF item[i].stopped THEN 0 ELSE 1)

\* An entry of a map is an item of that read whose timer has not taken it out.
EntryOK(op) ==
  entry[op] # None => /\ entry[op] \in Active /\ Op(entry[op]) = op
                      /\ item[entry[op]].st # "none" /\ ~item[entry[op]].expired

\* What a client saw when it began, and what it may be given.
BeganOK(c) ==
  /\ \A i \in cl[c].began.expired : item[i].expired
  /\ cl[c].began.ver <= db
  /\ cl[c].item # None => cl[c].item \notin cl[c].began.expired
  /\ c \in Active /\ load.client[c].higher =>
       /\ cl[c].item = None /\ cl[c].pc # "store"
       /\ cl[c].got # <<>> => cl[c].ver \in Nat /\ cl[c].ver >= cl[c].began.ver

\* The places taken in the limiters.
SlotsOK ==
  /\ slots \in [Requests -> SUBSET Clients]
  /\ \A r \in Requests :
       /\ Cardinality(slots[r]) <= Concurrency
       /\ \A c \in Clients : c \in slots[r] <=> cl[c].pc \in SlotPcs /\ Request(Owner(c)) = r

ClientsOK == \A c \in Clients : ClientOK(c) /\ GotOK(c) /\ ItemOfOK(c) /\ ErrorOK(c) /\ BeganOK(c)
ItemsOK == \A i \in Clients : ItemOK(i) /\ FetchOK(i) /\ CountOK(i)
EntriesOK == \A op \in Ops : EntryOK(op)

\* Counting the sets of clients: what the steps below need to know of Cardinality.
ClientSets ==
  \A S \in SUBSET Clients :
    /\ Cardinality(S) \in Nat /\ (Cardinality(S) = 0 <=> S = {})
    /\ \A c \in Clients \ S : Cardinality(S \cup {c}) = Cardinality(S) + 1
    /\ \A c \in S : Cardinality(S \ {c}) = Cardinality(S) - 1

\* The inductive invariant, without the limiters and with them.
CoreInv == TypeOK /\ OneProducer /\ ClientsOK /\ ItemsOK /\ EntriesOK
SharedInv == CoreInv /\ SlotsOK

-----------------------------------------------------------------------------
(* The limiters. *)

\* The places stay right while nobody takes or leaves one.
LEMMA SlotsFrame ==
  ASSUME SlotsOK, load' = load, slots' = slots,
         \A d \in Clients : /\ cl'[d].pc \in SlotPcs <=> cl[d].pc \in SlotPcs
                            /\ cl[d].pc \in SlotPcs => Owner(d)' = Owner(d)
  PROVE  SlotsOK'
<1>1. Requests' = Requests
  BY ZenonT(30) DEF Requests
<1>2. \A d \in Clients : cl[d].pc \in SlotPcs => Request(Owner(d))' = Request(Owner(d))
  BY ZenonT(30) DEF Request
<1> QED
  BY <1>1, <1>2, ZenonT(30) DEF SlotsOK

\* A client that has no place before the step and none after it.
LEMMA SlotsOther ==
  ASSUME SlotsOK, load' = load, slots' = slots, NEW c \in Clients,
         cl[c].pc \notin SlotPcs, cl'[c].pc \notin SlotPcs, \A d \in Clients \ {c} : cl'[d] = cl[d]
  PROVE  SlotsOK'
<1>1. \A d \in Clients \ {c} : Owner(d)' = Owner(d)
  BY ZenonT(30) DEF Owner
<1> QED
  BY <1>1, SlotsFrame, ZenonT(30)

\* The owner of a read is a client of the workload.
LEMMA OwnerActive ==
  ASSUME SharedAssumption, ClientSets, CoreInv, NEW c \in Clients, cl[c].pc \in OpenPcs \cup InnerPcs
  PROVE  Owner(c) \in Active /\ Request(Owner(c)) \in Requests
<1>1. Owner(c) \in Active
  <2>1. CASE cl[c].pc \in OpenPcs
    <3>1. Owner(c) = cl[c].item
      BY <2>1, ZenonT(30) DEF Owner, OpenPcs
    <3>2. cl[c].item # None /\ cl[c].item \in Clients
      BY <2>1, ZenonT(30) DEF CoreInv, ClientsOK, ClientOK, TypeOK, ClientRec
    <3>3. item[cl[c].item].st # "none"
      BY <3>2, ZenonT(30) DEF CoreInv, ClientsOK, ItemOfOK
    <3> QED
      BY <3>1, <3>2, <3>3, ZenonT(30) DEF CoreInv, ItemsOK, ItemOK
  <2>2. CASE cl[c].pc \in InnerPcs
    <3>1. Owner(c) = c
      BY <2>2, ZenonT(30) DEF Owner, InnerPcs
    <3>2. cl[c].pc # "finished"
      BY <2>2, ZenonT(30) DEF InnerPcs
    <3> QED
      BY <3>1, <3>2, ZenonT(30) DEF CoreInv, ClientsOK, ClientOK
  <2> QED
    BY <2>1, <2>2, ZenonT(30)
<1> QED
  BY <1>1, ZenonT(30) DEF Active, Request, Requests

\* A client takes a place.
LEMMA SlotsTake ==
  ASSUME SharedAssumption, ClientSets, SlotsOK, load' = load, NEW c \in Clients, NEW r \in Requests,
         cl[c].pc \notin SlotPcs, cl'[c].pc \in SlotPcs, \A d \in Clients \ {c} : cl'[d] = cl[d],
         Request(Owner(c))' = r, Cardinality(slots[r]) < Concurrency,
         slots' = [slots EXCEPT ![r] = slots[r] \cup {c}]
  PROVE  SlotsOK'
<1>1. Requests' = Requests /\ slots \in [Requests -> SUBSET Clients]
  BY SMT, SMTT(30) DEF Requests, SlotsOK
<1>2. \A d \in Clients \ {c} : Request(Owner(d))' = Request(Owner(d))
  BY ZenonT(30) DEF Owner, Request
<1>3. slots' \in [Requests -> SUBSET Clients]
  BY <1>1, ZenonT(30)
<1>4. slots'[r] = slots[r] \cup {c} /\ \A q \in Requests : q # r => slots'[q] = slots[q]
  BY <1>1, ZenonT(30)
<1>5. c \notin slots[r]
  BY ZenonT(30) DEF SlotsOK
<1>6. Cardinality(slots'[r]) <= Concurrency
  <2>1. Cardinality(slots[r]) \in Nat
    BY <1>1, ZenonT(30) DEF ClientSets
  <2>2. Cardinality(slots[r] \cup {c}) = Cardinality(slots[r]) + 1
    BY <1>1, <1>5, ZenonT(30) DEF ClientSets
  <2>3. Concurrency \in Nat
    BY ZenonT(30) DEF SharedAssumption
  <2> QED
    <3>1. Cardinality(slots[r]) + 1 <= Concurrency
      BY <2>1, <2>3, SMT, SMTT(30)
    <3> QED
      BY <1>4, <2>2, <3>1, ZenonT(30)
<1>7. \A q \in Requests : Cardinality(slots'[q]) <= Concurrency
  BY <1>4, <1>6, ZenonT(30) DEF SlotsOK
<1>8. ASSUME NEW q \in Requests, NEW d \in Clients
      PROVE  d \in slots'[q] <=> cl'[d].pc \in SlotPcs /\ Request(Owner(d))' = q
  <2>1. CASE d = c
    <3>1. c \notin slots[q]
      BY ZenonT(30) DEF SlotsOK
    <3> QED
      BY <1>4, <2>1, <3>1, ZenonT(30)
  <2>2. CASE d # c
    <3>1. d \in slots'[q] <=> d \in slots[q]
      BY <1>4, <2>2, SMT, SMTT(30)
    <3>2. cl'[d] = cl[d] /\ Request(Owner(d))' = Request(Owner(d))
      BY <1>2, <2>2, ZenonT(30)
    <3> QED
      BY <3>1, <3>2, ZenonT(30) DEF SlotsOK
  <2> QED
    BY <2>1, <2>2, ZenonT(30)
<1> QED
  BY <1>1, <1>3, <1>7, <1>8, ZenonT(30) DEF SlotsOK

\* A client gives its place back (Release).
LEMMA SlotsGive ==
  ASSUME SharedAssumption, ClientSets, SlotsOK, load' = load, NEW c \in Clients, NEW r \in Requests,
         cl[c].pc \in SlotPcs, cl'[c].pc \notin SlotPcs, \A d \in Clients \ {c} : cl'[d] = cl[d],
         Request(Owner(c)) = r, slots' = [slots EXCEPT ![r] = slots[r] \ {c}]
  PROVE  SlotsOK'
<1>1. Requests' = Requests /\ slots \in [Requests -> SUBSET Clients]
  BY ZenonT(30) DEF Requests, SlotsOK
<1>2. \A d \in Clients \ {c} : Request(Owner(d))' = Request(Owner(d))
  BY ZenonT(30) DEF Owner, Request
<1>3. slots' \in [Requests -> SUBSET Clients]
  BY <1>1, ZenonT(30)
<1>4. slots'[r] = slots[r] \ {c} /\ \A q \in Requests : q # r => slots'[q] = slots[q]
  BY <1>1, ZenonT(30)
<1>5. Cardinality(slots'[r]) <= Concurrency
  <2>1. Cardinality(slots[r]) \in Nat /\ Cardinality(slots[r]) <= Concurrency
    BY <1>1, ZenonT(30) DEF ClientSets, SlotsOK
  <2>2. c \in slots[r]
    BY ZenonT(30) DEF SlotsOK
  <2>3. Cardinality(slots[r] \ {c}) = Cardinality(slots[r]) - 1
    BY <1>1, <2>2, ZenonT(30) DEF ClientSets
  <2>4. Concurrency \in Nat
    BY ZenonT(30) DEF SharedAssumption
  <2> QED
    BY <1>4, <2>1, <2>3, <2>4, SMT, SMTT(30)
<1>6. \A q \in Requests : Cardinality(slots'[q]) <= Concurrency
  BY <1>4, <1>5, ZenonT(30) DEF SlotsOK
<1>7. ASSUME NEW q \in Requests, NEW d \in Clients
      PROVE  d \in slots'[q] <=> cl'[d].pc \in SlotPcs /\ Request(Owner(d))' = q
  <2>1. CASE d = c
    <3>1. q # r => c \notin slots[q]
      BY ZenonT(30) DEF SlotsOK
    <3> QED
      BY <1>4, <2>1, <3>1, ZenonT(30)
  <2>2. CASE d # c
    <3>1. d \in slots'[q] <=> d \in slots[q]
      BY <1>4, <2>2, ZenonT(30)
    <3>2. cl'[d] = cl[d] /\ Request(Owner(d))' = Request(Owner(d))
      BY <1>2, <2>2, ZenonT(30)
    <3> QED
      BY <3>1, <3>2, ZenonT(30) DEF SlotsOK
  <2> QED
    BY <2>1, <2>2, ZenonT(30)
<1> QED
  BY <1>1, <1>3, <1>6, <1>7, ZenonT(30) DEF SlotsOK

\* Goto sets the place of one client.
LEMMA GotoPc ==
  ASSUME TypeOK, NEW c \in Clients, NEW p, Goto(c, p)
  PROVE  cl'[c].pc = p /\ cl'[c].item = cl[c].item /\ \A d \in Clients \ {c} : cl'[d] = cl[d]
BY SMT, SMTT(30) DEF TypeOK, Goto, ClientRec

\* Finish takes one client to the stop of its iterator.
LEMMA FinishPc ==
  ASSUME TypeOK, NEW c \in Clients, NEW res, Finish(c, res)
  PROVE  cl'[c].pc = "stop" /\ \A d \in Clients \ {c} : cl'[d] = cl[d]
BY SMT, SMTT(30) DEF TypeOK, Finish, ClientRec

\* A read that fails leaves the limiter.
LEMMA ReadFailsPc ==
  ASSUME TypeOK, NEW c \in Clients, ReadFails(c)
  PROVE  cl'[c].pc \notin SlotPcs /\ \A d \in Clients \ {c} : cl'[d] = cl[d]
<1>1. Finish(c, "error") \/ Goto(c, "unwrap")
  BY ZenonT(30) DEF ReadFails
<1> QED
  BY <1>1, GotoPc, FinishPc, SMT, SMTT(30) DEF SlotPcs

\* The steps that touch no limiter.
Plain(c) == /\ cl[c].pc \notin SlotPcs /\ cl'[c].pc \notin SlotPcs /\ slots' = slots /\ load' = load
            /\ \A d \in Clients \ {c} : cl'[d] = cl[d]

\* The steps of a client outside the bounded reader.
LEMMA PlainSteps ==
  ASSUME TypeOK, NEW c \in Clients,
         Share(c) \/ LoadOrStore(c) \/ Produce(c) \/ Unwrap(c) \/ NextItem(c) \/ fetchMore(c) \/ Stop(c) \/ Leave(c)
  PROVE  Plain(c)
<1>0. cl[c] \in ClientRec /\ cl \in [Clients -> ClientRec]
  BY ZenonT(30) DEF TypeOK
<1>1. CASE Share(c)
  <2>1. cl'[c].pc \in {"inner", "store"} /\ \A d \in Clients \ {c} : cl'[d] = cl[d]
    BY <1>0, <1>1, ZenonT(30) DEF Share, ClientRec
  <2> QED
    BY <1>1, <2>1, ZenonT(30) DEF Share, Plain, SlotPcs
<1>2. CASE LoadOrStore(c)
  <2>1. cl'[c].pc = "unwrap" /\ \A d \in Clients \ {c} : cl'[d] = cl[d]
    BY <1>0, <1>2, SMT, SMTT(30) DEF LoadOrStore, ClientRec
  <2> QED
    BY <1>2, <2>1, ZenonT(30) DEF LoadOrStore, Plain, SlotPcs
<1>3. CASE Produce(c)
  <2>1. Goto(c, "open")
    BY <1>3, ZenonT(30) DEF Produce
  <2> QED
    BY <1>3, <2>1, GotoPc, SMT, SMTT(30) DEF Produce, Plain, SlotPcs
<1>4. CASE Unwrap(c)
  <2>1. CASE Finish(c, "error")
    BY <1>4, <2>1, FinishPc, ZenonT(30) DEF Unwrap, Plain, SlotPcs
  <2>2. CASE Goto(c, "inner")
    BY <1>4, <2>2, GotoPc, SMT, SMTT(30) DEF Unwrap, Plain, SlotPcs
  <2>3. CASE cl' = [cl EXCEPT ![c].pc = "reading", ![c].shares = TRUE]
    <3>1. cl'[c].pc = "reading" /\ \A d \in Clients \ {c} : cl'[d] = cl[d]
      BY <1>0, <2>3, ZenonT(30) DEF ClientRec
    <3> QED
      BY <1>4, <3>1, ZenonT(30) DEF Unwrap, Plain, SlotPcs
  <2> QED
    BY <1>4, <2>1, <2>2, <2>3, ZenonT(30) DEF Unwrap
<1>5. CASE NextItem(c)
  <2>0. cl[c].pc = "reading" /\ slots' = slots /\ load' = load
    BY <1>5, ZenonT(30) DEF NextItem
  <2>1. CASE \E res : Finish(c, res)
    BY <2>0, <2>1, FinishPc, ZenonT(30) DEF Plain, SlotPcs
  <2>2. CASE Goto(c, "fetching")
    BY <2>0, <2>2, GotoPc, ZenonT(30) DEF Plain, SlotPcs
  <2>3. CASE \E h, w, g : cl' = [cl EXCEPT ![c].head = h, ![c].ver = w, ![c].got = g]
    <3>1. cl'[c].pc = cl[c].pc /\ \A d \in Clients \ {c} : cl'[d] = cl[d]
      BY <1>0, <2>3, SMT, SMTT(30) DEF ClientRec
    <3> QED
      BY <2>0, <3>1, ZenonT(30) DEF Plain, SlotPcs
  <2>4. \/ \E res : Finish(c, res)
        \/ Goto(c, "fetching")
        \/ cl' = [cl EXCEPT ![c].head = @ + 1, ![c].ver = item[cl[c].item].ver,
                            ![c].got = Append(@, item[cl[c].item].items[cl[c].head + 1])]
    BY <1>5, ZenonT(30) DEF NextItem
  <2> QED
    BY <2>1, <2>2, <2>3, <2>4, ZenonT(30)
<1>6. CASE fetchMore(c)
  <2>1. Goto(c, "reading") /\ cl[c].pc = "fetching" /\ slots' = slots /\ load' = load
    BY <1>6, ZenonT(30) DEF fetchMore
  <2> QED
    BY <2>1, GotoPc, ZenonT(30) DEF Plain, SlotPcs
<1>7. CASE Stop(c)
  <2>1. cl'[c].pc = "finished" /\ \A d \in Clients \ {c} : cl'[d] = cl[d]
    BY <1>0, <1>7, ZenonT(30) DEF Stop, NewClient
  <2> QED
    BY <1>7, <2>1, ZenonT(30) DEF Stop, Plain, SlotPcs
<1>8. CASE Leave(c)
  BY <1>8, FinishPc, ZenonT(30) DEF Leave, Plain, SlotPcs
<1> QED
  BY <1>1, <1>2, <1>3, <1>4, <1>5, <1>6, <1>7, <1>8, ZenonT(30)

\* A step of the bounded reader keeps the places.
LEMMA BoundedSteps ==
  ASSUME SharedAssumption, ClientSets, CoreInv, SlotsOK, NEW c \in Clients, bound(c) \/ Throttled(c) \/ InnerRead(c)
  PROVE  SlotsOK'
<1>0. TypeOK /\ load' = load /\ cl[c].pc \in OpenPcs \cup InnerPcs
  BY ZenonT(30) DEF CoreInv, bound, Throttled, InnerRead, WaitPc, OpenPcs, InnerPcs
<1> DEFINE r == Request(Owner(c))
<1>1. r \in Requests
  BY <1>0, OwnerActive, ZenonT(30)
<1>2. CASE bound(c)
  <2>1. cl[c].pc \in {"open", "inner"}
    BY <1>2, ZenonT(30) DEF bound, WaitPc
  <2>2. CASE ReadFails(c) /\ slots' = slots
    BY <1>0, <2>1, <2>2, ReadFailsPc, SlotsOther, ZenonT(30) DEF SlotPcs
  <2>3. CASE /\ Cardinality(slots[r]) < Concurrency
             /\ slots' = [slots EXCEPT ![r] = @ \cup {c}]
             /\ Goto(c, IF reads[r] + 1 > Threshold THEN ThrottledPc(cl[c].pc) ELSE ReadPc(cl[c].pc))
    <3>1. PICK p : /\ p \in {ThrottledPc(cl[c].pc), ReadPc(cl[c].pc)} /\ Goto(c, p)
      BY <2>3, ZenonT(30)
    <3>2. /\ p \in SlotPcs
          /\ cl[c].pc = "open" => p \in OpenPcs
          /\ cl[c].pc = "inner" => p \notin OpenPcs
      BY <2>1, <3>1, ZenonT(30) DEF ThrottledPc, ReadPc, SlotPcs, OpenPcs
    <3>3. cl'[c].pc = p /\ cl'[c].item = cl[c].item /\ \A d \in Clients \ {c} : cl'[d] = cl[d]
      BY <1>0, <3>1, GotoPc, ZenonT(30)
    <3>4. Owner(c)' = Owner(c)
      <4>1. CASE cl[c].pc = "open"
        BY <3>2, <3>3, <4>1, ZenonT(30) DEF Owner, OpenPcs
      <4>2. CASE cl[c].pc = "inner"
        BY <3>2, <3>3, <4>2, ZenonT(30) DEF Owner, OpenPcs
      <4> QED
        BY <2>1, <4>1, <4>2, ZenonT(30)
    <3>5. Request(Owner(c))' = r
      BY <1>0, <3>4, ZenonT(30) DEF Request
    <3>6. cl[c].pc \notin SlotPcs /\ slots' = [slots EXCEPT ![r] = slots[r] \cup {c}]
      BY <2>1, <2>3, ZenonT(30) DEF SlotPcs
    <3>7. Cardinality(slots[r]) < Concurrency /\ cl'[c].pc \in SlotPcs /\ load' = load
      BY <1>0, <2>3, <3>2, <3>3, ZenonT(30)
    <3> HIDE DEF r
    <3> QED
      BY <1>1, <3>3, <3>5, <3>6, <3>7, SlotsTake, ZenonT(30)
  <2> QED
    BY <1>2, <2>2, <2>3, ZenonT(30) DEF bound
<1>3. CASE Throttled(c) /\ Goto(c, ReadPc(cl[c].pc)) /\ slots' = slots
  <2>1. cl[c].pc \in {"openThrottled", "innerThrottled"}
    BY <1>3, ZenonT(30) DEF Throttled
  <2>2. cl'[c].pc = ReadPc(cl[c].pc) /\ cl'[c].item = cl[c].item /\ \A d \in Clients \ {c} : cl'[d] = cl[d]
    BY <1>0, <1>3, GotoPc, ZenonT(30)
  <2>3. cl[c].pc \in SlotPcs /\ cl'[c].pc \in SlotPcs /\ Owner(c)' = Owner(c)
    BY <2>1, <2>2, ZenonT(30) DEF ReadPc, SlotPcs, Owner
  <2>4. \A d \in Clients \ {c} : Owner(d)' = Owner(d)
    BY <2>2, ZenonT(30) DEF Owner
  <2> QED
    BY <1>0, <1>3, <2>2, <2>3, <2>4, SlotsFrame, ZenonT(30)
<1>4. CASE /\ cl[c].pc \in SlotPcs /\ Release(c) /\ cl'[c].pc \notin SlotPcs
           /\ \A d \in Clients \ {c} : cl'[d] = cl[d]
  <2>1. slots' = [slots EXCEPT ![r] = slots[r] \ {c}]
    BY <1>4, ZenonT(30) DEF Release
  <2>2. PICK q \in Requests : q = r
    BY <1>1, ZenonT(30)
  <2>3. slots' = [slots EXCEPT ![q] = slots[q] \ {c}] /\ Request(Owner(c)) = q
    BY <2>1, <2>2, ZenonT(30)
  <2> HIDE DEF r
  <2> QED
    BY <1>0, <1>4, <2>3, SlotsGive, ZenonT(30)
<1>5. CASE Throttled(c) /\ Release(c) /\ ReadFails(c)
  <2>1. cl[c].pc \in SlotPcs
    BY <1>5, ZenonT(30) DEF Throttled, SlotPcs
  <2> QED
    BY <1>0, <1>4, <1>5, <2>1, ReadFailsPc, ZenonT(30)
<1>6. CASE InnerRead(c)
  <2>1. cl[c].pc \in SlotPcs /\ Release(c)
    BY <1>6, ZenonT(30) DEF InnerRead, SlotPcs
  <2>2. CASE ReadFails(c)
    BY <1>0, <1>4, <2>1, <2>2, ReadFailsPc, ZenonT(30)
  <2>3. CASE Goto(c, "unwrap")
    BY <1>0, <1>4, <2>1, <2>3, GotoPc, SMT, SMTT(30) DEF SlotPcs
  <2>4. CASE \E g : cl' = [cl EXCEPT ![c].pc = "stop", ![c].res = "done", ![c].ver = db, ![c].got = g]
    <3>1. cl'[c].pc = "stop" /\ \A d \in Clients \ {c} : cl'[d] = cl[d]
      BY <1>0, <2>4, SMT, SMTT(30) DEF TypeOK, ClientRec
    <3>2. cl'[c].pc \notin SlotPcs
      BY <3>1, ZenonT(30) DEF SlotPcs
    <3> QED
      BY <1>4, <2>1, <3>1, <3>2, ZenonT(30)
  <2> QED
    BY <1>6, <2>2, <2>3, <2>4, ZenonT(30) DEF InnerRead
<1> QED
  BY <1>2, <1>3, <1>5, <1>6, ZenonT(30) DEF Throttled

-----------------------------------------------------------------------------
(* The start. *)

\* The invariant holds at the start.
LEMMA InitInv ==
  ASSUME SharedAssumption, ClientSets, Init
  PROVE  SharedInv
<1>0. /\ load \in Loads /\ entry = [op \in Ops |-> None] /\ item = [i \in Clients |-> NewItem]
      /\ cl = [c \in Clients |-> NewClient(IF c \in Active THEN "start" ELSE "finished")]
      /\ slots = [r \in Requests |-> {}] /\ db = 0 /\ faults = load.faults /\ load.faults \in Nat
  BY ZenonT(30) DEF Init, Items, SharedAssumption
<1>1. \A p : /\ NewClient(p).pc = p /\ NewClient(p).item = None /\ ~NewClient(p).shares
             /\ NewClient(p).head = 0 /\ NewClient(p).got = <<>> /\ NewClient(p).ver = None
             /\ NewClient(p).began = [ver |-> 0, expired |-> {}] /\ NewClient(p).res = "none"
  BY ZenonT(30) DEF NewClient
<1>2. /\ NewItem.st = "none" /\ NewItem.refs = 0 /\ ~NewItem.stopped /\ NewItem.ver = None
      /\ NewItem.pos = 0 /\ NewItem.items = <<>> /\ NewItem.err = "none" /\ NewItem.fetching = None
      /\ ~NewItem.rowsOpen /\ NewItem.admission = "off" /\ NewItem.idle = "off" /\ NewItem.timer = "off"
      /\ ~NewItem.expired
  BY ZenonT(30) DEF NewItem
<1>3. ASSUME NEW c \in Clients
      PROVE  /\ cl[c].pc = (IF c \in Active THEN "start" ELSE "finished")
             /\ cl[c].item = None /\ ~cl[c].shares /\ cl[c].head = 0 /\ cl[c].got = <<>>
             /\ cl[c].began.ver = 0 /\ cl[c].began.expired = {} /\ cl[c].res = "none"
  <2>1. cl[c] = NewClient(IF c \in Active THEN "start" ELSE "finished")
    BY <1>0, ZenonT(30)
  <2>2. cl[c].began = [ver |-> 0, expired |-> {}]
    BY <1>1, <2>1, ZenonT(30)
  <2>3. cl[c].began.ver = 0 /\ cl[c].began.expired = {}
    BY <2>2, SMT, SMTT(30)
  <2> QED
    BY <1>1, <2>1, <2>3, ZenonT(30)
<1>4. \A i \in Clients : item[i] = NewItem
  BY <1>0, ZenonT(30)
<1>5. TypeOK
  <2>1. NewItem \in ItemRec
    BY SMT, SMTT(30) DEF NewItem, ItemRec
  <2>2. \A p \in {"start", "finished"} : NewClient(p) \in ClientRec
    BY SMT, SMTT(30) DEF NewClient, ClientRec, Pcs
  <2>3. item \in [Clients -> ItemRec]
    BY <1>0, <2>1, ZenonT(30)
  <2>4. cl \in [Clients -> ClientRec]
    BY <1>0, <2>2, ZenonT(30)
  <2>5. entry \in [Ops -> Clients \cup {None}]
    BY <1>0, ZenonT(30)
  <2> QED
    BY <1>0, <2>3, <2>4, <2>5, SMT, SMTT(30) DEF TypeOK
<1>6. \A c \in Clients : cl[c].pc \notin OpenPcs \cup SlotPcs \cup HeadPcs \cup {"unwrap", "stop", "store"}
  BY <1>3, ZenonT(30) DEF OpenPcs, SlotPcs, HeadPcs
<1>7. OneProducer
  BY <1>6, ZenonT(30) DEF OneProducer
<1>8. ClientsOK
  <2> SUFFICES ASSUME NEW c \in Clients
               PROVE  ClientOK(c) /\ GotOK(c) /\ ItemOfOK(c) /\ ErrorOK(c) /\ BeganOK(c)
    BY ZenonT(30) DEF ClientsOK
  <2>1. ClientOK(c)
    BY <1>3, <1>6, ZenonT(30) DEF ClientOK
  <2>2. GotOK(c) /\ ErrorOK(c)
    BY <1>3, SMT, SMTT(30) DEF GotOK, ErrorOK
  <2>3. ItemOfOK(c)
    BY <1>3, ZenonT(30) DEF ItemOfOK
  <2>4. BeganOK(c)
    BY <1>0, <1>3, <1>6, SMT, SMTT(30) DEF BeganOK
  <2> QED
    BY <2>1, <2>2, <2>3, <2>4, ZenonT(30)
<1>9. ItemsOK
  <2> SUFFICES ASSUME NEW i \in Clients PROVE ItemOK(i) /\ FetchOK(i) /\ CountOK(i)
    BY ZenonT(30) DEF ItemsOK
  <2>1. ItemOK(i)
    <3>1. Rows \in Nat
      BY ZenonT(30) DEF SharedAssumption
    <3> QED
      BY <1>2, <1>4, <3>1, SMT, SMTT(30) DEF ItemOK
  <2>2. FetchOK(i) /\ CountOK(i)
    BY <1>2, <1>4, ZenonT(30) DEF FetchOK, CountOK
  <2> QED
    BY <2>1, <2>2, ZenonT(30)
<1>10. EntriesOK
  BY <1>0, ZenonT(30) DEF EntriesOK, EntryOK
<1>11. SlotsOK
  <2>1. Cardinality({}) = 0 /\ Concurrency \in Nat
    BY ZenonT(30) DEF ClientSets, SharedAssumption
  <2>2. slots \in [Requests -> SUBSET Clients] /\ \A r \in Requests : slots[r] = {}
    BY <1>0, ZenonT(30)
  <2>3. \A r \in Requests : Cardinality(slots[r]) <= Concurrency
    BY <2>1, <2>2, SMT, SMTT(30)
  <2> QED
    BY <1>6, <2>2, <2>3, ZenonT(30) DEF SlotsOK
<1> QED
  BY <1>5, <1>7, <1>8, <1>9, <1>10, <1>11, ZenonT(30) DEF SharedInv, CoreInv

-----------------------------------------------------------------------------
(* The assignments to the fields of a client: Goto and Finish, Share, LoadOrStore, Unwrap, *)
(* InnerRead and NextItem. *)

SetPcRes(r, p, o) == [r EXCEPT !.pc = p, !.res = o]
SetPcBegan(r, p, b) == [r EXCEPT !.pc = p, !.began = b]
SetPcItem(r, p, i) == [r EXCEPT !.pc = p, !.item = i]
SetPcShares(r, p) == [r EXCEPT !.pc = p, !.shares = TRUE]
SetPcResVerGot(r, p, o, w, g) == [r EXCEPT !.pc = p, !.res = o, !.ver = w, !.got = g]
SetHeadVerGot(r, h, w, g) == [r EXCEPT !.head = h, !.ver = w, !.got = g]

\* The fields after SetPcRes.
LEMMA SetPcResFields ==
  ASSUME NEW r \in ClientRec, NEW p, NEW o
  PROVE  /\ SetPcRes(r, p, o).pc = p /\ SetPcRes(r, p, o).item = r.item /\ SetPcRes(r, p, o).shares = r.shares
         /\ SetPcRes(r, p, o).head = r.head /\ SetPcRes(r, p, o).got = r.got /\ SetPcRes(r, p, o).ver = r.ver
         /\ SetPcRes(r, p, o).began = r.began /\ SetPcRes(r, p, o).res = o
         /\ p \in Pcs /\ o \in {"none", "done", "error", "left"} => SetPcRes(r, p, o) \in ClientRec
BY ZenonT(30) DEF ClientRec, SetPcRes

-----------------------------------------------------------------------------
(* The assignments to the fields of an item. *)

SetSt(r, s) == [r EXCEPT !.st = s]

SetFetching(r, f) == [r EXCEPT !.fetching = f]

SetExpired(r) == [r EXCEPT !.timer = "off", !.expired = TRUE]

SetIdle(r) == [r EXCEPT !.idle = "off"]

SetTimer(r) == [r EXCEPT !.stopped = TRUE, !.timer = "cleanup"]

SetAdmission(r) == [r EXCEPT !.admission = "off"]

SetBoth(r) == [r EXCEPT !.admission = "off", !.idle = "off"]

-----------------------------------------------------------------------------
(* Steps: what the clients D and the items outside J may rely on. *)

\* What a step leaves of an item for the clients D, which it does not touch.
Keeps(j, D) ==
  /\ item[j].st # "none" => item'[j].st # "none"
  /\ item[j].st \in {"ready", "failed"} => item'[j].st = item[j].st
  /\ item[j].expired => item'[j].expired
  /\ \A d \in D : cl[d].item = j =>
       /\ cl[d].pc \in OpenPcs /\ item[j].st = "producing" => item'[j].st = "producing"
       /\ cl[d].shares => item'[j].pos >= item[j].pos
       /\ item[j].fetching = d => item'[j].fetching = d

\* A step that touches no client of D and no item of J.
Around(D, J) ==
  /\ load' = load /\ ctxDone \subseteq ctxDone' /\ faults' <= faults /\ db <= db'
  /\ \A d \in D : cl'[d] = cl[d]
  /\ \A j \in J : item'[j] = item[j]
  /\ \A j \in Clients : Keeps(j, D)
  /\ \A d \in Clients : cl'[d].pc \in {"start", "store"} => cl[d].pc \in {"start", "store"}
  /\ \A d \in Clients \ D : \A j \in J :
       /\ cl[d].pc = "fetching" => cl[d].item # j
       /\ cl'[d].item = j /\ cl'[d].shares <=> cl[d].item = j /\ cl[d].shares

\* The clients and the items a step does not touch keep their part of the invariant.
LEMMA AroundKeeps ==
  ASSUME SharedAssumption, ClientSets, CoreInv, TypeOK', NEW D \in SUBSET Clients, NEW J \in SUBSET Clients, Around(D, J)
  PROVE  /\ \A d \in D : (ClientOK(d) /\ GotOK(d) /\ ItemOfOK(d) /\ ErrorOK(d) /\ BeganOK(d))'
         /\ \A j \in J : (ItemOK(j) /\ FetchOK(j) /\ CountOK(j))'
<1> USE DEF Active, Op
<1>1. /\ load' = load /\ ctxDone \subseteq ctxDone' /\ faults' <= faults /\ db <= db'
      /\ faults \in Nat /\ faults' \in Nat /\ db \in Nat /\ db' \in Nat
  BY ZenonT(30) DEF Around, CoreInv, TypeOK
<1>2. load.faults \in Nat
  BY ZenonT(30) DEF CoreInv, TypeOK, SharedAssumption
<1>3. ASSUME NEW d \in D
      PROVE  (ClientOK(d) /\ GotOK(d) /\ ItemOfOK(d) /\ ErrorOK(d) /\ BeganOK(d))'
  <2> d \in Clients
    BY ZenonT(30)
  <2>1. ClientOK(d) /\ GotOK(d) /\ ItemOfOK(d) /\ ErrorOK(d) /\ BeganOK(d)
    BY ZenonT(30) DEF CoreInv, ClientsOK
  <2>2. cl'[d] = cl[d]
    BY ZenonT(30) DEF Around
  <2>3. cl[d] \in ClientRec /\ cl[d].began.ver \in Nat /\ cl[d].began.expired \subseteq Clients
        /\ cl[d].item \in Clients \cup {None}
    BY ZenonT(30) DEF CoreInv, TypeOK, ClientRec
  <2>4. \A j \in Clients : Keeps(j, D)
    BY ZenonT(30) DEF Around
  <2>5. ClientOK(d)'
    BY <1>1, <2>1, <2>2, ZenonT(30) DEF ClientOK
  <2>6. GotOK(d)'
    BY <2>1, <2>2, ZenonT(30) DEF GotOK
  <2>7. ItemOfOK(d)'
    <3>1. SUFFICES ASSUME cl[d].item # None PROVE ItemOfOK(d)'
      BY <2>2, ZenonT(30) DEF ItemOfOK
    <3> DEFINE j == cl[d].item
    <3>2. j \in Clients /\ Keeps(j, D)
      BY <2>3, <2>4, <3>1, ZenonT(30)
    <3>3. item[j].pos \in Nat /\ item'[j].pos \in Nat /\ cl[d].head \in Nat
      BY <2>3, <3>2, ZenonT(30) DEF CoreInv, TypeOK, ClientRec, ItemRec
    <3>4. item[j].st # "none" /\ (cl[d].shares => item[j].st = "ready")
          /\ (cl[d].pc \in HeadPcs => cl[d].head <= item[j].pos)
          /\ (cl[d].pc \in OpenPcs => item[j].st = "producing")
          /\ (cl[d].pc = "fetching" => item[j].fetching = d)
      BY <2>1, <3>1, ZenonT(30) DEF ItemOfOK
    <3>5. cl[d].pc \in HeadPcs => cl[d].shares
      BY <2>1, ZenonT(30) DEF ClientOK
    <3>6. cl[d].pc \in HeadPcs => cl[d].head <= item'[j].pos
      BY <3>2, <3>3, <3>4, <3>5, SMT, SMTT(30) DEF Keeps
    <3> QED
      BY <2>2, <3>2, <3>4, <3>6, ZenonT(30) DEF Keeps, ItemOfOK
  <2>8. ErrorOK(d)'
    <3>1. faults < load.faults => faults' < load'.faults
      BY <1>1, <1>2, SMT, SMTT(30)
    <3>2. cl[d].item # None /\ item[cl[d].item].st = "failed" => item'[cl[d].item].st = "failed"
      BY <2>3, <2>4, ZenonT(30) DEF Keeps
    <3> QED
      BY <1>1, <2>1, <2>2, <3>1, <3>2, ZenonT(30) DEF ErrorOK
  <2>9. BeganOK(d)'
    <3>1. \A i \in cl[d].began.expired : item'[i].expired
      BY <2>1, <2>3, <2>4, ZenonT(30) DEF Keeps, BeganOK
    <3>2. cl[d].began.ver <= db'
      BY <1>1, <2>1, <2>3, SMT, SMTT(30) DEF BeganOK
    <3> QED
      BY <1>1, <2>1, <2>2, <3>1, <3>2, ZenonT(30) DEF BeganOK
  <2> QED
    BY <2>5, <2>6, <2>7, <2>8, <2>9, ZenonT(30)
<1>4. ASSUME NEW j \in J
      PROVE  (ItemOK(j) /\ FetchOK(j) /\ CountOK(j))'
  <2> j \in Clients
    BY ZenonT(30)
  <2>1. ItemOK(j) /\ FetchOK(j) /\ CountOK(j)
    BY ZenonT(30) DEF CoreInv, ItemsOK
  <2>2. item'[j] = item[j]
    BY ZenonT(30) DEF Around
  <2>3. ItemOK(j)'
    <3>1. cl'[j].pc \in {"start", "store"} => cl[j].pc \in {"start", "store"}
      BY ZenonT(30) DEF Around
    <3>2. faults < load.faults => faults' < load'.faults
      BY <1>1, <1>2, SMT, SMTT(30)
    <3> QED
      BY <1>1, <2>1, <2>2, <3>1, <3>2, ZenonT(30) DEF ItemOK
  <2>4. FetchOK(j)'
    <3>1. SUFFICES ASSUME item[j].fetching # None PROVE FetchOK(j)'
      BY <2>2, ZenonT(30) DEF FetchOK
    <3> DEFINE f == item[j].fetching
    <3>2. f \in Clients /\ cl[f].pc = "fetching" /\ cl[f].item = j
      BY <2>1, <3>1, ZenonT(30) DEF FetchOK, CoreInv, TypeOK, ItemRec
    <3>3. f \in D
      BY <3>2, ZenonT(30) DEF Around
    <3>4. cl'[f] = cl[f]
      BY <3>3, ZenonT(30) DEF Around
    <3> QED
      BY <2>2, <3>2, <3>4, ZenonT(30) DEF FetchOK
  <2>5. CountOK(j)'
    <3>1. \A d \in Clients : (cl'[d].item = j /\ cl'[d].shares) <=> (cl[d].item = j /\ cl[d].shares)
      BY ZenonT(30) DEF Around
    <3>2. Live(j)' = Live(j)
      BY <3>1, ZenonT(30) DEF Live
    <3> QED
      BY <2>1, <2>2, <3>2, ZenonT(30) DEF CountOK
  <2> QED
    BY <2>3, <2>4, <2>5, ZenonT(30)
<1> QED
  BY <1>3, <1>4, ZenonT(30)

\* A step of one client and one item.
LEMMA OneStep ==
  ASSUME SharedAssumption, ClientSets, CoreInv, TypeOK', OneProducer', EntriesOK', NEW c \in Clients, NEW i \in Clients,
         Around(Clients \ {c}, Clients \ {i}),
         (ClientOK(c) /\ GotOK(c) /\ ItemOfOK(c) /\ ErrorOK(c) /\ BeganOK(c))',
         (ItemOK(i) /\ FetchOK(i) /\ CountOK(i))'
  PROVE  CoreInv'
<1>1. /\ \A d \in Clients \ {c} : (ClientOK(d) /\ GotOK(d) /\ ItemOfOK(d) /\ ErrorOK(d) /\ BeganOK(d))'
      /\ \A j \in Clients \ {i} : (ItemOK(j) /\ FetchOK(j) /\ CountOK(j))'
  BY AroundKeeps, ZenonT(30)
<1>2. ClientsOK' /\ ItemsOK'
  BY <1>1, ZenonT(30) DEF ClientsOK, ItemsOK
<1> QED
  BY <1>2, ZenonT(30) DEF CoreInv

\* A step of one client that leaves the items alone.
LEMMA ClientOnlyStep ==
  ASSUME SharedAssumption, ClientSets, CoreInv, TypeOK', OneProducer', EntriesOK', NEW c \in Clients,
         Around(Clients \ {c}, Clients),
         (ClientOK(c) /\ GotOK(c) /\ ItemOfOK(c) /\ ErrorOK(c) /\ BeganOK(c))'
  PROVE  CoreInv'
<1>1. /\ \A d \in Clients \ {c} : (ClientOK(d) /\ GotOK(d) /\ ItemOfOK(d) /\ ErrorOK(d) /\ BeganOK(d))'
      /\ \A j \in Clients : (ItemOK(j) /\ FetchOK(j) /\ CountOK(j))'
  BY AroundKeeps, ZenonT(30)
<1>2. ClientsOK' /\ ItemsOK'
  BY <1>1, ZenonT(30) DEF ClientsOK, ItemsOK
<1> QED
  BY <1>2, ZenonT(30) DEF CoreInv

\* A step of one item that leaves the clients alone.
LEMMA ItemOnlyStep ==
  ASSUME SharedAssumption, ClientSets, CoreInv, TypeOK', EntriesOK', NEW i \in Clients, cl' = cl,
         Around(Clients, Clients \ {i}), (ItemOK(i) /\ FetchOK(i) /\ CountOK(i))'
  PROVE  CoreInv'
<1>1. /\ \A d \in Clients : (ClientOK(d) /\ GotOK(d) /\ ItemOfOK(d) /\ ErrorOK(d) /\ BeganOK(d))'
      /\ \A j \in Clients \ {i} : (ItemOK(j) /\ FetchOK(j) /\ CountOK(j))'
  BY AroundKeeps, ZenonT(30)
<1>2. ClientsOK' /\ ItemsOK'
  BY <1>1, ZenonT(30) DEF ClientsOK, ItemsOK
<1>3. OneProducer'
  BY ZenonT(30) DEF CoreInv, OneProducer
<1> QED
  BY <1>2, <1>3, ZenonT(30) DEF CoreInv

\* The entries that stay are right while no item of theirs is unmade or expires.
LEMMA EntriesFewer ==
  ASSUME CoreInv, load' = load, \A op \in Ops : entry'[op] # None => entry'[op] = entry[op],
         \A j \in Clients : /\ item[j].st # "none" => item'[j].st # "none"
                            /\ ~item[j].expired => ~item'[j].expired
  PROVE  EntriesOK'
<1> SUFFICES ASSUME NEW op \in Ops, entry'[op] # None PROVE EntryOK(op)'
  BY ZenonT(30) DEF EntriesOK, EntryOK
<1>1. entry'[op] = entry[op] /\ entry[op] # None /\ entry[op] \in Clients
  BY ZenonT(30) DEF CoreInv, TypeOK
<1>2. entry[op] \in Active /\ Op(entry[op]) = op /\ item[entry[op]].st # "none" /\ ~item[entry[op]].expired
  BY <1>1, ZenonT(30) DEF CoreInv, EntriesOK, EntryOK
<1> QED
  BY <1>1, <1>2, ZenonT(30) DEF EntryOK, Active, Op

\* The same when the map does not change.
LEMMA EntriesKeep ==
  ASSUME CoreInv, load' = load, entry' = entry,
         \A j \in Clients : /\ item[j].st # "none" => item'[j].st # "none"
                            /\ ~item[j].expired => ~item'[j].expired
  PROVE  EntriesOK'
BY EntriesFewer, ZenonT(30)

\* Producers stay apart while nobody becomes one.
LEMMA ProducersKeep ==
  ASSUME CoreInv, \A d \in Clients : cl'[d].pc \in OpenPcs => cl[d].pc \in OpenPcs /\ cl'[d].item = cl[d].item
  PROVE  OneProducer'
BY ZenonT(30) DEF CoreInv, OneProducer

\* A client moves on with its item as it is: a wait, a read, or the end of its work (Goto and
\* Finish).
Moves(c, pc, res) ==
  /\ cl' = [cl EXCEPT ![c] = SetPcRes(cl[c], pc, res)]
  /\ UNCHANGED <<load, item, ctxDone, db>> /\ faults' \in Nat /\ faults' <= faults
  /\ entry' \in [Ops -> Clients \cup {None}] /\ \A op \in Ops : entry'[op] # None => entry'[op] = entry[op]
  /\ \/ cl[c].pc \in InnerPcs \cup {"unwrap"} /\ pc \in InnerPcs /\ res = cl[c].res
     \/ cl[c].pc \in OpenPcs /\ pc \in OpenPcs /\ res = cl[c].res
     \/ /\ cl[c].pc \in InnerPcs \cup {"unwrap", "reading"} /\ pc = "stop"
        /\ res \in {"done", "error", "left"}
        /\ res = "done" => Len(cl[c].got) = Rows
        /\ res = "error" => c \in ctxDone \/ faults' < load.faults
                            \/ (cl[c].item # None /\ item[cl[c].item].st = "failed")

\* Such a move keeps the invariant.
LEMMA PcMove ==
  ASSUME SharedAssumption, ClientSets, CoreInv, NEW c \in Clients, NEW pc, NEW res, Moves(c, pc, res)
  PROVE  CoreInv'
<1> DEFINE P == cl[c].pc
<1>0. /\ UNCHANGED <<load, item, ctxDone, db>> /\ faults' \in Nat /\ faults' <= faults
      /\ entry' \in [Ops -> Clients \cup {None}] /\ \A op \in Ops : entry'[op] # None => entry'[op] = entry[op]
  BY ZenonT(30) DEF Moves
<1>1. /\ load \in Loads /\ entry \in [Ops -> Clients \cup {None}] /\ item \in [Clients -> ItemRec]
      /\ cl \in [Clients -> ClientRec] /\ db \in Nat /\ faults \in Nat /\ faults <= load.faults
  BY ZenonT(30) DEF CoreInv, TypeOK
<1>2. load.faults \in Nat
  BY <1>1, ZenonT(30) DEF SharedAssumption
<1>3. ClientOK(c) /\ GotOK(c) /\ ItemOfOK(c) /\ ErrorOK(c) /\ BeganOK(c)
  BY ZenonT(30) DEF CoreInv, ClientsOK
<1>4. cl[c] \in ClientRec
  BY <1>1, ZenonT(30)
<1>5. pc \in Pcs /\ res \in {"none", "done", "error", "left"}
  BY <1>4, ZenonT(30) DEF Moves, ClientRec, Pcs, InnerPcs, OpenPcs
<1>6. cl'[c] = SetPcRes(cl[c], pc, res) /\ \A d \in Clients \ {c} : cl'[d] = cl[d]
  BY <1>1, ZenonT(30) DEF Moves
<1>7. /\ cl'[c].pc = pc /\ cl'[c].res = res /\ cl'[c].item = cl[c].item /\ cl'[c].shares = cl[c].shares
      /\ cl'[c].head = cl[c].head /\ cl'[c].got = cl[c].got /\ cl'[c].ver = cl[c].ver
      /\ cl'[c].began = cl[c].began /\ cl'[c] \in ClientRec
  BY <1>4, <1>5, <1>6, SetPcResFields, SMT, SMTT(30)
<1>8. cl' \in [Clients -> ClientRec]
  BY <1>1, <1>7, ZenonT(30) DEF Moves
<1>9. TypeOK'
  <2>1. faults' <= load'.faults
    BY <1>0, <1>1, <1>2, SMT, SMTT(30)
  <2> QED
    BY <1>0, <1>1, <1>8, <2>1, ZenonT(30) DEF TypeOK
<1>10. /\ pc \in {"inner", "innerThrottled", "innerRead", "open", "openThrottled", "openRead", "stop"}
       /\ P \notin {"fetching", "start", "store", "stop", "finished"}
       /\ pc \in OpenPcs => P \in OpenPcs
       /\ pc # "stop" => P \notin HeadPcs /\ res = cl[c].res
       /\ pc = "stop" => /\ res = "done" => Len(cl[c].got) = Rows
                         /\ res = "error" => c \in ctxDone \/ faults' < load.faults
                                             \/ (cl[c].item # None /\ item[cl[c].item].st = "failed")
  BY ZenonT(30) DEF Moves, OpenPcs, InnerPcs, HeadPcs
<1>11. OneProducer'
  BY <1>6, <1>7, <1>10, ProducersKeep, ZenonT(30)
<1>12. EntriesOK'
  BY <1>0, EntriesFewer, ZenonT(30)
<1>13. Around(Clients \ {c}, Clients)
  <2>1. \A j \in Clients : Keeps(j, Clients \ {c})
    <3>1. \A j \in Clients : item[j].pos \in Nat
      BY <1>1, ZenonT(30) DEF ItemRec
    <3> QED
      BY <1>0, <3>1, SMT, SMTT(30) DEF Keeps
  <2>2. cl[c].pc # "fetching" /\ pc \notin {"start", "store"}
    BY <1>10, ZenonT(30)
  <2>3. db <= db'
    BY <1>0, <1>1, SMT, SMTT(30)
  <2> QED
    BY <1>0, <1>6, <1>7, <2>1, <2>2, <2>3, ZenonT(30) DEF Around
<1> USE DEF OpenPcs, InnerPcs, HeadPcs
<1>14. ClientOK(c)'
  BY <1>0, <1>3, <1>7, <1>10, ZenonT(30) DEF ClientOK, Active
<1>15. GotOK(c)'
  BY <1>3, <1>7, <1>10, ZenonT(30) DEF GotOK
<1>16. ItemOfOK(c)'
  BY <1>0, <1>3, <1>7, <1>10, ZenonT(30) DEF ItemOfOK
<1>17. ErrorOK(c)'
  BY <1>0, <1>3, <1>7, <1>10, ZenonT(30) DEF ErrorOK, ClientOK
<1>18. BeganOK(c)'
  BY <1>0, <1>3, <1>7, <1>10, ZenonT(30) DEF BeganOK, Active
<1> QED
  BY <1>9, <1>11, <1>12, <1>13, <1>14, <1>15, <1>16, <1>17, <1>18, ClientOnlyStep, ZenonT(30)

\* A step that changes the record of one client changes no other.
LEMMA ClientSet ==
  ASSUME TypeOK, NEW c \in Clients, NEW r \in ClientRec, cl' = [cl EXCEPT ![c] = r]
  PROVE  cl' \in [Clients -> ClientRec] /\ cl'[c] = r /\ \A d \in Clients \ {c} : cl'[d] = cl[d]
BY ZenonT(30) DEF TypeOK

\* A step that changes the record of one item changes no other.
LEMMA ItemSet ==
  ASSUME TypeOK, NEW i \in Clients, NEW r \in ItemRec, item' = [item EXCEPT ![i] = r]
  PROVE  item' \in [Clients -> ItemRec] /\ item'[i] = r /\ \A j \in Clients \ {i} : item'[j] = item[j]
BY ZenonT(30) DEF TypeOK

\* The decision to share (Share) keeps the invariant.
LEMMA ShareKeeps ==
  ASSUME SharedAssumption, ClientSets, CoreInv, NEW c \in Clients, Share(c), c \in Active
  PROVE  CoreInv'
<1>f. ASSUME NEW r0 \in ClientRec, NEW p0, NEW b0
      PROVE  /\ SetPcBegan(r0, p0, b0).pc = p0 /\ SetPcBegan(r0, p0, b0).item = r0.item /\ SetPcBegan(r0, p0, b0).shares = r0.shares
             /\ SetPcBegan(r0, p0, b0).head = r0.head /\ SetPcBegan(r0, p0, b0).got = r0.got /\ SetPcBegan(r0, p0, b0).ver = r0.ver
             /\ SetPcBegan(r0, p0, b0).began = b0 /\ SetPcBegan(r0, p0, b0).res = r0.res
             /\ p0 \in Pcs /\ b0 \in [ver : Nat, expired : SUBSET Clients] => SetPcBegan(r0, p0, b0) \in ClientRec
  BY ZenonT(30) DEF ClientRec, SetPcBegan
<1> DEFINE full == load.limit = 0 \/ ctr >= load.limit
           p == IF load.client[c].higher \/ full THEN "inner" ELSE "store"
           b == [ver |-> db, expired |-> {i \in Items : item[i].expired}]
<1>0. UNCHANGED <<load, entry, item, ctxDone, db, faults>> /\ cl[c].pc = "start"
  BY ZenonT(30) DEF Share
<1>1. TypeOK /\ cl[c] \in ClientRec /\ db \in Nat /\ faults \in Nat
  BY ZenonT(30) DEF CoreInv, TypeOK
<1>2. ClientOK(c) /\ GotOK(c) /\ ItemOfOK(c) /\ ErrorOK(c) /\ BeganOK(c)
  BY ZenonT(30) DEF CoreInv, ClientsOK
<1>3. p \in Pcs /\ p \in {"inner", "store"} /\ (load.client[c].higher => p = "inner")
  BY ZenonT(30) DEF Pcs, InnerPcs
<1>4. b \in [ver : Nat, expired : SUBSET Clients] /\ b.ver = db /\ b.expired = {i \in Clients : item[i].expired}
  BY <1>1, ZenonT(30) DEF Items
<1> HIDE DEF p, b
<1>5. cl' = [cl EXCEPT ![c] = SetPcBegan(cl[c], p, b)]
  BY ZenonT(30) DEF Share, SetPcBegan, p, b
<1>6. SetPcBegan(cl[c], p, b) \in ClientRec
  BY <1>1, <1>3, <1>4, <1>f, ZenonT(30)
<1>7. cl' \in [Clients -> ClientRec] /\ cl'[c] = SetPcBegan(cl[c], p, b) /\ \A d \in Clients \ {c} : cl'[d] = cl[d]
  BY <1>1, <1>5, <1>6, ClientSet, ZenonT(30)
<1>8. /\ cl'[c].pc = p /\ cl'[c].res = cl[c].res /\ cl'[c].item = cl[c].item /\ cl'[c].shares = cl[c].shares
      /\ cl'[c].head = cl[c].head /\ cl'[c].got = cl[c].got /\ cl'[c].ver = cl[c].ver /\ cl'[c].began = b
  BY <1>1, <1>7, <1>f, SMT, SMTT(30)
<1>9. TypeOK'
  BY <1>0, <1>1, <1>7, ZenonT(30) DEF TypeOK
<1>10. OneProducer'
  BY <1>3, <1>7, <1>8, ProducersKeep, ZenonT(30) DEF OpenPcs
<1>11. EntriesOK'
  BY <1>0, EntriesKeep, ZenonT(30)
<1>12. Around(Clients \ {c}, Clients)
  <2>1. \A j \in Clients : item[j].pos \in Nat
    BY <1>1, ZenonT(30) DEF TypeOK, ItemRec
  <2>2. \A j \in Clients : Keeps(j, Clients \ {c})
    BY <1>0, <2>1, SMT, SMTT(30) DEF Keeps
  <2>3. db <= db' /\ faults' <= faults
    BY <1>0, <1>1, SMT, SMTT(30)
  <2> QED
    BY <1>0, <1>7, <1>8, <2>2, <2>3, ZenonT(30) DEF Around
<1>13. cl[c].item = None /\ ~cl[c].shares /\ cl[c].got = <<>> /\ cl[c].head = 0 /\ cl[c].res = "none"
  BY <1>0, <1>2, ZenonT(30) DEF ClientOK, HeadPcs
<1>14. ClientOK(c)'
  BY <1>0, <1>3, <1>8, <1>13, ZenonT(30) DEF ClientOK, Active, HeadPcs, OpenPcs
<1>15. GotOK(c)' /\ ItemOfOK(c)' /\ ErrorOK(c)'
  BY <1>2, <1>8, <1>13, ZenonT(30) DEF GotOK, ItemOfOK, ErrorOK
<1>16. BeganOK(c)'
  <2>1. \A i \in cl'[c].began.expired : item'[i].expired
    BY <1>0, <1>4, <1>8, ZenonT(30)
  <2>2. cl'[c].began.ver <= db'
    BY <1>0, <1>1, <1>4, <1>8, SMT, SMTT(30)
  <2> QED
    BY <1>0, <1>3, <1>8, <1>13, <2>1, <2>2, ZenonT(30) DEF BeganOK, Active
<1> QED
  BY <1>9, <1>10, <1>11, <1>12, <1>14, <1>15, <1>16, ClientOnlyStep, ZenonT(30)

\* An item that is not ready changes its state: stored, producing, failed.
LEMMA StKeeps ==
  ASSUME SharedAssumption, ClientSets, CoreInv, NEW i \in Clients, NEW s \in {"new", "producing", "failed"},
         item[i].st # "ready", item' = [item EXCEPT ![i] = SetSt(item[i], s)],
         load' = load, faults' \in Nat, faults' <= faults, i \in Active, cl'[i].pc \notin {"start", "store"}
  PROVE  /\ item' \in [Clients -> ItemRec] /\ \A j \in Clients \ {i} : item'[j] = item[j]
         /\ item'[i].st = s /\ item'[i].expired = item[i].expired /\ item'[i].pos = item[i].pos
         /\ item'[i].fetching = item[i].fetching
         /\ (ItemOK(i) /\ FetchOK(i) /\ CountOK(i))'
<1>f. ASSUME NEW r0 \in ItemRec, NEW s0
      PROVE  /\ SetSt(r0, s0).st = s0 /\ SetSt(r0, s0).refs = r0.refs /\ SetSt(r0, s0).stopped = r0.stopped
             /\ SetSt(r0, s0).ver = r0.ver /\ SetSt(r0, s0).pos = r0.pos /\ SetSt(r0, s0).items = r0.items
             /\ SetSt(r0, s0).err = r0.err /\ SetSt(r0, s0).fetching = r0.fetching /\ SetSt(r0, s0).rowsOpen = r0.rowsOpen
             /\ SetSt(r0, s0).admission = r0.admission /\ SetSt(r0, s0).idle = r0.idle /\ SetSt(r0, s0).timer = r0.timer
             /\ SetSt(r0, s0).expired = r0.expired
             /\ s0 \in {"none", "new", "producing", "ready", "failed"} => SetSt(r0, s0) \in ItemRec
  BY ZenonT(30) DEF ItemRec, SetSt
<1>1. TypeOK /\ item[i] \in ItemRec /\ ItemOK(i) /\ FetchOK(i)
  BY ZenonT(30) DEF CoreInv, TypeOK, ItemsOK
<1>2. SetSt(item[i], s) \in ItemRec
  BY <1>1, <1>f, ZenonT(30)
<1>3. item' \in [Clients -> ItemRec] /\ item'[i] = SetSt(item[i], s) /\ \A j \in Clients \ {i} : item'[j] = item[j]
  BY <1>1, <1>2, ItemSet, ZenonT(30)
<1>4. /\ item'[i].st = s /\ item'[i].refs = item[i].refs /\ item'[i].stopped = item[i].stopped
      /\ item'[i].pos = item[i].pos /\ item'[i].items = item[i].items /\ item'[i].err = item[i].err
      /\ item'[i].fetching = item[i].fetching /\ item'[i].rowsOpen = item[i].rowsOpen
      /\ item'[i].admission = item[i].admission /\ item'[i].idle = item[i].idle
      /\ item'[i].timer = item[i].timer /\ item'[i].expired = item[i].expired
  BY <1>1, <1>3, <1>f, SMT, SMTT(30)
<1>5. item[i].err = "none" /\ item[i].fetching = None /\ item[i].refs = 0
  BY <1>1, ZenonT(30) DEF ItemOK
<1>6. ItemOK(i)'
  BY <1>1, <1>4, <1>5, SMT, SMTT(30) DEF ItemOK, Active
<1>7. FetchOK(i)' /\ CountOK(i)'
  BY <1>4, <1>5, ZenonT(30) DEF FetchOK, CountOK
<1> QED
  BY <1>3, <1>4, <1>6, <1>7, ZenonT(30)

\* LoadOrStore keeps the invariant: a stored item is new, and one that is found is not expired.
LEMMA LoadOrStoreKeeps ==
  ASSUME SharedAssumption, ClientSets, CoreInv, NEW c \in Clients, LoadOrStore(c)
  PROVE  CoreInv'
<1>f. ASSUME NEW r0 \in ClientRec, NEW p0, NEW i0
      PROVE  /\ SetPcItem(r0, p0, i0).pc = p0 /\ SetPcItem(r0, p0, i0).item = i0 /\ SetPcItem(r0, p0, i0).shares = r0.shares
             /\ SetPcItem(r0, p0, i0).head = r0.head /\ SetPcItem(r0, p0, i0).got = r0.got /\ SetPcItem(r0, p0, i0).ver = r0.ver
             /\ SetPcItem(r0, p0, i0).began = r0.began /\ SetPcItem(r0, p0, i0).res = r0.res
             /\ p0 \in Pcs /\ i0 \in Clients \cup {None} => SetPcItem(r0, p0, i0) \in ClientRec
  BY ZenonT(30) DEF ClientRec, SetPcItem
<1> DEFINE op == Op(c)
           e == IF entry[op] = None THEN c ELSE entry[op]
<1>0. UNCHANGED <<load, ctxDone, db, faults>> /\ cl[c].pc = "store"
  BY ZenonT(30) DEF LoadOrStore
<1>1. TypeOK /\ cl[c] \in ClientRec /\ db \in Nat /\ faults \in Nat /\ item[c] \in ItemRec
  BY ZenonT(30) DEF CoreInv, TypeOK
<1>2. ClientOK(c) /\ GotOK(c) /\ ItemOfOK(c) /\ ErrorOK(c) /\ BeganOK(c) /\ ItemOK(c)
  BY ZenonT(30) DEF CoreInv, ClientsOK, ItemsOK
<1>3. c \in Active /\ op \in Ops
  BY <1>0, <1>1, <1>2, ZenonT(30) DEF ClientOK, Active, Op, TypeOK, SharedAssumption
<1>4. e \in Clients
  BY <1>1, <1>3, ZenonT(30) DEF TypeOK
<1>5. item[c].st = "none" /\ ~item[c].expired
  BY <1>0, <1>2, ZenonT(30) DEF ItemOK
<1> HIDE DEF op, e
<1>6. cl' = [cl EXCEPT ![c] = SetPcItem(cl[c], "unwrap", e)]
  BY ZenonT(30) DEF LoadOrStore, SetPcItem, op, e
<1>7. SetPcItem(cl[c], "unwrap", e) \in ClientRec
  <2>1. "unwrap" \in Pcs
    BY ZenonT(30) DEF Pcs
  <2> QED
    BY <1>1, <1>4, <2>1, <1>f, ZenonT(30)
<1>8. cl' \in [Clients -> ClientRec] /\ cl'[c] = SetPcItem(cl[c], "unwrap", e) /\ \A d \in Clients \ {c} : cl'[d] = cl[d]
  BY <1>1, <1>6, <1>7, ClientSet, ZenonT(30)
<1>9. /\ cl'[c].pc = "unwrap" /\ cl'[c].res = cl[c].res /\ cl'[c].item = e /\ cl'[c].shares = cl[c].shares
      /\ cl'[c].head = cl[c].head /\ cl'[c].got = cl[c].got /\ cl'[c].ver = cl[c].ver /\ cl'[c].began = cl[c].began
  BY <1>1, <1>8, <1>f, SMT, SMTT(30)
<1>10. OneProducer'
  BY <1>8, <1>9, ProducersKeep, ZenonT(30) DEF OpenPcs
<1>11. cl[c].item = None /\ ~cl[c].shares /\ cl[c].got = <<>> /\ cl[c].head = 0 /\ cl[c].res = "none"
  BY <1>0, <1>2, ZenonT(30) DEF ClientOK, HeadPcs
<1>12. e # None /\ ClientOK(c)'
  <2>1. e # None
    BY <1>4, ZenonT(30) DEF SharedAssumption
  <2> QED
    BY <1>0, <1>3, <1>9, <1>11, <2>1, ZenonT(30) DEF ClientOK, Active, HeadPcs, OpenPcs
<1>13. GotOK(c)' /\ ErrorOK(c)'
  BY <1>2, <1>9, <1>11, ZenonT(30) DEF GotOK, ErrorOK
<1>14. ~item[e].expired /\ (e # c => item[e].st # "none" /\ entry[op] # None)
  BY <1>3, <1>5, ZenonT(30) DEF e, CoreInv, EntriesOK, EntryOK
<1>15. cl[c].began.expired \subseteq Clients /\ e \notin cl[c].began.expired
  BY <1>1, <1>2, <1>14, ZenonT(30) DEF ClientRec, BeganOK
<1>16. ~load.client[c].higher
  BY <1>0, <1>2, <1>3, ZenonT(30) DEF BeganOK
<1>17. ASSUME \A i \in Clients : item[i].expired => item'[i].expired
       PROVE  BeganOK(c)'
  BY <1>0, <1>2, <1>9, <1>15, <1>16, <1>17, ZenonT(30) DEF BeganOK, ClientRec
<1>18. \A j \in Clients : item[j].pos \in Nat
  BY <1>1, ZenonT(30) DEF TypeOK, ItemRec
<1>19. db <= db' /\ faults' <= faults
  BY <1>0, <1>1, SMT, SMTT(30)
<1>20. CASE entry[op] = None
  <2>1. e = c /\ entry' = [entry EXCEPT ![op] = c] /\ item' = [item EXCEPT ![c] = SetSt(item[c], "new")]
    BY <1>20, ZenonT(30) DEF LoadOrStore, op, e, SetSt
  <2>2. /\ item' \in [Clients -> ItemRec] /\ \A j \in Clients \ {c} : item'[j] = item[j]
        /\ item'[c].st = "new" /\ item'[c].expired = item[c].expired /\ item'[c].pos = item[c].pos
        /\ item'[c].fetching = item[c].fetching
        /\ (ItemOK(c) /\ FetchOK(c) /\ CountOK(c))'
    <3>1. cl'[c].pc \notin {"start", "store"} /\ faults' \in Nat /\ item[c].st # "ready"
      BY <1>0, <1>1, <1>5, <1>9, ZenonT(30)
    <3> QED
      BY <1>0, <1>3, <1>19, <2>1, <3>1, StKeeps, ZenonT(30)
  <2>3. TypeOK'
    BY <1>0, <1>1, <1>8, <2>1, <2>2, ZenonT(30) DEF TypeOK
  <2>4. EntriesOK'
    <3> SUFFICES ASSUME NEW o \in Ops, entry'[o] # None PROVE EntryOK(o)'
      BY ZenonT(30) DEF EntriesOK, EntryOK
    <3>1. CASE o = op
      <4>1. entry'[o] = c
        BY <1>1, <1>3, <2>1, <3>1, ZenonT(30) DEF TypeOK
      <4>2. Op(c)' = o /\ c \in Active'
        BY <1>0, <1>3, <3>1, ZenonT(30) DEF op, Op, Active
      <4> QED
        BY <1>5, <2>2, <4>1, <4>2, ZenonT(30) DEF EntryOK, Op
    <3>2. CASE o # op
      <4>1. entry'[o] = entry[o] /\ entry[o] \in Clients
        BY <1>1, <2>1, <3>2, ZenonT(30) DEF TypeOK
      <4>2. entry[o] \in Active /\ Op(entry[o]) = o /\ item[entry[o]].st # "none" /\ ~item[entry[o]].expired
        BY <4>1, ZenonT(30) DEF CoreInv, EntriesOK, EntryOK
      <4>3. item'[entry[o]].st # "none" /\ ~item'[entry[o]].expired
        BY <1>5, <2>2, <4>1, <4>2, ZenonT(30)
      <4> QED
        BY <1>0, <4>1, <4>2, <4>3, ZenonT(30) DEF EntryOK, Op, Active
    <3> QED
      BY <3>1, <3>2, ZenonT(30)
  <2>5. \A j \in Clients : Keeps(j, Clients \ {c})
    <3>1. \A j \in Clients \ {c} : Keeps(j, Clients \ {c})
      BY <1>18, <2>2, SMT, SMTT(30) DEF Keeps
    <3>2. Keeps(c, Clients \ {c})
      BY <1>5, <1>18, <2>2, SMT, SMTT(30) DEF Keeps
    <3> QED
      BY <3>1, <3>2, ZenonT(30)
  <2>6. Around(Clients \ {c}, Clients \ {c})
    BY <1>0, <1>8, <1>9, <1>11, <1>19, <2>1, <2>2, <2>5, ZenonT(30) DEF Around
  <2>7. ItemOfOK(c)'
    BY <1>9, <1>11, <2>1, <2>2, ZenonT(30) DEF ItemOfOK, HeadPcs, OpenPcs
  <2>8. BeganOK(c)'
    BY <1>17, <2>2, ZenonT(30)
  <2> QED
    BY <1>10, <1>12, <1>13, <2>2, <2>3, <2>4, <2>6, <2>7, <2>8, OneStep, ZenonT(30)
<1>21. CASE entry[op] # None
  <2>1. UNCHANGED <<entry, item>>
    BY <1>21, ZenonT(30) DEF LoadOrStore, op
  <2>2. TypeOK'
    BY <1>0, <1>1, <1>8, <2>1, ZenonT(30) DEF TypeOK
  <2>3. EntriesOK'
    BY <1>0, <2>1, EntriesKeep, ZenonT(30)
  <2>4. Around(Clients \ {c}, Clients)
    <3>1. \A j \in Clients : Keeps(j, Clients \ {c})
      BY <1>18, <2>1, SMT, SMTT(30) DEF Keeps
    <3> QED
      BY <1>0, <1>8, <1>9, <1>11, <1>19, <2>1, <3>1, ZenonT(30) DEF Around
  <2>5. ItemOfOK(c)'
    <3>1. item[e].st # "none"
      BY <1>3, <1>21, ZenonT(30) DEF e, CoreInv, EntriesOK, EntryOK
    <3> QED
      BY <1>9, <1>11, <2>1, <3>1, ZenonT(30) DEF ItemOfOK, HeadPcs, OpenPcs
  <2>6. BeganOK(c)'
    BY <1>17, <2>1, ZenonT(30)
  <2> QED
    BY <1>10, <1>12, <1>13, <2>2, <2>3, <2>4, <2>5, <2>6, ClientOnlyStep, ZenonT(30)
<1> QED
  BY <1>20, <1>21, ZenonT(30)

\* A client starts the producer of its item (Produce), or the producer it runs fails (ReadFails).
Opens(c, p, s) ==
  /\ cl' = [cl EXCEPT ![c] = SetPcRes(cl[c], p, cl[c].res)]
  /\ item' = [item EXCEPT ![cl[c].item] = SetSt(item[cl[c].item], s)]
  /\ UNCHANGED <<load, entry, ctxDone, db>> /\ faults' \in Nat /\ faults' <= faults
  /\ \/ cl[c].pc = "unwrap" /\ item[cl[c].item].st = "new" /\ p = "open" /\ s = "producing"
     \/ cl[c].pc \in OpenPcs /\ p = "unwrap" /\ s = "failed"

\* A client that moves by itself: its fields, and those of the others.
LEMMA MovedFields ==
  ASSUME TypeOK, NEW c \in Clients, NEW p \in Pcs, cl' = [cl EXCEPT ![c] = SetPcRes(cl[c], p, cl[c].res)]
  PROVE  /\ cl' \in [Clients -> ClientRec] /\ \A d \in Clients \ {c} : cl'[d] = cl[d]
         /\ cl'[c].pc = p /\ cl'[c].res = cl[c].res /\ cl'[c].item = cl[c].item
         /\ cl'[c].shares = cl[c].shares /\ cl'[c].head = cl[c].head /\ cl'[c].got = cl[c].got
         /\ cl'[c].ver = cl[c].ver /\ cl'[c].began = cl[c].began
<1>1. cl[c] \in ClientRec
  BY ZenonT(30) DEF TypeOK
<1>2. cl[c].res \in {"none", "done", "error", "left"}
  BY <1>1, ZenonT(30) DEF ClientRec
<1>3. SetPcRes(cl[c], p, cl[c].res) \in ClientRec
  BY <1>1, <1>2, SetPcResFields, ZenonT(30)
<1>4. cl' \in [Clients -> ClientRec] /\ cl'[c] = SetPcRes(cl[c], p, cl[c].res) /\ \A d \in Clients \ {c} : cl'[d] = cl[d]
  BY <1>3, ClientSet, ZenonT(30)
<1> QED
  BY <1>1, <1>4, SetPcResFields, SMT, SMTT(30)

\* Starting a producer, and its failure, keep the invariant.
LEMMA OpensKeeps ==
  ASSUME SharedAssumption, ClientSets, CoreInv, NEW c \in Clients, NEW p, NEW s, Opens(c, p, s)
  PROVE  CoreInv'
<1>0. UNCHANGED <<load, entry, ctxDone, db>> /\ faults' \in Nat /\ faults' <= faults
  BY ZenonT(30) DEF Opens
<1>1. TypeOK /\ cl[c] \in ClientRec /\ db \in Nat /\ faults \in Nat /\ faults <= load.faults /\ load.faults \in Nat
  BY ZenonT(30) DEF CoreInv, TypeOK, SharedAssumption
<1>2. ClientOK(c) /\ GotOK(c) /\ ItemOfOK(c) /\ ErrorOK(c) /\ BeganOK(c)
  BY ZenonT(30) DEF CoreInv, ClientsOK
<1>3. p \in Pcs /\ p \in {"open", "unwrap"} /\ s \in {"new", "producing", "failed"} /\ s # "new"
      /\ cl[c].pc \in {"unwrap", "open", "openThrottled", "openRead"}
  BY ZenonT(30) DEF Opens, Pcs, OpenPcs
<1>4. PICK i \in Clients : i = cl[c].item /\ i # None
  BY <1>1, <1>2, <1>3, ZenonT(30) DEF ClientOK, OpenPcs, ClientRec
<1>5. /\ item[i].st \in {"new", "producing"} /\ ItemOK(i) /\ item[i].pos \in Nat
      /\ item[i].st = "producing" => cl[c].pc \in OpenPcs
      /\ item[i].st = "new" => p = "open" /\ s = "producing"
      /\ item[i].st = "producing" => p = "unwrap"
  <2>1. ItemOK(i) /\ item[i].pos \in Nat
    BY <1>1, <1>4, ZenonT(30) DEF CoreInv, ItemsOK, TypeOK, ItemRec
  <2>2. cl[c].pc \in OpenPcs => item[i].st = "producing"
    BY <1>2, <1>4, ZenonT(30) DEF ItemOfOK
  <2> QED
    BY <1>4, <2>1, <2>2, ZenonT(30) DEF Opens, OpenPcs
<1>6. /\ cl' \in [Clients -> ClientRec] /\ \A d \in Clients \ {c} : cl'[d] = cl[d]
      /\ cl'[c].pc = p /\ cl'[c].res = cl[c].res /\ cl'[c].item = cl[c].item
      /\ cl'[c].shares = cl[c].shares /\ cl'[c].head = cl[c].head /\ cl'[c].got = cl[c].got
      /\ cl'[c].ver = cl[c].ver /\ cl'[c].began = cl[c].began
  <2>1. cl' = [cl EXCEPT ![c] = SetPcRes(cl[c], p, cl[c].res)]
    BY ZenonT(30) DEF Opens
  <2> QED
    BY <1>1, <1>3, <2>1, MovedFields, ZenonT(30)
<1>7. /\ item' \in [Clients -> ItemRec] /\ \A j \in Clients \ {i} : item'[j] = item[j]
      /\ item'[i].st = s /\ item'[i].expired = item[i].expired /\ item'[i].pos = item[i].pos
      /\ item'[i].fetching = item[i].fetching
      /\ (ItemOK(i) /\ FetchOK(i) /\ CountOK(i))'
  <2>1. item' = [item EXCEPT ![i] = SetSt(item[i], s)]
    BY <1>4, ZenonT(30) DEF Opens
  <2>2. i \in Active /\ cl[i].pc \notin {"start", "store"} /\ item[i].st # "ready"
    BY <1>5, ZenonT(30) DEF ItemOK
  <2>3. cl'[i].pc \notin {"start", "store"}
    BY <1>3, <1>4, <1>6, <2>2, ZenonT(30)
  <2> QED
    BY <1>0, <1>3, <1>4, <2>1, <2>2, <2>3, StKeeps, ZenonT(30)
<1>8. TypeOK'
  <2>1. faults' <= load'.faults
    BY <1>0, <1>1, SMT, SMTT(30)
  <2> QED
    BY <1>0, <1>1, <1>6, <1>7, <2>1, ZenonT(30) DEF TypeOK
<1>9. \A d \in Clients \ {c} : cl[d].pc \in OpenPcs => cl[d].item # i
  <2> SUFFICES ASSUME NEW d \in Clients \ {c}, cl[d].pc \in OpenPcs, cl[d].item = i PROVE FALSE
    BY ZenonT(30)
  <2>1. item[i].st = "producing"
    BY <1>4, ZenonT(30) DEF CoreInv, ClientsOK, ItemOfOK
  <2>2. cl[c].pc \in OpenPcs
    BY <1>5, <2>1, ZenonT(30)
  <2> QED
    BY <1>4, <2>2, ZenonT(30) DEF CoreInv, OneProducer
<1>10. OneProducer'
  BY <1>4, <1>6, <1>9, SMT, SMTT(30) DEF CoreInv, OneProducer
<1>11. EntriesOK'
  <2>1. s # "none"
    BY <1>3, ZenonT(30)
  <2> QED
    BY <1>0, <1>7, <2>1, EntriesKeep, ZenonT(30)
<1>12. Around(Clients \ {c}, Clients \ {i})
  <2>1. \A j \in Clients : item[j].pos \in Nat
    BY <1>1, ZenonT(30) DEF TypeOK, ItemRec
  <2>2. \A j \in Clients \ {i} : Keeps(j, Clients \ {c})
    BY <1>7, <2>1, SMT, SMTT(30) DEF Keeps
  <2>3. Keeps(i, Clients \ {c})
    BY <1>3, <1>5, <1>7, <1>9, <2>1, SMT, SMTT(30) DEF Keeps
  <2>4. \A j \in Clients : Keeps(j, Clients \ {c})
    BY <2>2, <2>3, ZenonT(30)
  <2>5. db <= db'
    BY <1>0, <1>1, SMT, SMTT(30)
  <2>6. cl'[c].pc \notin {"start", "store"} /\ cl[c].pc # "fetching"
    BY <1>3, <1>6, ZenonT(30)
  <2> QED
    BY <1>0, <1>4, <1>6, <1>7, <2>4, <2>5, <2>6, SMT, SMTT(30) DEF Around
<1>13. cl[c].got = <<>> /\ cl[c].head = 0 /\ cl[c].res = "none" /\ ~cl[c].shares /\ c \in Active
  BY <1>2, <1>3, ZenonT(30) DEF ClientOK, HeadPcs
<1>14. ClientOK(c)'
  BY <1>0, <1>3, <1>4, <1>6, <1>13, ZenonT(30) DEF ClientOK, Active, HeadPcs, OpenPcs
<1>15. GotOK(c)' /\ ErrorOK(c)'
  BY <1>2, <1>6, <1>13, ZenonT(30) DEF GotOK, ErrorOK
<1>16. ItemOfOK(c)'
  BY <1>3, <1>4, <1>5, <1>6, <1>7, <1>13, ZenonT(30) DEF ItemOfOK, HeadPcs, OpenPcs
<1>17. BeganOK(c)'
  <2>1. \A j \in Clients : item[j].expired => item'[j].expired
    BY <1>7, ZenonT(30)
  <2>2. cl[c].began.expired \subseteq Clients
    BY <1>1, ZenonT(30) DEF ClientRec
  <2> QED
    BY <1>0, <1>2, <1>3, <1>6, <2>1, <2>2, ZenonT(30) DEF BeganOK, Active
<1> QED
  BY <1>4, <1>7, <1>8, <1>10, <1>11, <1>12, <1>14, <1>15, <1>16, <1>17, OneStep, ZenonT(30)

\* The producer a client runs succeeds (InnerRead).
Ready(c) ==
  /\ cl[c].pc \in OpenPcs
  /\ cl' = [cl EXCEPT ![c] = SetPcRes(cl[c], "unwrap", cl[c].res)]
  /\ item' = [item EXCEPT ![cl[c].item] = newSharedIterator(item[cl[c].item])]
  /\ UNCHANGED <<load, entry, ctxDone, db, faults>>

\* A new shared iterator keeps the invariant: nobody shares it yet.
LEMMA ReadyKeeps ==
  ASSUME SharedAssumption, ClientSets, CoreInv, NEW c \in Clients, Ready(c)
  PROVE  CoreInv'
<1>f. ASSUME NEW r0 \in ItemRec
      PROVE  /\ newSharedIterator(r0).st = "ready" /\ newSharedIterator(r0).refs = 1 /\ newSharedIterator(r0).stopped = r0.stopped
             /\ newSharedIterator(r0).ver = r0.ver /\ newSharedIterator(r0).pos = r0.pos /\ newSharedIterator(r0).items = r0.items
             /\ newSharedIterator(r0).err = r0.err /\ newSharedIterator(r0).fetching = r0.fetching /\ newSharedIterator(r0).rowsOpen
             /\ newSharedIterator(r0).admission = "armed" /\ newSharedIterator(r0).idle = "armed" /\ newSharedIterator(r0).timer = r0.timer
             /\ newSharedIterator(r0).expired = r0.expired
             /\ newSharedIterator(r0) \in ItemRec
  <2> DEFINE n == newSharedIterator(r0)
  <2>1. n \in ItemRec
    BY ZenonT(60) DEF ItemRec, newSharedIterator
  <2>2. n.st = "ready" /\ n.refs = 1 /\ n.rowsOpen
    BY ZenonT(60) DEF ItemRec, newSharedIterator
  <2>3. n.admission = "armed" /\ n.idle = "armed"
    BY ZenonT(60) DEF ItemRec, newSharedIterator
  <2>4. n.stopped = r0.stopped /\ n.ver = r0.ver /\ n.pos = r0.pos /\ n.items = r0.items
    BY ZenonT(60) DEF ItemRec, newSharedIterator
  <2>5. n.err = r0.err /\ n.fetching = r0.fetching /\ n.timer = r0.timer /\ n.expired = r0.expired
    BY ZenonT(60) DEF ItemRec, newSharedIterator
  <2> QED
    BY <2>1, <2>2, <2>3, <2>4, <2>5, ZenonT(30)
<1>0. UNCHANGED <<load, entry, ctxDone, db, faults>> /\ cl[c].pc \in OpenPcs
  BY ZenonT(30) DEF Ready
<1>1. TypeOK /\ cl[c] \in ClientRec /\ db \in Nat /\ faults \in Nat
  BY ZenonT(30) DEF CoreInv, TypeOK
<1>2. ClientOK(c) /\ GotOK(c) /\ ItemOfOK(c) /\ ErrorOK(c) /\ BeganOK(c)
  BY ZenonT(30) DEF CoreInv, ClientsOK
<1>3. PICK i \in Clients : i = cl[c].item /\ i # None
  BY <1>0, <1>1, <1>2, ZenonT(30) DEF ClientOK, ClientRec
<1>4. item[i].st = "producing" /\ ItemOK(i) /\ item[i] \in ItemRec /\ item[i].pos \in Nat
  BY <1>0, <1>1, <1>2, <1>3, ZenonT(30) DEF CoreInv, ItemsOK, TypeOK, ItemRec, ItemOfOK
<1>5. /\ cl' \in [Clients -> ClientRec] /\ \A d \in Clients \ {c} : cl'[d] = cl[d]
      /\ cl'[c].pc = "unwrap" /\ cl'[c].res = cl[c].res /\ cl'[c].item = cl[c].item
      /\ cl'[c].shares = cl[c].shares /\ cl'[c].head = cl[c].head /\ cl'[c].got = cl[c].got
      /\ cl'[c].ver = cl[c].ver /\ cl'[c].began = cl[c].began
  <2>1. cl' = [cl EXCEPT ![c] = SetPcRes(cl[c], "unwrap", cl[c].res)]
    BY ZenonT(30) DEF Ready
  <2>2. "unwrap" \in Pcs
    BY ZenonT(30) DEF Pcs
  <2> QED
    BY <1>1, <2>1, <2>2, MovedFields, ZenonT(30)
<1>6. item' \in [Clients -> ItemRec] /\ item'[i] = newSharedIterator(item[i]) /\ \A j \in Clients \ {i} : item'[j] = item[j]
  <2>1. item' = [item EXCEPT ![i] = newSharedIterator(item[i])]
    BY <1>3, ZenonT(30) DEF Ready
  <2>2. newSharedIterator(item[i]) \in ItemRec
    BY <1>4, <1>f, ZenonT(30)
  <2> QED
    BY <1>1, <2>1, <2>2, ItemSet, ZenonT(30)
<1>7. /\ item'[i].st = "ready" /\ item'[i].refs = 1 /\ item'[i].stopped = item[i].stopped
      /\ item'[i].pos = item[i].pos /\ item'[i].items = item[i].items /\ item'[i].err = item[i].err
      /\ item'[i].fetching = item[i].fetching /\ item'[i].rowsOpen
      /\ item'[i].expired = item[i].expired
  BY <1>4, <1>6, <1>f, SMT, SMTT(30)
<1>8. TypeOK'
  BY <1>0, <1>1, <1>5, <1>6, ZenonT(30) DEF TypeOK
<1>9. OneProducer'
  BY <1>5, ProducersKeep, ZenonT(30) DEF OpenPcs
<1>10. EntriesOK'
  BY <1>0, <1>6, <1>7, EntriesKeep, ZenonT(30)
<1>11. \A d \in Clients : cl[d].item = i => ~cl[d].shares
  BY <1>3, <1>4, ZenonT(30) DEF CoreInv, ClientsOK, ItemOfOK
<1>12. Around(Clients \ {c}, Clients \ {i})
  <2>1. \A j \in Clients : item[j].pos \in Nat
    BY <1>1, ZenonT(30) DEF TypeOK, ItemRec
  <2>2. \A j \in Clients \ {i} : Keeps(j, Clients \ {c})
    BY <1>6, <2>1, SMT, SMTT(30) DEF Keeps
  <2>3. \A d \in Clients \ {c} : cl[d].item = i => cl[d].pc \notin OpenPcs
    BY <1>0, <1>3, ZenonT(30) DEF CoreInv, OneProducer
  <2>4. Keeps(i, Clients \ {c})
    BY <1>4, <1>7, <2>1, <2>3, SMT, SMTT(30) DEF Keeps
  <2>5. \A j \in Clients : Keeps(j, Clients \ {c})
    BY <2>2, <2>4, ZenonT(30)
  <2>6. db <= db' /\ faults' <= faults
    BY <1>0, <1>1, SMT, SMTT(30)
  <2>7. cl'[c].pc \notin {"start", "store"} /\ cl[c].pc # "fetching"
    BY <1>0, <1>5, ZenonT(30) DEF OpenPcs
  <2> QED
    BY <1>0, <1>3, <1>5, <1>6, <2>5, <2>6, <2>7, SMT, SMTT(30) DEF Around
<1>13. cl[c].got = <<>> /\ cl[c].head = 0 /\ cl[c].res = "none" /\ ~cl[c].shares /\ c \in Active
  BY <1>0, <1>2, ZenonT(30) DEF ClientOK, HeadPcs, OpenPcs
<1>14. ClientOK(c)'
  BY <1>0, <1>3, <1>5, <1>13, ZenonT(30) DEF ClientOK, Active, HeadPcs, OpenPcs
<1>15. GotOK(c)' /\ ErrorOK(c)'
  BY <1>2, <1>5, <1>13, ZenonT(30) DEF GotOK, ErrorOK
<1>16. ItemOfOK(c)'
  BY <1>3, <1>5, <1>7, <1>13, ZenonT(30) DEF ItemOfOK, HeadPcs, OpenPcs
<1>17. BeganOK(c)'
  <2>1. \A j \in Clients : item[j].expired => item'[j].expired
    BY <1>6, <1>7, ZenonT(30)
  <2>2. cl[c].began.expired \subseteq Clients
    BY <1>1, ZenonT(30) DEF ClientRec
  <2> QED
    BY <1>0, <1>2, <1>5, <2>1, <2>2, ZenonT(30) DEF BeganOK, Active
<1>18. ItemOK(i)'
  <2>1. cl'[i].pc \notin {"start", "store"}
    BY <1>4, <1>5, ZenonT(30) DEF ItemOK
  <2>2. item[i].err = "none" /\ 1 > 0
    BY <1>4, SMT, SMTT(30) DEF ItemOK
  <2> QED
    BY <1>0, <1>4, <1>7, <2>1, <2>2, ZenonT(30) DEF ItemOK, Active
<1>19. FetchOK(i)'
  BY <1>4, <1>7, ZenonT(30) DEF FetchOK, ItemOK
<1>20. CountOK(i)'
  <2>1. Live(i)' = {}
    BY <1>5, <1>11, ZenonT(30) DEF Live
  <2>2. ~item[i].stopped
    BY <1>4, ZenonT(30) DEF ItemOK
  <2> QED
    BY <1>7, <2>1, <2>2, SMT, SMTT(30) DEF ClientSets, CountOK
<1> QED
  BY <1>8, <1>9, <1>10, <1>12, <1>14, <1>15, <1>16, <1>17, <1>18, <1>19, <1>20, OneStep, ZenonT(30)

\* A client gets an instance of its own (the last case of Unwrap).
Clones(c) ==
  /\ cl[c].pc = "unwrap" /\ item[cl[c].item].st = "ready" /\ ~item[cl[c].item].stopped
  /\ cl' = [cl EXCEPT ![c] = SetPcShares(cl[c], "reading")]
  /\ item' = [item EXCEPT ![cl[c].item] = clone(item[cl[c].item])]
  /\ UNCHANGED <<load, entry, ctxDone, db, faults>>

\* A clone keeps the invariant: one instance more, and one more in the count.
LEMMA ClonesKeeps ==
  ASSUME SharedAssumption, ClientSets, CoreInv, NEW c \in Clients, Clones(c)
  PROVE  CoreInv'
<1>f. ASSUME NEW r0 \in ClientRec, NEW p0
      PROVE  /\ SetPcShares(r0, p0).pc = p0 /\ SetPcShares(r0, p0).item = r0.item /\ SetPcShares(r0, p0).shares
             /\ SetPcShares(r0, p0).head = r0.head /\ SetPcShares(r0, p0).got = r0.got /\ SetPcShares(r0, p0).ver = r0.ver
             /\ SetPcShares(r0, p0).began = r0.began /\ SetPcShares(r0, p0).res = r0.res
             /\ p0 \in Pcs => SetPcShares(r0, p0) \in ClientRec
  BY ZenonT(30) DEF ClientRec, SetPcShares
<1>g. ASSUME NEW r0 \in ItemRec
      PROVE  /\ clone(r0).st = r0.st /\ clone(r0).refs = r0.refs + 1 /\ clone(r0).stopped = r0.stopped
             /\ clone(r0).ver = r0.ver /\ clone(r0).pos = r0.pos /\ clone(r0).items = r0.items
             /\ clone(r0).err = r0.err /\ clone(r0).fetching = r0.fetching /\ clone(r0).rowsOpen = r0.rowsOpen
             /\ clone(r0).admission = r0.admission /\ clone(r0).idle = "armed" /\ clone(r0).timer = r0.timer
             /\ clone(r0).expired = r0.expired
             /\ clone(r0) \in ItemRec
  <2>1. PICK n : n = r0.refs + 1
    BY ZenonT(30)
  <2>2. n \in Nat
    BY <2>1, SMT, SMTT(30) DEF ItemRec
  <2>3. clone(r0) = [r0 EXCEPT !.refs = n, !.idle = "armed"]
    BY <2>1, ZenonT(30) DEF clone
  <2> QED
    BY <2>1, <2>2, <2>3, ZenonT(30) DEF ItemRec
<1>0. UNCHANGED <<load, entry, ctxDone, db, faults>> /\ cl[c].pc = "unwrap"
  BY ZenonT(30) DEF Clones
<1>1. TypeOK /\ cl[c] \in ClientRec /\ db \in Nat /\ faults \in Nat
  BY ZenonT(30) DEF CoreInv, TypeOK
<1>2. ClientOK(c) /\ GotOK(c) /\ ItemOfOK(c) /\ ErrorOK(c) /\ BeganOK(c)
  BY ZenonT(30) DEF CoreInv, ClientsOK
<1>3. PICK i \in Clients : i = cl[c].item /\ i # None
  BY <1>0, <1>1, <1>2, ZenonT(30) DEF ClientOK, ClientRec
<1>4. /\ item[i].st = "ready" /\ ~item[i].stopped /\ ItemOK(i) /\ FetchOK(i) /\ CountOK(i)
      /\ item[i] \in ItemRec /\ item[i].pos \in Nat /\ item[i].refs \in Nat
  BY <1>1, <1>3, ZenonT(30) DEF CoreInv, ItemsOK, TypeOK, ItemRec, Clones
<1>5. /\ cl' \in [Clients -> ClientRec] /\ \A d \in Clients \ {c} : cl'[d] = cl[d]
      /\ cl'[c].pc = "reading" /\ cl'[c].res = cl[c].res /\ cl'[c].item = cl[c].item
      /\ cl'[c].shares /\ cl'[c].head = cl[c].head /\ cl'[c].got = cl[c].got
      /\ cl'[c].ver = cl[c].ver /\ cl'[c].began = cl[c].began
  <2>1. cl' = [cl EXCEPT ![c] = SetPcShares(cl[c], "reading")]
    BY ZenonT(30) DEF Clones
  <2>2. "reading" \in Pcs
    BY ZenonT(30) DEF Pcs, HeadPcs
  <2>3. SetPcShares(cl[c], "reading") \in ClientRec
    BY <1>1, <2>2, <1>f, ZenonT(30)
  <2>4. cl' \in [Clients -> ClientRec] /\ cl'[c] = SetPcShares(cl[c], "reading") /\ \A d \in Clients \ {c} : cl'[d] = cl[d]
    BY <1>1, <2>1, <2>3, ClientSet, ZenonT(30)
  <2> QED
    BY <1>1, <2>4, <1>f, SMT, SMTT(30)
<1>6. item' \in [Clients -> ItemRec] /\ item'[i] = clone(item[i]) /\ \A j \in Clients \ {i} : item'[j] = item[j]
  <2>1. item' = [item EXCEPT ![i] = clone(item[i])]
    BY <1>3, ZenonT(30) DEF Clones
  <2>2. clone(item[i]) \in ItemRec
    BY <1>4, <1>g, ZenonT(30)
  <2> QED
    BY <1>1, <2>1, <2>2, ItemSet, ZenonT(30)
<1>7. /\ item'[i].st = "ready" /\ item'[i].refs = item[i].refs + 1 /\ item'[i].stopped = item[i].stopped
      /\ item'[i].pos = item[i].pos /\ item'[i].items = item[i].items /\ item'[i].err = item[i].err
      /\ item'[i].fetching = item[i].fetching /\ item'[i].rowsOpen = item[i].rowsOpen
      /\ item'[i].expired = item[i].expired
  BY <1>4, <1>6, <1>g, SMT, SMTT(30)
<1>8. TypeOK'
  BY <1>0, <1>1, <1>5, <1>6, ZenonT(30) DEF TypeOK
<1>9. OneProducer'
  BY <1>5, ProducersKeep, ZenonT(30) DEF OpenPcs
<1>10. EntriesOK'
  BY <1>0, <1>6, <1>7, EntriesKeep, ZenonT(30)
<1>11. Around(Clients \ {c}, Clients \ {i})
  <2>1. \A j \in Clients : item[j].pos \in Nat
    BY <1>1, ZenonT(30) DEF TypeOK, ItemRec
  <2>2. \A j \in Clients \ {i} : Keeps(j, Clients \ {c})
    BY <1>6, <2>1, SMT, SMTT(30) DEF Keeps
  <2>3. Keeps(i, Clients \ {c})
    BY <1>4, <1>7, <2>1, SMT, SMTT(30) DEF Keeps
  <2>4. \A j \in Clients : Keeps(j, Clients \ {c})
    BY <2>2, <2>3, ZenonT(30)
  <2>5. db <= db' /\ faults' <= faults
    BY <1>0, <1>1, SMT, SMTT(30)
  <2>6. cl'[c].pc \notin {"start", "store"} /\ cl[c].pc # "fetching"
    BY <1>0, <1>5, ZenonT(30)
  <2> QED
    BY <1>0, <1>3, <1>5, <1>6, <2>4, <2>5, <2>6, SMT, SMTT(30) DEF Around
<1>12. cl[c].got = <<>> /\ cl[c].head = 0 /\ cl[c].res = "none" /\ ~cl[c].shares /\ c \in Active
  BY <1>0, <1>2, ZenonT(30) DEF ClientOK, HeadPcs
<1>13. ClientOK(c)'
  <2>1. Len(<<>>) = 0
    BY ZenonT(30)
  <2> QED
    BY <1>0, <1>3, <1>5, <1>12, <2>1, ZenonT(30) DEF ClientOK, Active, HeadPcs, OpenPcs
<1>14. GotOK(c)' /\ ErrorOK(c)'
  BY <1>2, <1>5, <1>12, ZenonT(30) DEF GotOK, ErrorOK
<1>15. ItemOfOK(c)'
  <2>1. cl'[c].head <= item'[i].pos
    BY <1>4, <1>5, <1>7, <1>12, SMT, SMTT(30)
  <2> QED
    BY <1>3, <1>5, <1>7, <2>1, ZenonT(30) DEF ItemOfOK, HeadPcs, OpenPcs
<1>16. BeganOK(c)'
  <2>1. \A j \in Clients : item[j].expired => item'[j].expired
    BY <1>6, <1>7, ZenonT(30)
  <2>2. cl[c].began.expired \subseteq Clients
    BY <1>1, ZenonT(30) DEF ClientRec
  <2> QED
    BY <1>0, <1>2, <1>5, <2>1, <2>2, ZenonT(30) DEF BeganOK, Active
<1>17. Cardinality(Live(i)) \in Nat
  BY ZenonT(30) DEF ClientSets, Live
<1>18. item[i].refs = Cardinality(Live(i)) + 1
  BY <1>4, ZenonT(30) DEF CountOK
<1>19. ItemOK(i)'
  <2>1. cl'[i].pc \notin {"start", "store"}
    BY <1>4, <1>5, ZenonT(30) DEF ItemOK
  <2>2. item[i].refs > 0 /\ item[i].refs + 1 > 0
    BY <1>17, <1>18, SMT, SMTT(30)
  <2> QED
    BY <1>0, <1>4, <1>7, <2>1, <2>2, ZenonT(30) DEF ItemOK, Active
<1>20. FetchOK(i)'
  <2>1. item[i].fetching # c
    BY <1>0, <1>4, ZenonT(30) DEF FetchOK, SharedAssumption
  <2> QED
    BY <1>4, <1>5, <1>7, <2>1, SMT, SMTT(30) DEF FetchOK, TypeOK, ItemRec
<1>21. CountOK(i)'
  <2>1. Live(i)' = Live(i) \cup {c} /\ c \notin Live(i)
    BY <1>3, <1>5, <1>12, ZenonT(30) DEF Live
  <2>2. Cardinality(Live(i)') = Cardinality(Live(i)) + 1
    BY <2>1, SMT, SMTT(30) DEF ClientSets, Live
  <2> QED
    BY <1>4, <1>7, <1>17, <1>18, <2>2, ZenonT(30) DEF CountOK
<1> QED
  BY <1>8, <1>9, <1>10, <1>11, <1>13, <1>14, <1>15, <1>16, <1>19, <1>20, <1>21, OneStep, ZenonT(30)

\* One row more continues the rows before it.
LEMMA AppendRow ==
  ASSUME NEW g \in Seq(Nat), NEW h \in Nat, h = Len(g) + 1, \A n \in 1..Len(g) : g[n] = n
  PROVE  /\ Append(g, h) \in Seq(Nat) /\ Len(Append(g, h)) = h /\ Append(g, h) # <<>>
         /\ \A n \in 1..h : Append(g, h)[n] = n
<1>1. Append(g, h) \in Seq(Nat) /\ Len(Append(g, h)) = h
  BY SMT, SMTT(30)
<1>2. ASSUME NEW n \in 1..h PROVE Append(g, h)[n] = n
  <2>1. CASE n = h
    BY <2>1, SMT, SMTT(30)
  <2>2. CASE n # h
    <3>1. n \in 1..Len(g)
      BY <2>2, SMT, SMTT(30)
    <3>2. Append(g, h)[n] = g[n]
      BY <3>1, SMT, SMTT(30)
    <3> QED
      BY <3>1, <3>2, ZenonT(30)
  <2> QED
    BY <2>1, <2>2, ZenonT(30)
<1>3. Append(g, h) # <<>>
  <2>1. Len(<<>>) = 0
    BY ZenonT(30)
  <2>2. h # 0
    BY SMT, SMTT(30)
  <2> QED
    BY <1>1, <2>1, <2>2, ZenonT(30)
<1> QED
  BY <1>1, <1>2, <1>3, ZenonT(30)

\* A client takes the item at its head (NextItem).
Takes(c) ==
  /\ cl[c].pc = "reading" /\ cl[c].head < Len(item[cl[c].item].items)
  /\ cl' = [cl EXCEPT ![c] = SetHeadVerGot(cl[c], cl[c].head + 1, item[cl[c].item].ver,
                                           Append(cl[c].got, item[cl[c].item].items[cl[c].head + 1]))]
  /\ UNCHANGED <<load, entry, item, ctxDone, db, faults>>

\* Taking an item keeps the invariant: the rows read stay a prefix of those of the item.
LEMMA TakesKeeps ==
  ASSUME SharedAssumption, ClientSets, CoreInv, NEW c \in Clients, Takes(c)
  PROVE  CoreInv'
<1>f. ASSUME NEW r0 \in ClientRec, NEW h0, NEW w0, NEW g0
      PROVE  /\ SetHeadVerGot(r0, h0, w0, g0).pc = r0.pc /\ SetHeadVerGot(r0, h0, w0, g0).item = r0.item /\ SetHeadVerGot(r0, h0, w0, g0).shares = r0.shares
             /\ SetHeadVerGot(r0, h0, w0, g0).head = h0 /\ SetHeadVerGot(r0, h0, w0, g0).got = g0 /\ SetHeadVerGot(r0, h0, w0, g0).ver = w0
             /\ SetHeadVerGot(r0, h0, w0, g0).began = r0.began /\ SetHeadVerGot(r0, h0, w0, g0).res = r0.res
             /\ h0 \in Nat /\ w0 \in Nat \cup {None} /\ g0 \in Seq(Nat) => SetHeadVerGot(r0, h0, w0, g0) \in ClientRec
  BY ZenonT(30) DEF ClientRec, SetHeadVerGot
<1>0. UNCHANGED <<load, entry, item, ctxDone, db, faults>> /\ cl[c].pc = "reading"
  BY ZenonT(30) DEF Takes
<1>1. TypeOK /\ cl[c] \in ClientRec /\ db \in Nat /\ faults \in Nat
  BY ZenonT(30) DEF CoreInv, TypeOK
<1>2. ClientOK(c) /\ GotOK(c) /\ ItemOfOK(c) /\ ErrorOK(c) /\ BeganOK(c)
  BY ZenonT(30) DEF CoreInv, ClientsOK
<1>3. PICK i \in Clients : i = cl[c].item /\ i # None
  BY <1>0, <1>1, <1>2, ZenonT(30) DEF ClientOK, ClientRec, HeadPcs
<1>4. /\ ItemOK(i) /\ item[i] \in ItemRec /\ item[i].pos \in Nat /\ item[i].items \in Seq(Nat)
      /\ item[i].ver \in Nat \cup {None}
  BY <1>1, <1>3, ZenonT(30) DEF CoreInv, ItemsOK, TypeOK, ItemRec
<1>5. /\ cl[c].head \in Nat /\ cl[c].got \in Seq(Nat) /\ cl[c].head = Len(cl[c].got) /\ cl[c].res = "none"
      /\ cl[c].shares /\ Len(item[i].items) = item[i].pos /\ cl[c].head < item[i].pos
  <2>1. cl[c].head \in Nat /\ cl[c].got \in Seq(Nat)
    BY <1>1, ZenonT(30) DEF ClientRec
  <2>2. cl[c].head = Len(cl[c].got) /\ cl[c].res = "none" /\ cl[c].shares
    BY <1>0, <1>2, ZenonT(30) DEF ClientOK, HeadPcs
  <2>3. Len(item[i].items) = item[i].pos /\ cl[c].head < Len(item[i].items)
    BY <1>3, <1>4, ZenonT(30) DEF ItemOK, Takes
  <2> QED
    BY <2>1, <2>2, <2>3, ZenonT(30)
<1>6. PICK h, x, w, g : h = cl[c].head + 1 /\ x = item[i].items[h] /\ w = item[i].ver /\ g = Append(cl[c].got, x)
  BY ZenonT(30)
<1>7. h \in Nat /\ h \in 1..item[i].pos /\ h <= item[i].pos
  BY <1>4, <1>5, <1>6, SMT, SMTT(30)
<1>8. x = h
  BY <1>4, <1>6, <1>7, ZenonT(30) DEF ItemOK
<1>9. g \in Seq(Nat) /\ Len(g) = h /\ g # <<>> /\ \A n \in 1..Len(g) : g[n] = n
  <2>1. \A n \in 1..Len(cl[c].got) : cl[c].got[n] = n
    BY <1>2, ZenonT(30) DEF GotOK
  <2>2. h = Len(cl[c].got) + 1
    BY <1>5, <1>6, ZenonT(30)
  <2>3. g = Append(cl[c].got, h)
    BY <1>6, <1>8, ZenonT(30)
  <2> QED
    BY <1>5, <1>7, <2>1, <2>2, <2>3, AppendRow, SMT, SMTT(30)
<1>10. cl' = [cl EXCEPT ![c] = SetHeadVerGot(cl[c], h, w, g)]
  BY <1>3, <1>6, ZenonT(30) DEF Takes
<1>11. SetHeadVerGot(cl[c], h, w, g) \in ClientRec
  BY <1>1, <1>4, <1>6, <1>7, <1>9, <1>f, ZenonT(30)
<1>12. cl' \in [Clients -> ClientRec] /\ cl'[c] = SetHeadVerGot(cl[c], h, w, g) /\ \A d \in Clients \ {c} : cl'[d] = cl[d]
  BY <1>1, <1>10, <1>11, ClientSet, ZenonT(30)
<1>13. /\ cl'[c].pc = cl[c].pc /\ cl'[c].res = cl[c].res /\ cl'[c].item = cl[c].item
       /\ cl'[c].shares = cl[c].shares /\ cl'[c].head = h /\ cl'[c].got = g
       /\ cl'[c].ver = w /\ cl'[c].began = cl[c].began
  BY <1>1, <1>12, <1>f, SMT, SMTT(30)
<1>14. TypeOK'
  BY <1>0, <1>1, <1>12, ZenonT(30) DEF TypeOK
<1>15. OneProducer'
  BY <1>12, <1>13, ProducersKeep, ZenonT(30)
<1>16. EntriesOK'
  BY <1>0, EntriesKeep, ZenonT(30)
<1>17. Around(Clients \ {c}, Clients)
  <2>1. \A j \in Clients : item[j].pos \in Nat
    BY <1>1, ZenonT(30) DEF TypeOK, ItemRec
  <2>2. \A j \in Clients : Keeps(j, Clients \ {c})
    BY <1>0, <2>1, SMT, SMTT(30) DEF Keeps
  <2>3. db <= db' /\ faults' <= faults
    BY <1>0, <1>1, SMT, SMTT(30)
  <2> QED
    BY <1>0, <1>12, <1>13, <2>2, <2>3, ZenonT(30) DEF Around
<1>18. ClientOK(c)'
  BY <1>0, <1>2, <1>5, <1>9, <1>13, ZenonT(30) DEF ClientOK, Active, HeadPcs, OpenPcs
<1>19. GotOK(c)'
  BY <1>5, <1>9, <1>13, ZenonT(30) DEF GotOK
<1>20. ItemOfOK(c)'
  BY <1>0, <1>2, <1>3, <1>7, <1>13, ZenonT(30) DEF ItemOfOK
<1>21. ErrorOK(c)'
  BY <1>5, <1>13, ZenonT(30) DEF ErrorOK
<1>22. BeganOK(c)'
  BY <1>0, <1>2, <1>3, <1>13, ZenonT(30) DEF BeganOK, Active
<1> QED
  BY <1>14, <1>15, <1>16, <1>17, <1>18, <1>19, <1>20, <1>21, <1>22, ClientOnlyStep, ZenonT(30)

\* A client begins to fetch for its item (NextItem).
Fetches(c) ==
  /\ cl[c].pc = "reading" /\ item[cl[c].item].fetching = None
  /\ cl' = [cl EXCEPT ![c] = SetPcRes(cl[c], "fetching", cl[c].res)]
  /\ item' = [item EXCEPT ![cl[c].item] = SetFetching(item[cl[c].item], c)]
  /\ UNCHANGED <<load, entry, ctxDone, db, faults>>

\* The beginning of a fetch keeps the invariant: no other client fetches for that item.
LEMMA FetchesKeeps ==
  ASSUME SharedAssumption, ClientSets, CoreInv, NEW c \in Clients, Fetches(c)
  PROVE  CoreInv'
<1>f. ASSUME NEW r0 \in ItemRec, NEW f0
      PROVE  /\ SetFetching(r0, f0).st = r0.st /\ SetFetching(r0, f0).refs = r0.refs /\ SetFetching(r0, f0).stopped = r0.stopped
             /\ SetFetching(r0, f0).ver = r0.ver /\ SetFetching(r0, f0).pos = r0.pos /\ SetFetching(r0, f0).items = r0.items
             /\ SetFetching(r0, f0).err = r0.err /\ SetFetching(r0, f0).fetching = f0 /\ SetFetching(r0, f0).rowsOpen = r0.rowsOpen
             /\ SetFetching(r0, f0).admission = r0.admission /\ SetFetching(r0, f0).idle = r0.idle /\ SetFetching(r0, f0).timer = r0.timer
             /\ SetFetching(r0, f0).expired = r0.expired
             /\ f0 \in Clients \cup {None} => SetFetching(r0, f0) \in ItemRec
  BY ZenonT(30) DEF ItemRec, SetFetching
<1>0. UNCHANGED <<load, entry, ctxDone, db, faults>> /\ cl[c].pc = "reading"
  BY ZenonT(30) DEF Fetches
<1>1. TypeOK /\ cl[c] \in ClientRec /\ db \in Nat /\ faults \in Nat
  BY ZenonT(30) DEF CoreInv, TypeOK
<1>2. ClientOK(c) /\ GotOK(c) /\ ItemOfOK(c) /\ ErrorOK(c) /\ BeganOK(c)
  BY ZenonT(30) DEF CoreInv, ClientsOK
<1>3. PICK i \in Clients : i = cl[c].item /\ i # None
  BY <1>0, <1>1, <1>2, ZenonT(30) DEF ClientOK, ClientRec, HeadPcs
<1>4. /\ item[i].st = "ready" /\ cl[c].shares /\ item[i].fetching = None
      /\ ItemOK(i) /\ CountOK(i) /\ item[i] \in ItemRec /\ item[i].pos \in Nat
  <2>1. cl[c].shares
    BY <1>0, <1>2, ZenonT(30) DEF ClientOK, HeadPcs
  <2> QED
    BY <1>1, <1>2, <1>3, <2>1, ZenonT(30) DEF CoreInv, ItemsOK, TypeOK, ItemRec, Fetches, ItemOfOK
<1>5. /\ cl' \in [Clients -> ClientRec] /\ \A d \in Clients \ {c} : cl'[d] = cl[d]
      /\ cl'[c].pc = "fetching" /\ cl'[c].res = cl[c].res /\ cl'[c].item = cl[c].item
      /\ cl'[c].shares = cl[c].shares /\ cl'[c].head = cl[c].head /\ cl'[c].got = cl[c].got
      /\ cl'[c].ver = cl[c].ver /\ cl'[c].began = cl[c].began
  <2>1. cl' = [cl EXCEPT ![c] = SetPcRes(cl[c], "fetching", cl[c].res)]
    BY ZenonT(30) DEF Fetches
  <2>2. "fetching" \in Pcs
    BY ZenonT(30) DEF Pcs, HeadPcs
  <2> QED
    BY <1>1, <2>1, <2>2, MovedFields, ZenonT(30)
<1>6. item' \in [Clients -> ItemRec] /\ item'[i] = SetFetching(item[i], c) /\ \A j \in Clients \ {i} : item'[j] = item[j]
  <2>1. item' = [item EXCEPT ![i] = SetFetching(item[i], c)]
    BY <1>3, ZenonT(30) DEF Fetches
  <2>2. SetFetching(item[i], c) \in ItemRec
    BY <1>4, <1>f, ZenonT(30)
  <2> QED
    BY <1>1, <2>1, <2>2, ItemSet, ZenonT(30)
<1>7. /\ item'[i].st = item[i].st /\ item'[i].refs = item[i].refs /\ item'[i].stopped = item[i].stopped
      /\ item'[i].pos = item[i].pos /\ item'[i].items = item[i].items /\ item'[i].err = item[i].err
      /\ item'[i].fetching = c /\ item'[i].rowsOpen = item[i].rowsOpen
      /\ item'[i].expired = item[i].expired
  BY <1>4, <1>6, <1>f, SMT, SMTT(30)
<1>8. TypeOK'
  BY <1>0, <1>1, <1>5, <1>6, ZenonT(30) DEF TypeOK
<1>9. OneProducer'
  BY <1>5, ProducersKeep, ZenonT(30) DEF OpenPcs
<1>10. EntriesOK'
  BY <1>0, <1>6, <1>7, EntriesKeep, ZenonT(30)
<1>11. Around(Clients \ {c}, Clients \ {i})
  <2>1. \A j \in Clients : item[j].pos \in Nat
    BY <1>1, ZenonT(30) DEF TypeOK, ItemRec
  <2>2. \A j \in Clients \ {i} : Keeps(j, Clients \ {c})
    BY <1>6, <2>1, SMT, SMTT(30) DEF Keeps
  <2>3. Keeps(i, Clients \ {c})
    BY <1>4, <1>7, <2>1, SMT, SMTT(30) DEF Keeps, SharedAssumption
  <2>4. \A j \in Clients : Keeps(j, Clients \ {c})
    BY <2>2, <2>3, ZenonT(30)
  <2>5. db <= db' /\ faults' <= faults
    BY <1>0, <1>1, SMT, SMTT(30)
  <2>6. cl'[c].pc \notin {"start", "store"} /\ cl[c].pc # "fetching"
    BY <1>0, <1>5, ZenonT(30)
  <2> QED
    BY <1>0, <1>3, <1>5, <1>6, <2>4, <2>5, <2>6, SMT, SMTT(30) DEF Around
<1>12. ClientOK(c)'
  BY <1>0, <1>2, <1>5, ZenonT(30) DEF ClientOK, Active, HeadPcs, OpenPcs
<1>13. GotOK(c)' /\ ErrorOK(c)'
  <2>1. cl[c].res = "none"
    BY <1>0, <1>2, ZenonT(30) DEF ClientOK, HeadPcs
  <2> QED
    BY <1>2, <1>5, <2>1, ZenonT(30) DEF GotOK, ErrorOK
<1>14. ItemOfOK(c)'
  <2>1. cl'[c].item = i /\ item'[i].st = "ready" /\ item'[i].fetching = c /\ item'[i].pos = item[i].pos
    BY <1>3, <1>4, <1>5, <1>7, ZenonT(30)
  <2>2. cl'[c].head <= item'[i].pos
    <3>1. cl[c].head <= item[i].pos
      BY <1>0, <1>2, <1>3, ZenonT(30) DEF ItemOfOK, HeadPcs
    <3> QED BY <1>5, <2>1, <3>1, ZenonT(30)
  <2>3. cl'[c].pc \notin OpenPcs
    BY <1>5, ZenonT(30) DEF OpenPcs
  <2>4. item'[i].st # "none"
    BY <2>1, ZenonT(30)
  <2> QED
    BY <2>1, <2>2, <2>3, <2>4, ZenonT(30) DEF ItemOfOK
<1>15. BeganOK(c)'
  <2>1. \A j \in Clients : item[j].expired => item'[j].expired
    BY <1>6, <1>7, ZenonT(30)
  <2>2. cl[c].began.expired \subseteq Clients
    BY <1>1, ZenonT(30) DEF ClientRec
  <2> QED
    BY <1>0, <1>2, <1>5, <2>1, <2>2, ZenonT(30) DEF BeganOK, Active
<1>16. ItemOK(i)'
  <2>1. cl'[i].pc \notin {"start", "store"}
    BY <1>4, <1>5, ZenonT(30) DEF ItemOK
  <2> QED
    BY <1>0, <1>4, <1>7, <2>1, ZenonT(30) DEF ItemOK, Active
<1>17. FetchOK(i)'
  BY <1>3, <1>5, <1>7, ZenonT(30) DEF FetchOK
<1>18. CountOK(i)'
  <2>1. Live(i)' = Live(i)
    BY <1>5, ZenonT(30) DEF Live
  <2> QED
    BY <1>4, <1>7, <2>1, ZenonT(30) DEF CountOK
<1> QED
  BY <1>8, <1>9, <1>10, <1>11, <1>12, <1>13, <1>14, <1>15, <1>16, <1>17, <1>18, OneStep, ZenonT(30)

\* An instance of a client counts.
LEMMA LiveRefs ==
  ASSUME SharedAssumption, ClientSets, CoreInv, NEW c \in Clients, NEW i \in Clients, cl[c].item = i, cl[c].shares
  PROVE  /\ item[i].st = "ready" /\ item[i].refs \in Nat /\ item[i].refs >= 1
         /\ ~item[i].stopped => item[i].refs >= 2
<1>1. item[i].st = "ready"
  <2>1. i # None
    BY ZenonT(30) DEF SharedAssumption
  <2> QED
    BY <2>1, ZenonT(30) DEF CoreInv, ClientsOK, ItemOfOK
<1>2. item[i].refs = Cardinality(Live(i)) + (IF item[i].stopped THEN 0 ELSE 1)
  BY <1>1, ZenonT(30) DEF CoreInv, ItemsOK, CountOK
<1>3. Cardinality(Live(i)) \in Nat
  BY ZenonT(30) DEF ClientSets, Live
<1>4. c \in Live(i)
  BY ZenonT(30) DEF Live
<1>5. Cardinality(Live(i)) # 0
  BY <1>4, ZenonT(30) DEF ClientSets, Live
<1> QED
  BY <1>1, <1>2, <1>3, <1>5, SMT, SMTT(30)

NextRows(s, m, t) == s \o [n \in 1..(t - m) |-> m + n]

\* The rows fetched continue those before them.
LEMMA ConcatRows ==
  ASSUME NEW s \in Seq(Nat), NEW m \in Nat, NEW t \in Nat, m <= t, Len(s) = m, \A n \in 1..m : s[n] = n
  PROVE  /\ NextRows(s, m, t) \in Seq(Nat) /\ Len(NextRows(s, m, t)) = t
         /\ \A n \in 1..t : NextRows(s, m, t)[n] = n
<1> DEFINE y == [n \in 1..(t - m) |-> m + n]
<1>1. t - m \in Nat
  BY SMT, SMTT(30)
<1>2. y \in Seq(Nat) /\ Len(y) = t - m
  BY <1>1, SMT, SMTT(30)
<1>3. \A n \in 1..(t - m) : y[n] = m + n
  BY ZenonT(30)
<1> HIDE DEF y
<1>4. s \o y \in Seq(Nat) /\ Len(s \o y) = t
  BY <1>2, SMT, SMTT(30)
<1>5. ASSUME NEW n \in 1..t PROVE (s \o y)[n] = n
  <2>1. CASE n <= m
    <3>1. n \in 1..m
      BY <2>1, SMT, SMTT(30)
    <3>2. (s \o y)[n] = s[n]
      BY <1>2, <3>1, SMT, SMTT(30)
    <3> QED
      BY <3>1, <3>2, ZenonT(30)
  <2>2. CASE n > m
    <3>1. (s \o y)[n] = y[n - m] /\ n - m \in 1..(t - m)
      BY <1>2, <2>2, SMT, SMTT(30)
    <3>2. y[n - m] = m + (n - m) /\ m + (n - m) = n
      BY <1>3, <3>1, SMT, SMTT(30)
    <3> QED
      BY <3>1, <3>2, ZenonT(30)
  <2>3. n <= m \/ n > m
    BY SMT, SMTT(30)
  <2> QED
    BY <2>1, <2>2, <2>3, ZenonT(30)
<1> QED
  BY <1>4, <1>5, ZenonT(30) DEF y, NextRows

\* A fetch ends (fetchMore) with the rows up to t and the error e.
FetchEnds(c, t, x, e) ==
  /\ cl[c].pc = "fetching"
  /\ cl' = [cl EXCEPT ![c] = SetPcRes(cl[c], "reading", cl[c].res)]
  /\ item' \in [Clients -> ItemRec] /\ \A j \in Clients : j # cl[c].item => item'[j] = item[j]
  /\ LET r == item[cl[c].item]
         q == item'[cl[c].item]
     IN /\ q.st = r.st /\ q.refs = r.refs /\ q.stopped = r.stopped /\ q.pos = t /\ q.items = x
        /\ q.err = e /\ q.fetching = None /\ q.rowsOpen = r.rowsOpen /\ q.expired = r.expired
        /\ t \in Nat /\ r.pos <= t /\ t <= Rows /\ Len(x) = t /\ \A n \in 1..t : x[n] = n
        /\ e = "done" => t = Rows
        /\ e = "err" => faults' < load.faults
  /\ faults' \in Nat /\ faults' <= faults
  /\ UNCHANGED <<load, entry, ctxDone, db>>

\* The end of a fetch keeps the invariant.
LEMMA FetchEndsKeeps ==
  ASSUME SharedAssumption, ClientSets, CoreInv, NEW c \in Clients, NEW t, NEW x, NEW e, FetchEnds(c, t, x, e)
  PROVE  CoreInv'
<1>0. UNCHANGED <<load, entry, ctxDone, db>> /\ faults' \in Nat /\ faults' <= faults /\ cl[c].pc = "fetching"
  BY ZenonT(30) DEF FetchEnds
<1>1. TypeOK /\ cl[c] \in ClientRec /\ db \in Nat /\ faults \in Nat /\ faults <= load.faults /\ load.faults \in Nat
  BY ZenonT(30) DEF CoreInv, TypeOK, SharedAssumption
<1>2. ClientOK(c) /\ GotOK(c) /\ ItemOfOK(c) /\ ErrorOK(c) /\ BeganOK(c)
  BY ZenonT(30) DEF CoreInv, ClientsOK
<1>3. PICK i \in Clients : i = cl[c].item /\ i # None
  BY <1>0, <1>1, <1>2, ZenonT(30) DEF ClientOK, ClientRec, HeadPcs
<1>4. /\ item[i].st = "ready" /\ cl[c].shares /\ item[i].fetching = c
      /\ ItemOK(i) /\ CountOK(i) /\ item[i] \in ItemRec /\ item[i].pos \in Nat /\ cl[c].head \in Nat
      /\ cl[c].head <= item[i].pos
  <2>1. cl[c].shares /\ cl[c].head \in Nat
    BY <1>0, <1>1, <1>2, ZenonT(30) DEF ClientOK, HeadPcs, ClientRec
  <2>2. ItemOK(i) /\ CountOK(i) /\ item[i] \in ItemRec /\ item[i].pos \in Nat
    BY <1>1, ZenonT(30) DEF CoreInv, ItemsOK, TypeOK, ItemRec
  <2> QED
    BY <1>0, <1>2, <1>3, <2>1, <2>2, ZenonT(30) DEF ItemOfOK, HeadPcs
<1>5. /\ cl' \in [Clients -> ClientRec] /\ \A d \in Clients \ {c} : cl'[d] = cl[d]
      /\ cl'[c].pc = "reading" /\ cl'[c].res = cl[c].res /\ cl'[c].item = cl[c].item
      /\ cl'[c].shares = cl[c].shares /\ cl'[c].head = cl[c].head /\ cl'[c].got = cl[c].got
      /\ cl'[c].ver = cl[c].ver /\ cl'[c].began = cl[c].began
  <2>1. cl' = [cl EXCEPT ![c] = SetPcRes(cl[c], "reading", cl[c].res)]
    BY ZenonT(30) DEF FetchEnds
  <2>2. "reading" \in Pcs
    BY ZenonT(30) DEF Pcs, HeadPcs
  <2> QED
    BY <1>1, <2>1, <2>2, MovedFields, ZenonT(30)
<1>6. item' \in [Clients -> ItemRec] /\ \A j \in Clients \ {i} : item'[j] = item[j]
  BY <1>3, ZenonT(30) DEF FetchEnds
<1>7. /\ item'[i].st = item[i].st /\ item'[i].refs = item[i].refs /\ item'[i].stopped = item[i].stopped
      /\ item'[i].pos = t /\ item'[i].items = x /\ item'[i].err = e
      /\ item'[i].fetching = None /\ item'[i].rowsOpen = item[i].rowsOpen
      /\ item'[i].expired = item[i].expired
  BY <1>3, ZenonT(30) DEF FetchEnds
<1>8. /\ t \in Nat /\ item[i].pos <= t /\ t <= Rows /\ Len(x) = t /\ \A n \in 1..t : x[n] = n
      /\ e = "done" => t = Rows
      /\ e = "err" => faults' < load.faults
  BY <1>3, ZenonT(30) DEF FetchEnds
<1>9. TypeOK'
  <2>1. faults' <= load'.faults
    BY <1>0, <1>1, SMT, SMTT(30)
  <2> QED
    BY <1>0, <1>1, <1>5, <1>6, <2>1, ZenonT(30) DEF TypeOK
<1>10. OneProducer'
  BY <1>5, ProducersKeep, ZenonT(30) DEF OpenPcs
<1>11. EntriesOK'
  BY <1>0, <1>6, <1>7, EntriesKeep, ZenonT(30)
<1>12. Around(Clients \ {c}, Clients \ {i})
  <2>1. \A j \in Clients : item[j].pos \in Nat
    BY <1>1, ZenonT(30) DEF TypeOK, ItemRec
  <2>2. \A j \in Clients \ {i} : Keeps(j, Clients \ {c})
    BY <1>6, <2>1, SMT, SMTT(30) DEF Keeps
  <2>3. Keeps(i, Clients \ {c})
    BY <1>4, <1>7, <1>8, <2>1, ZenonT(30) DEF Keeps
  <2>4. \A j \in Clients : Keeps(j, Clients \ {c})
    BY <2>2, <2>3, ZenonT(30)
  <2>5. db <= db'
    BY <1>0, <1>1, SMT, SMTT(30)
  <2>6. cl'[c].pc \notin {"start", "store"}
    BY <1>5, ZenonT(30)
  <2> QED
    BY <1>0, <1>3, <1>5, <1>6, <2>4, <2>5, <2>6, SMT, SMTT(30) DEF Around
<1>13. ClientOK(c)'
  BY <1>0, <1>2, <1>5, ZenonT(30) DEF ClientOK, Active, HeadPcs, OpenPcs
<1>14. GotOK(c)' /\ ErrorOK(c)'
  <2>1. cl[c].res = "none"
    BY <1>0, <1>2, ZenonT(30) DEF ClientOK, HeadPcs
  <2> QED
    BY <1>2, <1>5, <2>1, ZenonT(30) DEF GotOK, ErrorOK
<1>15. ItemOfOK(c)'
  <2>1. cl[c].head <= t
    BY <1>4, <1>8, SMT, SMTT(30)
  <2> QED
    BY <1>3, <1>4, <1>5, <1>7, <2>1, ZenonT(30) DEF ItemOfOK, HeadPcs, OpenPcs
<1>16. BeganOK(c)'
  <2>1. \A j \in Clients : item[j].expired => item'[j].expired
    BY <1>6, <1>7, ZenonT(30)
  <2>2. cl[c].began.expired \subseteq Clients
    BY <1>1, ZenonT(30) DEF ClientRec
  <2> QED
    BY <1>0, <1>2, <1>5, <2>1, <2>2, ZenonT(30) DEF BeganOK, Active
<1>17. ItemOK(i)'
  <2>1. cl'[i].pc \notin {"start", "store"}
    BY <1>4, <1>5, ZenonT(30) DEF ItemOK
  <2> QED
    BY <1>0, <1>4, <1>7, <1>8, <2>1, ZenonT(30) DEF ItemOK, Active
<1>18. FetchOK(i)'
  BY <1>7, ZenonT(30) DEF FetchOK
<1>19. CountOK(i)'
  <2>1. Live(i)' = Live(i)
    BY <1>5, ZenonT(30) DEF Live
  <2> QED
    BY <1>4, <1>7, <2>1, ZenonT(30) DEF CountOK
<1> QED
  BY <1>9, <1>10, <1>11, <1>12, <1>13, <1>14, <1>15, <1>16, <1>17, <1>18, <1>19, OneStep, ZenonT(30)

\* What is left of an item after Unreferenced.
LEMMA UnreferencedItem ==
  ASSUME SharedAssumption, ClientSets, CoreInv, NEW i \in Clients, item[i].refs >= 1
  PROVE  LET r == item[i]
             q == Unreferenced(item[i])
         IN /\ q \in ItemRec /\ q.refs = r.refs - 1 /\ q.pos <= Rows /\ Len(q.items) = q.pos
            /\ \A n \in 1..q.pos : q.items[n] = n
            /\ q.refs > 0 => q.pos = r.pos
            /\ q.refs > 0 /\ q.err = "done" => q.pos = Rows
            /\ q.rowsOpen <=> q.refs > 0
            /\ q.st = r.st /\ q.stopped = r.stopped /\ q.err = r.err /\ q.fetching = r.fetching
            /\ q.expired = r.expired
<1>f. ASSUME NEW r0 \in ItemRec
      PROVE  LET q == Unreferenced(r0) IN
             /\ q.st = r0.st /\ q.stopped = r0.stopped /\ q.err = r0.err /\ q.fetching = r0.fetching
             /\ q.expired = r0.expired /\ q.admission = r0.admission /\ q.idle = r0.idle /\ q.timer = r0.timer
             /\ r0.refs > 1 => q.refs = r0.refs - 1 /\ q.pos = r0.pos /\ q.items = r0.items /\ q.rowsOpen = r0.rowsOpen
             /\ ~(r0.refs > 1) => q.refs = 0 /\ q.pos = 0 /\ q.items = <<>> /\ ~q.rowsOpen
             /\ q \in ItemRec
  <2>1. CASE r0.refs > 1
    <3>1. PICK n : n = r0.refs - 1
      BY ZenonT(30)
    <3>2. r0.refs \in Nat /\ n \in Nat
      BY <2>1, <3>1, SMT, SMTT(30) DEF ItemRec
    <3>3. Unreferenced(r0) = [r0 EXCEPT !.refs = n]
      BY <2>1, <3>1, ZenonT(30) DEF Unreferenced
    <3> DEFINE q == [r0 EXCEPT !.refs = n]
    <3>4. /\ q.st = r0.st /\ q.stopped = r0.stopped /\ q.err = r0.err /\ q.fetching = r0.fetching
          /\ q.expired = r0.expired /\ q.admission = r0.admission /\ q.idle = r0.idle /\ q.timer = r0.timer
          /\ q.refs = n /\ q.pos = r0.pos /\ q.items = r0.items /\ q.rowsOpen = r0.rowsOpen /\ q \in ItemRec
      BY <3>2, ZenonT(30) DEF ItemRec
    <3> QED
      BY <2>1, <3>1, <3>3, <3>4, ZenonT(30)
  <2>2. CASE ~(r0.refs > 1)
    <3>1. Unreferenced(r0) = [r0 EXCEPT !.refs = 0, !.rowsOpen = FALSE, !.items = <<>>, !.pos = 0, !.ver = None]
      BY <2>2, ZenonT(30) DEF Unreferenced
    <3>2. 0 \in Nat /\ <<>> \in Seq(Nat)
      BY SMT, SMTT(30)
    <3> DEFINE q == [r0 EXCEPT !.refs = 0, !.rowsOpen = FALSE, !.items = <<>>, !.pos = 0, !.ver = None]
    <3>3. /\ q.st = r0.st /\ q.stopped = r0.stopped /\ q.err = r0.err /\ q.fetching = r0.fetching
          /\ q.expired = r0.expired /\ q.admission = r0.admission /\ q.idle = r0.idle /\ q.timer = r0.timer
          /\ q.refs = 0 /\ q.pos = 0 /\ q.items = <<>> /\ ~q.rowsOpen
      BY ZenonT(30) DEF ItemRec
    <3>4. q \in ItemRec
      BY <3>2, ZenonT(30) DEF ItemRec
    <3> QED
      BY <2>2, <3>1, <3>3, <3>4, ZenonT(30)
  <2> QED
    BY <2>1, <2>2, ZenonT(30)
<1> DEFINE r == item[i]
           q == Unreferenced(item[i])
<1>1. r \in ItemRec /\ r.refs \in Nat /\ ItemOK(i) /\ Rows \in Nat /\ r.pos \in Nat
  BY ZenonT(30) DEF CoreInv, ItemsOK, TypeOK, ItemRec, SharedAssumption
<1>2. /\ q.st = r.st /\ q.stopped = r.stopped /\ q.err = r.err /\ q.fetching = r.fetching
      /\ q.expired = r.expired /\ q \in ItemRec
  BY <1>1, <1>f, ZenonT(30)
<1>3. CASE r.refs > 1
  <2>1. q.refs = r.refs - 1 /\ q.pos = r.pos /\ q.items = r.items /\ q.rowsOpen = r.rowsOpen
    BY <1>1, <1>3, <1>f, ZenonT(30)
  <2>2. r.rowsOpen /\ (r.err = "done" => r.pos = Rows) /\ Len(r.items) = r.pos /\ r.pos <= Rows
        /\ \A n \in 1..r.pos : r.items[n] = n
    <3>1. r.refs > 0
      BY <1>1, <1>3, SMT, SMTT(30)
    <3> QED
      BY <1>1, <3>1, ZenonT(30) DEF ItemOK
  <2>3. r.refs - 1 > 0
    BY <1>1, <1>3, SMT, SMTT(30)
  <2> HIDE DEF q, r
  <2>4. q.pos <= Rows /\ Len(q.items) = q.pos /\ \A n \in 1..q.pos : q.items[n] = n
    BY <2>1, <2>2, ZenonT(30)
  <2>5. q.refs > 0 /\ q.rowsOpen /\ (q.err = "done" => q.pos = Rows)
    BY <1>2, <2>1, <2>2, <2>3, ZenonT(30)
  <2> QED
    BY <1>2, <2>1, <2>4, <2>5, ZenonT(30) DEF q, r
<1>4. CASE ~(r.refs > 1)
  <2>1. q.refs = 0 /\ q.pos = 0 /\ q.items = <<>> /\ ~q.rowsOpen
    BY <1>1, <1>4, <1>f, ZenonT(30)
  <2>2. r.refs - 1 = 0 /\ Len(<<>>) = 0 /\ 0 <= Rows /\ 1..0 = {} /\ ~(0 > 0)
    BY <1>1, <1>4, SMT, SMTT(30)
  <2> HIDE DEF q, r
  <2> QED
    BY <1>2, <2>1, <2>2, ZenonT(30) DEF q, r
<1> QED
  BY <1>3, <1>4, ZenonT(30)

\* A client without an instance ends.
LEMMA StopPlain ==
  ASSUME SharedAssumption, ClientSets, CoreInv, NEW c \in Clients, Stop(c), ~cl[c].shares
  PROVE  CoreInv'
<1>0. UNCHANGED <<load, entry, item, ctxDone, db, faults>> /\ cl[c].pc = "stop"
  BY ZenonT(30) DEF Stop
<1>1. TypeOK /\ db \in Nat /\ faults \in Nat
  BY ZenonT(30) DEF CoreInv, TypeOK
<1>2. ClientOK(c)
  BY ZenonT(30) DEF CoreInv, ClientsOK
<1>3. NewClient("finished") \in ClientRec
  BY SMT, SMTT(30) DEF NewClient, ClientRec, Pcs
<1>4. cl' \in [Clients -> ClientRec] /\ cl'[c] = NewClient("finished") /\ \A d \in Clients \ {c} : cl'[d] = cl[d]
  <2>1. cl' = [cl EXCEPT ![c] = NewClient("finished")]
    BY ZenonT(30) DEF Stop
  <2> QED
    BY <1>1, <1>3, <2>1, ClientSet, ZenonT(30)
<1>5. /\ cl'[c].pc = "finished" /\ cl'[c].res = "none" /\ cl'[c].item = None /\ ~cl'[c].shares
      /\ cl'[c].head = 0 /\ cl'[c].got = <<>> /\ cl'[c].began.ver = 0 /\ cl'[c].began.expired = {}
  BY <1>4, SMT, SMTT(30) DEF NewClient
<1>6. TypeOK'
  BY <1>0, <1>1, <1>4, ZenonT(30) DEF TypeOK
<1>7. OneProducer'
  BY <1>4, <1>5, ProducersKeep, ZenonT(30) DEF OpenPcs
<1>8. EntriesOK'
  BY <1>0, EntriesKeep, ZenonT(30)
<1>9. Around(Clients \ {c}, Clients)
  <2>1. \A j \in Clients : item[j].pos \in Nat
    BY <1>1, ZenonT(30) DEF TypeOK, ItemRec
  <2>2. \A j \in Clients : Keeps(j, Clients \ {c})
    BY <1>0, <2>1, SMT, SMTT(30) DEF Keeps
  <2>3. db <= db' /\ faults' <= faults
    BY <1>0, <1>1, SMT, SMTT(30)
  <2> QED
    BY <1>0, <1>4, <1>5, <2>2, <2>3, ZenonT(30) DEF Around
<1>10. ClientOK(c)' /\ GotOK(c)' /\ ItemOfOK(c)' /\ ErrorOK(c)'
  BY <1>5, SMT, SMTT(30) DEF ClientOK, GotOK, ItemOfOK, ErrorOK, HeadPcs, OpenPcs
<1>11. BeganOK(c)'
  <2>1. 0 <= db'
    BY <1>0, <1>1, SMT, SMTT(30)
  <2> QED
    BY <1>5, <2>1, ZenonT(30) DEF BeganOK
<1> QED
  BY <1>6, <1>7, <1>8, <1>9, <1>10, <1>11, ClientOnlyStep, ZenonT(30)

\* A client with an instance ends and stops it: one instance and one reference less.
LEMMA StopShared ==
  ASSUME SharedAssumption, ClientSets, CoreInv, NEW c \in Clients, Stop(c), cl[c].shares
  PROVE  CoreInv'
<1>0. UNCHANGED <<load, entry, ctxDone, db, faults>> /\ cl[c].pc = "stop"
  BY ZenonT(30) DEF Stop
<1>1. TypeOK /\ db \in Nat /\ faults \in Nat
  BY ZenonT(30) DEF CoreInv, TypeOK
<1>2. PICK i \in Clients : i = cl[c].item /\ i # None
  BY <1>1, ZenonT(30) DEF CoreInv, ClientsOK, ClientOK, ClientRec, TypeOK
<1>3. item[i].st = "ready" /\ item[i].refs \in Nat /\ item[i].refs >= 1
  BY <1>2, LiveRefs, ZenonT(30)
<1>4. ItemOK(i) /\ FetchOK(i) /\ CountOK(i) /\ item[i] \in ItemRec
  BY <1>1, ZenonT(30) DEF CoreInv, ItemsOK, TypeOK
<1>5. cl' \in [Clients -> ClientRec] /\ cl'[c] = NewClient("finished") /\ \A d \in Clients \ {c} : cl'[d] = cl[d]
  <2>1. NewClient("finished") \in ClientRec
    BY SMT, SMTT(30) DEF NewClient, ClientRec, Pcs
  <2>2. cl' = [cl EXCEPT ![c] = NewClient("finished")]
    BY ZenonT(30) DEF Stop
  <2> QED
    BY <1>1, <2>1, <2>2, ClientSet, ZenonT(30)
<1>6. /\ cl'[c].pc = "finished" /\ cl'[c].res = "none" /\ cl'[c].item = None /\ ~cl'[c].shares
      /\ cl'[c].head = 0 /\ cl'[c].got = <<>> /\ cl'[c].began.ver = 0 /\ cl'[c].began.expired = {}
  BY <1>5, SMT, SMTT(30) DEF NewClient
<1>7. item' \in [Clients -> ItemRec] /\ item'[i] = Unreferenced(item[i]) /\ \A j \in Clients \ {i} : item'[j] = item[j]
  <2>1. item' = [item EXCEPT ![i] = Unreferenced(item[i])]
    BY <1>2, ZenonT(30) DEF Stop
  <2>2. Unreferenced(item[i]) \in ItemRec
    BY <1>3, UnreferencedItem, ZenonT(30)
  <2> QED
    BY <1>1, <2>1, <2>2, ItemSet, ZenonT(30)
<1>8. LET r == item[i]
          q == item'[i]
      IN /\ q \in ItemRec /\ q.refs = r.refs - 1 /\ q.pos <= Rows /\ Len(q.items) = q.pos
         /\ \A n \in 1..q.pos : q.items[n] = n
         /\ q.refs > 0 => q.pos = r.pos
         /\ q.refs > 0 /\ q.err = "done" => q.pos = Rows
         /\ q.rowsOpen <=> q.refs > 0
         /\ q.st = r.st /\ q.stopped = r.stopped /\ q.err = r.err /\ q.fetching = r.fetching
         /\ q.expired = r.expired
  BY <1>3, <1>7, UnreferencedItem, SMT, SMTT(30)
<1>9. TypeOK'
  BY <1>0, <1>1, <1>5, <1>7, ZenonT(30) DEF TypeOK
<1>10. OneProducer'
  BY <1>5, <1>6, ProducersKeep, ZenonT(30) DEF OpenPcs
<1>11. EntriesOK'
  BY <1>0, <1>7, <1>8, EntriesKeep, ZenonT(30)
<1>12. Cardinality(Live(i)) \in Nat /\ c \in Live(i)
  BY <1>2, ZenonT(30) DEF ClientSets, Live
<1>13. item[i].refs = Cardinality(Live(i)) + (IF item[i].stopped THEN 0 ELSE 1)
  BY <1>3, <1>4, ZenonT(30) DEF CountOK
<1>14. Cardinality(Live(i) \ {c}) = Cardinality(Live(i)) - 1
  BY <1>12, ZenonT(30) DEF ClientSets, Live
<1>15. \A d \in Clients \ {c} : cl[d].item = i /\ cl[d].shares => item'[i].refs > 0
  <2> SUFFICES ASSUME NEW d \in Clients \ {c}, cl[d].item = i, cl[d].shares PROVE item'[i].refs > 0
    BY ZenonT(30)
  <2>1. d \in Live(i) \ {c}
    BY ZenonT(30) DEF Live
  <2>2. Cardinality(Live(i) \ {c}) \in Nat /\ Cardinality(Live(i) \ {c}) # 0
    BY <2>1, ZenonT(30) DEF ClientSets, Live
  <2> QED
    BY <1>8, <1>12, <1>13, <1>14, <2>2, SMT, SMTT(30)
<1>16. Around(Clients \ {c}, Clients \ {i})
  <2>1. \A j \in Clients : item[j].pos \in Nat
    BY <1>1, ZenonT(30) DEF TypeOK, ItemRec
  <2>2. \A j \in Clients \ {i} : Keeps(j, Clients \ {c})
    BY <1>7, <2>1, SMT, SMTT(30) DEF Keeps
  <2>3. \A d \in Clients \ {c} : cl[d].item = i /\ cl[d].shares => item'[i].pos >= item[i].pos
    <3>1. item[i].pos \in Nat
      BY <2>1, ZenonT(30)
    <3> QED
      BY <1>8, <1>15, <3>1, SMT, SMTT(30)
  <2>4. Keeps(i, Clients \ {c})
    BY <1>3, <1>8, <2>3, ZenonT(30) DEF Keeps
  <2>5. \A j \in Clients : Keeps(j, Clients \ {c})
    BY <2>2, <2>4, ZenonT(30)
  <2>6. db <= db' /\ faults' <= faults
    BY <1>0, <1>1, SMT, SMTT(30)
  <2>7. cl'[c].pc \notin {"start", "store"} /\ cl[c].pc # "fetching"
    BY <1>0, <1>6, ZenonT(30)
  <2> QED
    BY <1>0, <1>2, <1>5, <1>6, <1>7, <2>5, <2>6, <2>7, ZenonT(30) DEF Around
<1>17. ClientOK(c)' /\ GotOK(c)' /\ ItemOfOK(c)' /\ ErrorOK(c)'
  BY <1>6, SMT, SMTT(30) DEF ClientOK, GotOK, ItemOfOK, ErrorOK, HeadPcs, OpenPcs
<1>18. BeganOK(c)'
  <2>1. 0 <= db'
    BY <1>0, <1>1, SMT, SMTT(30)
  <2> QED
    BY <1>6, <2>1, ZenonT(30) DEF BeganOK
<1>19. ItemOK(i)'
  <2>1. cl'[i].pc \notin {"start", "store"}
    BY <1>3, <1>4, <1>5, <1>6, ZenonT(30) DEF ItemOK
  <2> QED
    BY <1>0, <1>3, <1>4, <1>8, <2>1, ZenonT(30) DEF ItemOK, Active
<1>20. FetchOK(i)'
  <2>1. item[i].fetching # c
    BY <1>0, <1>4, ZenonT(30) DEF FetchOK, SharedAssumption
  <2> QED
    BY <1>4, <1>5, <1>8, <2>1, SMT, SMTT(30) DEF FetchOK, ItemRec
<1>21. CountOK(i)'
  <2>1. Live(i)' = Live(i) \ {c}
    BY <1>2, <1>5, <1>6, ZenonT(30) DEF Live
  <2> QED
    BY <1>8, <1>12, <1>13, <1>14, <2>1, SMT, SMTT(30) DEF CountOK
<1> QED
  BY <1>9, <1>10, <1>11, <1>16, <1>17, <1>18, <1>19, <1>20, <1>21, OneStep, ZenonT(30)

\* A step of an item's timer: the item becomes q.
TimerSets(i, q) ==
  /\ item' = [item EXCEPT ![i] = q] /\ q \in ItemRec /\ item[i].st = "ready"
  /\ q.st = "ready" /\ q.err = item[i].err /\ q.fetching = item[i].fetching
  /\ item[i].expired => q.expired
  /\ q.pos <= Rows /\ Len(q.items) = q.pos /\ \A n \in 1..q.pos : q.items[n] = n
  /\ q.refs > 0 => q.pos = item[i].pos
  /\ q.refs > 0 /\ q.err = "done" => q.pos = Rows
  /\ q.rowsOpen <=> q.refs > 0
  /\ q.refs = Cardinality(Live(i)) + (IF q.stopped THEN 0 ELSE 1)
  /\ UNCHANGED <<load, cl, ctxDone, db, faults>>

\* Such a step keeps the invariant if it keeps the entries.
LEMMA TimerKeeps ==
  ASSUME SharedAssumption, ClientSets, CoreInv, NEW i \in Clients, NEW q, TimerSets(i, q), EntriesOK',
         entry' \in [Ops -> Clients \cup {None}]
  PROVE  CoreInv'
<1>0. UNCHANGED <<load, cl, ctxDone, db, faults>>
  BY ZenonT(30) DEF TimerSets
<1>1. TypeOK /\ db \in Nat /\ faults \in Nat
  BY ZenonT(30) DEF CoreInv, TypeOK
<1>2. item' \in [Clients -> ItemRec] /\ item'[i] = q /\ \A j \in Clients \ {i} : item'[j] = item[j]
  BY <1>1, ItemSet, ZenonT(30) DEF TimerSets
<1>3. TypeOK'
  BY <1>0, <1>1, <1>2, ZenonT(30) DEF TypeOK
<1>4. ItemOK(i) /\ FetchOK(i)
  BY ZenonT(30) DEF CoreInv, ItemsOK
<1>5. Cardinality(Live(i)) \in Nat
  BY ZenonT(30) DEF ClientSets, Live
<1>6. \A d \in Clients : cl[d].item = i /\ cl[d].shares => q.refs > 0
  <2> SUFFICES ASSUME NEW d \in Clients, cl[d].item = i, cl[d].shares PROVE q.refs > 0
    BY ZenonT(30)
  <2>1. d \in Live(i)
    BY ZenonT(30) DEF Live
  <2>2. Cardinality(Live(i)) # 0
    BY <2>1, ZenonT(30) DEF ClientSets, Live
  <2>3. q.refs = Cardinality(Live(i)) + (IF q.stopped THEN 0 ELSE 1)
    BY ZenonT(30) DEF TimerSets
  <2> QED
    BY <1>5, <2>2, <2>3, SMT, SMTT(30)
<1>7. Around(Clients, Clients \ {i})
  <2>1. \A j \in Clients : item[j].pos \in Nat
    BY <1>1, ZenonT(30) DEF TypeOK, ItemRec
  <2>2. \A j \in Clients \ {i} : Keeps(j, Clients)
    BY <1>2, <2>1, SMT, SMTT(30) DEF Keeps
  <2>3. \A d \in Clients : cl[d].item = i /\ cl[d].shares => q.pos >= item[i].pos
    <3>1. item[i].pos \in Nat /\ (q.refs > 0 => q.pos = item[i].pos)
      BY <2>1, ZenonT(30) DEF TimerSets
    <3> QED
      BY <1>6, <3>1, SMT, SMTT(30)
  <2>4. q.st = "ready" /\ item[i].st = "ready" /\ q.fetching = item[i].fetching /\ (item[i].expired => q.expired)
    BY ZenonT(30) DEF TimerSets
  <2>5. Keeps(i, Clients)
    BY <1>2, <2>3, <2>4, ZenonT(30) DEF Keeps
  <2>6. \A j \in Clients : Keeps(j, Clients)
    BY <2>2, <2>5, ZenonT(30)
  <2>7. db <= db' /\ faults' <= faults
    BY <1>0, <1>1, SMT, SMTT(30)
  <2> QED
    BY <1>0, <1>2, <2>6, <2>7, ZenonT(30) DEF Around
<1>8. ItemOK(i)'
  <2>1. item[i].st = "ready" /\ q.st = "ready" /\ q.err = item[i].err
    BY ZenonT(30) DEF TimerSets
  <2>2. /\ q.pos <= Rows /\ Len(q.items) = q.pos /\ \A n \in 1..q.pos : q.items[n] = n
        /\ q.refs > 0 /\ q.err = "done" => q.pos = Rows
        /\ q.rowsOpen <=> q.refs > 0
    BY ZenonT(30) DEF TimerSets
  <2> QED
    BY <1>0, <1>2, <1>4, <2>1, <2>2, ZenonT(30) DEF ItemOK, Active
<1>9. FetchOK(i)'
  BY <1>0, <1>2, <1>4, ZenonT(30) DEF FetchOK, TimerSets
<1>10. CountOK(i)'
  <2>1. Live(i)' = Live(i)
    BY <1>0, ZenonT(30) DEF Live
  <2> QED
    BY <1>2, <2>1, ZenonT(30) DEF CountOK, TimerSets
<1> QED
  BY <1>0, <1>3, <1>7, <1>8, <1>9, <1>10, ItemOnlyStep, ZenonT(30)

\* The original instance is stopped by a timer (TimerStop).
LEMMA TimerStopItem ==
  ASSUME SharedAssumption, ClientSets, CoreInv, NEW i \in Clients, item[i].st = "ready"
  PROVE  LET r == item[i]
             q == TimerStop(item[i])
         IN /\ q \in ItemRec /\ q.st = "ready" /\ q.err = r.err /\ q.fetching = r.fetching
            /\ q.expired = r.expired
            /\ q.pos <= Rows /\ Len(q.items) = q.pos /\ \A n \in 1..q.pos : q.items[n] = n
            /\ q.refs > 0 => q.pos = r.pos
            /\ q.refs > 0 /\ q.err = "done" => q.pos = Rows
            /\ q.rowsOpen <=> q.refs > 0
            /\ q.stopped /\ q.refs = Cardinality(Live(i))
<1>f. ASSUME NEW r0 \in ItemRec
      PROVE  /\ SetTimer(r0).st = r0.st /\ SetTimer(r0).refs = r0.refs /\ SetTimer(r0).stopped
             /\ SetTimer(r0).pos = r0.pos /\ SetTimer(r0).items = r0.items /\ SetTimer(r0).err = r0.err
             /\ SetTimer(r0).fetching = r0.fetching /\ SetTimer(r0).rowsOpen = r0.rowsOpen
             /\ SetTimer(r0).expired = r0.expired
             /\ SetTimer(r0) \in ItemRec
  BY ZenonT(30) DEF ItemRec, SetTimer
<1>1. PICK r : r = item[i]
  BY ZenonT(30)
<1>2. PICK u : u = IF r.stopped THEN r ELSE Unreferenced(r)
  BY ZenonT(30)
<1>3. PICK q : q = SetTimer(u)
  BY ZenonT(30)
<1>4. q = TimerStop(item[i])
  BY <1>1, <1>2, <1>3, ZenonT(30) DEF TimerStop, SetTimer
<1>5. r \in ItemRec /\ r.refs \in Nat /\ ItemOK(i) /\ CountOK(i)
  BY <1>1, ZenonT(30) DEF CoreInv, TypeOK, ItemsOK, ItemRec
<1>6. Cardinality(Live(i)) \in Nat
  BY ZenonT(30) DEF ClientSets, Live
<1>7. /\ u \in ItemRec /\ u.st = "ready" /\ u.err = r.err /\ u.fetching = r.fetching /\ u.expired = r.expired
      /\ u.pos <= Rows /\ Len(u.items) = u.pos /\ \A n \in 1..u.pos : u.items[n] = n
      /\ u.refs > 0 => u.pos = r.pos
      /\ u.refs > 0 /\ u.err = "done" => u.pos = Rows
      /\ u.rowsOpen <=> u.refs > 0
      /\ u.refs = Cardinality(Live(i))
  <2>1. CASE r.stopped
    <3>1. u = r /\ r.refs = Cardinality(Live(i))
      BY <1>1, <1>2, <1>5, <1>6, <2>1, SMT, SMTT(30) DEF CountOK
    <3> QED
      BY <1>1, <1>5, <3>1, ZenonT(30) DEF ItemOK
  <2>2. CASE ~r.stopped
    <3>1. r.refs = Cardinality(Live(i)) + 1 /\ item[i].refs >= 1
      BY <1>1, <1>5, <1>6, <2>2, SMT, SMTT(30) DEF CountOK
    <3>2. u = Unreferenced(item[i])
      BY <1>1, <1>2, <2>2, ZenonT(30)
    <3>3. /\ u \in ItemRec /\ u.refs = r.refs - 1 /\ u.pos <= Rows /\ Len(u.items) = u.pos
          /\ \A n \in 1..u.pos : u.items[n] = n
          /\ u.refs > 0 => u.pos = r.pos
          /\ u.refs > 0 /\ u.err = "done" => u.pos = Rows
          /\ u.rowsOpen <=> u.refs > 0
          /\ u.st = r.st /\ u.err = r.err /\ u.fetching = r.fetching /\ u.expired = r.expired
      BY <1>1, <3>1, <3>2, UnreferencedItem, ZenonT(30)
    <3>4. u.refs = Cardinality(Live(i))
      BY <1>6, <3>1, <3>3, SMT, SMTT(30)
    <3> QED
      BY <1>1, <3>3, <3>4, ZenonT(30)
  <2> QED
    BY <2>1, <2>2, ZenonT(30)
<1>8. /\ q.st = u.st /\ q.refs = u.refs /\ q.stopped /\ q.pos = u.pos /\ q.items = u.items /\ q.err = u.err
      /\ q.fetching = u.fetching /\ q.rowsOpen = u.rowsOpen /\ q.expired = u.expired /\ q \in ItemRec
  BY <1>3, <1>7, <1>f, ZenonT(30)
<1>9. /\ q.pos <= Rows /\ Len(q.items) = q.pos /\ \A n \in 1..q.pos : q.items[n] = n
      /\ q.refs > 0 => q.pos = r.pos
      /\ q.refs > 0 /\ q.err = "done" => q.pos = Rows
      /\ q.rowsOpen <=> q.refs > 0
      /\ q.refs = Cardinality(Live(i))
  BY <1>7, <1>8, SMT, SMTT(30)
<1> QED
  BY <1>1, <1>4, <1>7, <1>8, <1>9, ZenonT(30)

\* A timer that stops the original instance keeps the invariant.
LEMMA TimerStopKeeps ==
  ASSUME SharedAssumption, ClientSets, CoreInv, NEW i \in Clients, item[i].st = "ready",
         NEW q, q \in {SetAdmission(TimerStop(item[i])), SetBoth(TimerStop(item[i]))},
         item' = [item EXCEPT ![i] = q], UNCHANGED <<load, entry, cl, ctxDone, db, faults>>
  PROVE  CoreInv'
<1>f. ASSUME NEW r0 \in ItemRec
      PROVE  /\ SetAdmission(r0).st = r0.st /\ SetAdmission(r0).refs = r0.refs /\ SetAdmission(r0).stopped = r0.stopped
             /\ SetAdmission(r0).pos = r0.pos /\ SetAdmission(r0).items = r0.items /\ SetAdmission(r0).err = r0.err
             /\ SetAdmission(r0).fetching = r0.fetching /\ SetAdmission(r0).rowsOpen = r0.rowsOpen
             /\ SetAdmission(r0).expired = r0.expired
             /\ SetAdmission(r0) \in ItemRec
  BY ZenonT(30) DEF ItemRec, SetAdmission
<1>g. ASSUME NEW r0 \in ItemRec
      PROVE  /\ SetBoth(r0).st = r0.st /\ SetBoth(r0).refs = r0.refs /\ SetBoth(r0).stopped = r0.stopped
             /\ SetBoth(r0).pos = r0.pos /\ SetBoth(r0).items = r0.items /\ SetBoth(r0).err = r0.err
             /\ SetBoth(r0).fetching = r0.fetching /\ SetBoth(r0).rowsOpen = r0.rowsOpen
             /\ SetBoth(r0).expired = r0.expired
             /\ SetBoth(r0) \in ItemRec
  BY ZenonT(30) DEF ItemRec, SetBoth
<1>1. PICK r, u : r = item[i] /\ u = TimerStop(item[i])
  BY ZenonT(30)
<1>2. /\ u \in ItemRec /\ u.st = "ready" /\ u.err = r.err /\ u.fetching = r.fetching
      /\ u.expired = r.expired
      /\ u.pos <= Rows /\ Len(u.items) = u.pos /\ \A n \in 1..u.pos : u.items[n] = n
      /\ u.refs > 0 => u.pos = r.pos
      /\ u.refs > 0 /\ u.err = "done" => u.pos = Rows
      /\ u.rowsOpen <=> u.refs > 0
      /\ u.stopped /\ u.refs = Cardinality(Live(i))
  BY <1>1, TimerStopItem, ZenonT(30)
<1>3. /\ q.st = u.st /\ q.refs = u.refs /\ q.stopped = u.stopped /\ q.pos = u.pos /\ q.items = u.items
      /\ q.err = u.err /\ q.fetching = u.fetching /\ q.rowsOpen = u.rowsOpen /\ q.expired = u.expired
      /\ q \in ItemRec
  <2>1. CASE q = SetAdmission(u)
    BY <1>2, <2>1, <1>f, ZenonT(30)
  <2>2. CASE q = SetBoth(u)
    BY <1>2, <2>2, <1>g, ZenonT(30)
  <2> QED
    BY <1>1, <2>1, <2>2, ZenonT(30)
<1>4. Cardinality(Live(i)) \in Nat
  BY ZenonT(30) DEF ClientSets, Live
<1>5. q.refs = Cardinality(Live(i)) + (IF q.stopped THEN 0 ELSE 1)
  BY <1>2, <1>3, <1>4, SMT, SMTT(30)
<1>6. /\ q.pos <= Rows /\ Len(q.items) = q.pos /\ \A n \in 1..q.pos : q.items[n] = n
      /\ q.refs > 0 => q.pos = item[i].pos
      /\ q.refs > 0 /\ q.err = "done" => q.pos = Rows
      /\ q.rowsOpen <=> q.refs > 0
      /\ q.st = "ready" /\ q.err = item[i].err /\ q.fetching = item[i].fetching
      /\ q.expired = item[i].expired
  BY <1>1, <1>2, <1>3, ZenonT(30)
<1>7. TimerSets(i, q)
  BY <1>3, <1>5, <1>6, ZenonT(30) DEF TimerSets
<1>8. TypeOK /\ item' \in [Clients -> ItemRec] /\ item'[i] = q /\ \A j \in Clients \ {i} : item'[j] = item[j]
  <2>1. TypeOK
    BY ZenonT(30) DEF CoreInv
  <2> QED
    BY <1>3, <2>1, ItemSet, ZenonT(30)
<1>9. EntriesOK'
  BY <1>6, <1>8, EntriesKeep, ZenonT(30)
<1>10. entry' \in [Ops -> Clients \cup {None}]
  BY <1>8, ZenonT(30) DEF TypeOK
<1> QED
  BY <1>7, <1>9, <1>10, TimerKeeps, ZenonT(30)

\* The admission timer keeps the invariant.
LEMMA AdmissionTimerKeeps ==
  ASSUME SharedAssumption, ClientSets, CoreInv, NEW i \in Clients, AdmissionTimer(i)
  PROVE  CoreInv'
<1>1. item[i].st = "ready"
  BY ZenonT(30) DEF AdmissionTimer, CoreInv, ItemsOK, ItemOK
<1>2. /\ item' = [item EXCEPT ![i] = SetAdmission(TimerStop(item[i]))]
      /\ UNCHANGED <<load, entry, cl, ctxDone, db, faults>>
  BY ZenonT(30) DEF AdmissionTimer, SetAdmission
<1> QED
  BY <1>1, <1>2, TimerStopKeeps, ZenonT(30)

\* A change of an item's idle timer, or of its cleanup.
LEMMA TouchSets ==
  ASSUME SharedAssumption, ClientSets, CoreInv, NEW i \in Clients, item[i].st = "ready",
         NEW q, q \in {SetIdle(item[i]), SetExpired(item[i])},
         item' = [item EXCEPT ![i] = q], UNCHANGED <<load, cl, ctxDone, db, faults>>
  PROVE  TimerSets(i, q) /\ q \in ItemRec /\ (q = SetIdle(item[i]) => q.expired = item[i].expired)
<1>f. ASSUME NEW r0 \in ItemRec
      PROVE  /\ SetExpired(r0).st = r0.st /\ SetExpired(r0).refs = r0.refs /\ SetExpired(r0).stopped = r0.stopped
             /\ SetExpired(r0).ver = r0.ver /\ SetExpired(r0).pos = r0.pos /\ SetExpired(r0).items = r0.items
             /\ SetExpired(r0).err = r0.err /\ SetExpired(r0).fetching = r0.fetching /\ SetExpired(r0).rowsOpen = r0.rowsOpen
             /\ SetExpired(r0).admission = r0.admission /\ SetExpired(r0).idle = r0.idle /\ SetExpired(r0).timer = "off"
             /\ SetExpired(r0).expired
             /\ SetExpired(r0) \in ItemRec
  BY ZenonT(30) DEF ItemRec, SetExpired
<1>g. ASSUME NEW r0 \in ItemRec
      PROVE  /\ SetIdle(r0).st = r0.st /\ SetIdle(r0).refs = r0.refs /\ SetIdle(r0).stopped = r0.stopped
             /\ SetIdle(r0).ver = r0.ver /\ SetIdle(r0).pos = r0.pos /\ SetIdle(r0).items = r0.items
             /\ SetIdle(r0).err = r0.err /\ SetIdle(r0).fetching = r0.fetching /\ SetIdle(r0).rowsOpen = r0.rowsOpen
             /\ SetIdle(r0).admission = r0.admission /\ SetIdle(r0).idle = "off" /\ SetIdle(r0).timer = r0.timer
             /\ SetIdle(r0).expired = r0.expired
             /\ SetIdle(r0) \in ItemRec
  BY ZenonT(30) DEF ItemRec, SetIdle
<1>1. item[i] \in ItemRec /\ ItemOK(i) /\ CountOK(i)
  BY ZenonT(30) DEF CoreInv, TypeOK, ItemsOK
<1>2. /\ q.st = item[i].st /\ q.refs = item[i].refs /\ q.stopped = item[i].stopped /\ q.pos = item[i].pos
      /\ q.items = item[i].items /\ q.err = item[i].err /\ q.fetching = item[i].fetching
      /\ q.rowsOpen = item[i].rowsOpen /\ (item[i].expired => q.expired) /\ q \in ItemRec
      /\ (q = SetIdle(item[i]) => q.expired = item[i].expired)
  <2>1. CASE q = SetIdle(item[i])
    BY <1>1, <2>1, <1>g, ZenonT(30)
  <2>2. CASE q = SetExpired(item[i]) /\ q # SetIdle(item[i])
    BY <1>1, <2>2, <1>f, ZenonT(30)
  <2> QED
    BY <2>1, <2>2, ZenonT(30)
<1>3. q.refs = Cardinality(Live(i)) + (IF q.stopped THEN 0 ELSE 1)
  BY <1>1, <1>2, ZenonT(30) DEF CountOK
<1>4. /\ q.pos <= Rows /\ Len(q.items) = q.pos /\ \A n \in 1..q.pos : q.items[n] = n
      /\ q.refs > 0 /\ q.err = "done" => q.pos = Rows
      /\ q.rowsOpen <=> q.refs > 0
  BY <1>1, <1>2, ZenonT(30) DEF ItemOK
<1> QED
  BY <1>2, <1>3, <1>4, ZenonT(30) DEF TimerSets

\* The idle timer keeps the invariant.
LEMMA IdleTimerKeeps ==
  ASSUME SharedAssumption, ClientSets, CoreInv, NEW i \in Clients, IdleTimer(i)
  PROVE  CoreInv'
<1>1. item[i].st = "ready" /\ UNCHANGED <<load, entry, cl, ctxDone, db, faults>>
  BY ZenonT(30) DEF IdleTimer, CoreInv, ItemsOK, ItemOK
<1>2. CASE item[i].admission = "armed"
  <2>1. item' = [item EXCEPT ![i] = SetBoth(TimerStop(item[i]))]
    BY <1>2, ZenonT(30) DEF IdleTimer, SetBoth
  <2> QED
    BY <1>1, <2>1, TimerStopKeeps, ZenonT(30)
<1>3. CASE item[i].admission # "armed"
  <2>1. PICK q : q = SetIdle(item[i])
    BY ZenonT(30)
  <2>2. item' = [item EXCEPT ![i] = q]
    BY <1>3, <2>1, ZenonT(30) DEF IdleTimer, SetIdle
  <2>3. TimerSets(i, q) /\ q \in ItemRec /\ q.expired = item[i].expired
    BY <1>1, <2>1, <2>2, TouchSets, ZenonT(30)
  <2>4. TypeOK /\ entry' \in [Ops -> Clients \cup {None}]
    BY <1>1, ZenonT(30) DEF CoreInv, TypeOK
  <2>5. item'[i] = q /\ \A j \in Clients \ {i} : item'[j] = item[j]
    BY <2>2, <2>3, <2>4, ItemSet, ZenonT(30)
  <2>6. EntriesOK'
    BY <1>1, <2>3, <2>5, EntriesKeep, ZenonT(30) DEF TimerSets
  <2> QED
    BY <2>3, <2>4, <2>6, TimerKeeps, ZenonT(30)
<1> QED
  BY <1>2, <1>3, ZenonT(30)

\* cleanup keeps the invariant: the item leaves the map as it expires.
LEMMA cleanupKeeps ==
  ASSUME SharedAssumption, ClientSets, CoreInv, NEW i \in Clients, cleanup(i)
  PROVE  CoreInv'
<1>1. item[i].st = "ready" /\ i \in Active /\ UNCHANGED <<load, cl, ctxDone, db, faults>>
  BY ZenonT(30) DEF cleanup, CoreInv, ItemsOK, ItemOK
<1>2. PICK q : q = SetExpired(item[i])
  BY ZenonT(30)
<1>3. item' = [item EXCEPT ![i] = q]
  BY <1>2, ZenonT(30) DEF cleanup, SetExpired
<1>4. TimerSets(i, q) /\ q \in ItemRec
  BY <1>1, <1>2, <1>3, TouchSets, ZenonT(30)
<1>5. TypeOK /\ entry \in [Ops -> Clients \cup {None}] /\ Op(i) \in Ops
  BY <1>1, ZenonT(30) DEF CoreInv, TypeOK, SharedAssumption, Op, Active
<1>6. item'[i] = q /\ \A j \in Clients \ {i} : item'[j] = item[j]
  BY <1>3, <1>4, <1>5, ItemSet, ZenonT(30)
<1>7. /\ entry' \in [Ops -> Clients \cup {None}]
      /\ \A op \in Ops : entry'[op] # None => entry'[op] = entry[op] /\ entry[op] # i
  <2>1. \A op \in Ops : entry[op] = i => op = Op(i)
    <3>1. i # None
      BY ZenonT(30) DEF SharedAssumption
    <3> QED
      BY <3>1, ZenonT(30) DEF CoreInv, EntriesOK, EntryOK
  <2>2. CASE entry[Op(i)] = i
    <3>1. entry' = [entry EXCEPT ![Op(i)] = None]
      BY <2>2, ZenonT(30) DEF cleanup
    <3> QED
      BY <1>5, <2>1, <3>1, ZenonT(30)
  <2>3. CASE entry[Op(i)] # i
    <3>1. entry' = entry
      BY <2>3, ZenonT(30) DEF cleanup
    <3> QED
      BY <1>5, <2>1, <2>3, <3>1, ZenonT(30)
  <2> QED
    BY <2>2, <2>3, ZenonT(30)
<1>8. EntriesOK'
  <2> SUFFICES ASSUME NEW op \in Ops, entry'[op] # None PROVE EntryOK(op)'
    BY ZenonT(30) DEF EntriesOK, EntryOK
  <2>1. entry'[op] = entry[op] /\ entry[op] # i /\ entry[op] \in Clients /\ entry[op] # None
    BY <1>5, <1>7, ZenonT(30)
  <2>2. EntryOK(op)
    BY ZenonT(30) DEF CoreInv, EntriesOK
  <2>3. item'[entry[op]] = item[entry[op]]
    BY <1>6, <2>1, ZenonT(30)
  <2> QED
    BY <1>1, <2>1, <2>2, <2>3, ZenonT(30) DEF EntryOK, Active, Op
<1> QED
  BY <1>4, <1>7, <1>8, TimerKeeps, ZenonT(30)

\* The end of a context and a write keep the invariant.
LEMMA OutsideKeeps ==
  ASSUME SharedAssumption, ClientSets, CoreInv, Write \/ \E c \in Clients : Cancel(c)
  PROVE  CoreInv'
<1>1. UNCHANGED <<load, entry, item, cl, faults>> /\ ctxDone \subseteq ctxDone' /\ db' \in {db, db + 1}
  BY ZenonT(30) DEF Write, Cancel
<1>2. TypeOK /\ db \in Nat /\ faults \in Nat
  BY ZenonT(30) DEF CoreInv, TypeOK
<1>3. db' \in Nat /\ db <= db' /\ faults' <= faults
  BY <1>1, <1>2, SMT, SMTT(30)
<1>4. TypeOK'
  BY <1>1, <1>2, <1>3, ZenonT(30) DEF TypeOK
<1>5. \A j \in Clients : item[j].pos \in Nat
  BY <1>2, ZenonT(30) DEF TypeOK, ItemRec
<1>6. \A j \in Clients : Keeps(j, Clients)
  BY <1>1, <1>5, SMT, SMTT(30) DEF Keeps
<1>7. Around(Clients, Clients)
  BY <1>1, <1>3, <1>6, ZenonT(30) DEF Around
<1>8. /\ \A d \in Clients : (ClientOK(d) /\ GotOK(d) /\ ItemOfOK(d) /\ ErrorOK(d) /\ BeganOK(d))'
      /\ \A j \in Clients : (ItemOK(j) /\ FetchOK(j) /\ CountOK(j))'
  BY <1>4, <1>7, AroundKeeps, ZenonT(30)
<1>9. ClientsOK' /\ ItemsOK'
  BY <1>8, ZenonT(30) DEF ClientsOK, ItemsOK
<1>10. OneProducer'
  BY <1>1, ZenonT(30) DEF CoreInv, OneProducer
<1>11. EntriesOK'
  BY <1>1, EntriesKeep, ZenonT(30)
<1> QED
  BY <1>4, <1>9, <1>10, <1>11, ZenonT(30) DEF CoreInv

=============================================================================
