----------------------- MODULE MpscAccumulatorProofs -----------------------
(***************************************************************************)
(* Proofs about MpscAccumulator, for every set of producers and every      *)
(* number of items: the accumulator is linearizable (it implements Fifo,   *)
(* where a Send takes effect when it swings the head and a Recv when it    *)
(* moves the tail), Recv reports the end only when nothing is left and     *)
(* nothing can follow, and Send hands an item over exactly when it returns *)
(* true.                                                                   *)
(*                                                                         *)
(* ListInv is the inductive invariant. It says that there is one sequence  *)
(* q of items behind the list: what the consumer got is a prefix of it,    *)
(* tail is the last node consumed, head is the last node claimed, and a    *)
(* link between neighbours is either made or the business of the one       *)
(* producer that claimed the later node and has not linked it yet. The     *)
(* links alone are not enough: while a producer is between its compare-    *)
(* and-swap and its store, the list is cut in two, and Close may even seal *)
(* the far end of it.                                                      *)
(***************************************************************************)
EXTENDS MpscAccumulator, WellFoundedInduction, FiniteSetTheorems, TLAPS

(* What the list stands for.                                               *)
Queue == INSTANCE Fifo WITH
  Items <- Items, Readers <- {Consumer},
  items <- QueueItems, taken <- [r \in {Consumer} |-> got], shut <- head = Null

(* Whatever the interleaving of producers, the consumer and Close, Send    *)
(* and Recv behave as those of a first-in first-out queue that accepts     *)
(* nothing after the head is swapped for nil.                              *)
Linearizable == Queue!FifoSpec

(* The control points of Send and of Recv.                                 *)
SendPcs == {"sLoad", "sCas", "sLink", "sSignal", "sEnd"}
RecvPcs == {"cIdle", "cRecv", "cPark", "cWait", "cEnd", "cCancelled"}

(* The type invariant.                                                     *)
TypeOK ==
  /\ head \in Nodes \cup {Null} /\ tail \in Nodes /\ next \in [Nodes -> Nodes \cup {Null}]
  /\ closing \in {"open", "swap", "link", "finish", "end"} /\ oldHead \in Nodes \cup {Null}
  /\ DOMAIN pc = Producers \cup {Consumer} /\ pc[Consumer] \in RecvPcs
  /\ \A s \in Producers : pc[s] \in SendPcs
  /\ cur \in [Producers -> Nodes \cup {Null}] /\ sending \in [Producers -> Nat]
  /\ outcome \in [Producers -> Seq(BOOLEAN)] /\ got \in Seq(Items)

(* A producer is at most one item ahead of its results, and works from a   *)
(* head that was not nil.                                                  *)
SenderOK(s) ==
  /\ sending[s] = Len(outcome[s]) + 1 /\ sending[s] <= NumItems + 1
  /\ pc[s] # "sEnd" => sending[s] <= NumItems
  /\ pc[s] \in {"sCas", "sLink"} => cur[s] # Null

(* The node at place i of the list that holds q, the root at place 0.      *)
At(q, i) == IF i = 0 THEN Root ELSE q[i]

(* Close has swapped the head for nil; it has linked the end node.         *)
Swapped == closing \in {"link", "finish", "end"}
Sealed == closing \in {"finish", "end"}

(* The items of q are different, those the consumer got come first, and    *)
(* tail is the last of them.                                               *)
Chain(q) ==
  /\ q \in Seq(Items)
  /\ \A i, j \in 1..Len(q) : q[i] = q[j] => i = j
  /\ Len(got) <= Len(q) /\ \A i \in 1..Len(got) : got[i] = q[i]
  /\ tail = At(q, Len(got))

(* The head is the last node of q until Close takes it; the last node is   *)
(* followed by nothing, or by the end node once Close has linked it; and   *)
(* the consumer saw the end only then, and with everything consumed.       *)
Ends(q) ==
  /\ head = IF Swapped THEN Null ELSE At(q, Len(q))
  /\ closing = "link" => oldHead = At(q, Len(q))
  /\ next[At(q, Len(q))] = IF Sealed THEN End ELSE Null
  /\ pc[Consumer] = "cEnd" => Sealed /\ Len(got) = Len(q)

(* Producer s has claimed the node after place i and not linked it yet.    *)
Claims(s, q, i) == pc[s] = "sLink" /\ cur[s] = At(q, i) /\ Item(s) = q[i + 1]

(* Neighbours are linked, or the producer of the later one will link them; *)
(* nodes that are not in q link to nothing; and every producer about to    *)
(* link finds its place.                                                   *)
Links(q) ==
  /\ \A i \in 0..(Len(q) - 1) :
       next[At(q, i)] = q[i + 1] \/ (next[At(q, i)] = Null /\ \E s \in Producers : Claims(s, q, i))
  /\ \A n \in Items : (\A i \in 1..Len(q) : q[i] # n) => next[n] = Null
  /\ \A s \in Producers : pc[s] = "sLink" =>
       \E i \in 0..(Len(q) - 1) : Claims(s, q, i) /\ next[At(q, i)] = Null

(* Item k of producer s has been accepted: its Send returned true, or      *)
(* will.                                                                   *)
Accepted(s, k) ==
  \/ k \in 1..Len(outcome[s]) /\ outcome[s][k]
  \/ k = sending[s] /\ pc[s] \in {"sLink", "sSignal"}

(* The items of q are those accepted.                                      *)
Sent(q) ==
  \A s \in Producers, k \in 1..NumItems : Accepted(s, k) <=> \E i \in 1..Len(q) : q[i] = <<s, k>>

(* The list holds q.                                                       *)
ListOK(q) == Chain(q) /\ Ends(q) /\ Links(q) /\ Sent(q)

(* The inductive invariant.                                                *)
ListInv == TypeOK /\ (\A s \in Producers : SenderOK(s)) /\ \E q \in Seq(Items) : ListOK(q)

-----------------------------------------------------------------------------
(* The special nodes are different from each other and from the items.     *)
LEMMA Names ==
  ASSUME AccumulatorAssumption
  PROVE  /\ Root \notin Items /\ End \notin Items /\ Null \notin Items
         /\ Root # End /\ Root # Null /\ End # Null
         /\ Consumer \notin Producers /\ NumItems \in Nat /\ 0 < NumItems
         /\ Items \subseteq Nodes /\ Root \in Nodes /\ End \in Nodes /\ Null \notin Nodes
BY SMT, SMTT(30) DEF AccumulatorAssumption, Nodes

(* Different places of the list hold different nodes, none of them nil or  *)
(* the end node.                                                           *)
LEMMA AtFacts ==
  ASSUME AccumulatorAssumption, NEW q, Chain(q)
  PROVE  /\ Len(q) \in Nat
         /\ \A i \in 0..Len(q) : At(q, i) \in Nodes /\ At(q, i) # Null /\ At(q, i) # End
         /\ \A i \in 1..Len(q) : At(q, i) = q[i] /\ q[i] \in Items
         /\ \A i, j \in 0..Len(q) : At(q, i) = At(q, j) => i = j
<1>1. q \in Seq(Items) /\ \A i, j \in 1..Len(q) : q[i] = q[j] => i = j
  BY ZenonT(30) DEF Chain
<1>2. \A i \in 1..Len(q) : At(q, i) = q[i] /\ q[i] \in Items
  BY <1>1, SMT, SMTT(30) DEF At
<1>3. At(q, 0) = Root
  BY ZenonT(30) DEF At
<1>4. \A i \in 0..Len(q) : i = 0 \/ i \in 1..Len(q)
  BY <1>1, SMT, SMTT(30)
<1> QED BY <1>1, <1>2, <1>3, <1>4, Names, SMT, SMTT(30)

(* A step that leaves the nodes, Close, the claims and what was accepted   *)
(* alone keeps the list.                                                   *)
LEMMA SameList ==
  ASSUME NEW q, ListOK(q), UNCHANGED <<head, tail, next, closing, oldHead, got>>,
         \A s \in Producers : pc'[s] = "sLink" <=> pc[s] = "sLink",
         \A s \in Producers : pc[s] = "sLink" => cur'[s] = cur[s] /\ sending'[s] = sending[s],
         pc'[Consumer] = "cEnd" => pc[Consumer] = "cEnd",
         \A s \in Producers, k \in 1..NumItems : Accepted(s, k)' <=> Accepted(s, k)
  PROVE  ListOK(q)'
<1>1. Chain(q)' /\ Ends(q)'
  BY ZenonT(30) DEF ListOK, Chain, Ends, Swapped, Sealed
<1>2. \A s \in Producers, i \in 0..(Len(q) - 1) : Claims(s, q, i)' <=> Claims(s, q, i)
  BY ZenonT(30) DEF Claims, Item
<1>3. Links(q)'
  BY <1>2, ZenonT(30) DEF ListOK, Links
<1>4. Sent(q)'
  BY ZenonT(30) DEF ListOK, Sent
<1> QED BY <1>1, <1>3, <1>4, ZenonT(30) DEF ListOK

(* A compare-and-swap of the head that succeeds appends the item: the      *)
(* producer claims the place after the old head, which is the last node.   *)
LEMMA SendCasList ==
  ASSUME AccumulatorAssumption, TypeOK, NEW s \in Producers, SenderOK(s), SendCas(s), head = cur[s],
         NEW q, ListOK(q)
  PROVE  \E r \in Seq(Items) : r = Append(q, Item(s)) /\ ListOK(r)'
<1>1. /\ pc[s] = "sCas" /\ pc' = [pc EXCEPT ![s] = "sLink"] /\ head' = Item(s)
      /\ UNCHANGED <<tail, next, closing, oldHead, cur, sending, outcome, got>>
  BY ZenonT(30) DEF SendCas, Goto, shutdown, log
<1>2. Item(s) \in Items /\ sending[s] \in 1..NumItems
  BY <1>1, Names, SMT, SMTT(30) DEF TypeOK, SenderOK, Item, Items
<1>3. ~Swapped /\ ~Sealed /\ cur[s] = At(q, Len(q))
  BY <1>1, ZenonT(30) DEF SenderOK, ListOK, Ends, Swapped, Sealed
<1>4. q \in Seq(Items) /\ Len(q) \in Nat
  BY SMT, SMTT(30) DEF ListOK, Chain
<1>5. PICK r \in Seq(Items) : r = Append(q, Item(s))
  <2>1. Append(q, Item(s)) \in Seq(Items)
    BY <1>2, <1>4, SMT, SMTT(30)
  <2> QED BY <2>1, ZenonT(30)
<1>6. /\ Len(r) = Len(q) + 1 /\ r[Len(r)] = Item(s) /\ \A i \in 1..Len(q) : r[i] = q[i]
      /\ \A i \in 1..Len(r) : i \in 1..Len(q) \/ i = Len(r)
  BY <1>2, <1>4, <1>5, SMT, SMTT(30)
<1>7. \A i \in 0..Len(q) : At(r, i) = At(q, i)
  BY <1>4, <1>6, SMT, SMTT(30) DEF At
<1>8. \A i \in 1..Len(q) : q[i] # Item(s)
  <2>1. ~Accepted(s, sending[s])
    BY <1>1, SMT, SMTT(30) DEF Accepted, SenderOK, TypeOK
  <2> QED BY <1>2, <2>1, ZenonT(30) DEF ListOK, Sent, Item
<1>9. Chain(r)'
  <2>1. \A i, j \in 1..Len(r) : r[i] = r[j] => i = j
    BY <1>4, <1>6, <1>8, ZenonT(30) DEF ListOK, Chain
  <2>2. Len(got) \in 0..Len(q) /\ tail = At(r, Len(got)) /\ Len(got) <= Len(r)
    BY <1>4, <1>6, <1>7, SMT, SMTT(30) DEF ListOK, Chain, TypeOK
  <2>3. \A i \in 1..Len(got) : got[i] = r[i]
    BY <1>4, <1>6, <2>2, SMT, SMTT(30) DEF ListOK, Chain
  <2> QED BY <1>1, <2>1, <2>2, <2>3, ZenonT(30) DEF Chain
<1>10. Ends(r)'
  <2>1. At(r, Len(r)) = Item(s)
    BY <1>4, <1>6, SMT, SMTT(30) DEF At
  <2>2. next[Item(s)] = Null
    BY <1>2, <1>8, ZenonT(30) DEF ListOK, Links
  <2>3. pc'[Consumer] = pc[Consumer]
    BY <1>1, Names, ZenonT(30) DEF TypeOK
  <2> QED BY <1>1, <1>3, <2>1, <2>2, <2>3, ZenonT(30) DEF ListOK, Ends, Swapped, Sealed
<1>11. \A t \in Producers, i \in 0..(Len(q) - 1) : Claims(t, q, i) => Claims(t, r, i)'
  <2> SUFFICES ASSUME NEW t \in Producers, NEW i \in 0..(Len(q) - 1), Claims(t, q, i)
               PROVE  Claims(t, r, i)'
    BY ZenonT(30)
  <2>1. r[i + 1] = q[i + 1] /\ At(r, i) = At(q, i)
    BY <1>4, <1>6, <1>7, SMT, SMTT(30)
  <2>2. t # s
    BY <1>1, ZenonT(30) DEF Claims
  <2> QED BY <1>1, <2>1, <2>2, ZenonT(30) DEF Claims, Item, TypeOK
<1>12. Claims(s, r, Len(q))' /\ next[At(r, Len(q))] = Null
  <2>1. r[Len(q) + 1] = Item(s) /\ At(r, Len(q)) = At(q, Len(q))
    BY <1>4, <1>6, <1>7, SMT, SMTT(30)
  <2> QED BY <1>1, <1>3, <2>1, ZenonT(30) DEF Claims, Item, TypeOK, ListOK, Ends
<1>13. Links(r)'
  <2>1. ASSUME NEW i \in 0..(Len(r) - 1)
        PROVE  next[At(r, i)] = r[i + 1] \/ (next[At(r, i)] = Null /\ \E t \in Producers : Claims(t, r, i)')
    <3>1. CASE i = Len(q)
      BY <1>12, <3>1, ZenonT(30)
    <3>2. CASE i # Len(q)
      <4>1. i \in 0..(Len(q) - 1) /\ At(r, i) = At(q, i) /\ r[i + 1] = q[i + 1]
        BY <1>4, <1>6, <1>7, <3>2, SMT, SMTT(30)
      <4> QED BY <1>11, <4>1, ZenonT(30) DEF ListOK, Links
    <3> QED BY <3>1, <3>2, ZenonT(30)
  <2>2. ASSUME NEW n \in Items, \A i \in 1..Len(r) : r[i] # n
        PROVE  next[n] = Null
    <3>1. \A i \in 1..Len(q) : q[i] # n
      BY <1>4, <1>6, <2>2, SMT, SMTT(30)
    <3> QED BY <3>1, ZenonT(30) DEF ListOK, Links
  <2>3. ASSUME NEW t \in Producers, pc'[t] = "sLink"
        PROVE  \E i \in 0..(Len(r) - 1) : Claims(t, r, i)' /\ next[At(r, i)] = Null
    <3>1. CASE t = s
      <4>1. Len(q) \in 0..(Len(r) - 1)
        BY <1>4, <1>6, SMT, SMTT(30)
      <4> QED BY <1>12, <3>1, <4>1, ZenonT(30)
    <3>2. CASE t # s
      <4>1. pc[t] = "sLink"
        BY <1>1, <2>3, <3>2, ZenonT(30) DEF TypeOK
      <4>2. PICK i \in 0..(Len(q) - 1) : Claims(t, q, i) /\ next[At(q, i)] = Null
        BY <4>1, ZenonT(30) DEF ListOK, Links
      <4>3. i \in 0..(Len(r) - 1) /\ At(r, i) = At(q, i)
        BY <1>4, <1>6, <1>7, SMT, SMTT(30)
      <4> QED BY <1>11, <4>2, <4>3, ZenonT(30)
    <3> QED BY <3>1, <3>2, ZenonT(30)
  <2> QED BY <1>1, <2>1, <2>2, <2>3, ZenonT(30) DEF Links
<1>14. Sent(r)'
  <2> SUFFICES ASSUME NEW t \in Producers, NEW k \in 1..NumItems
               PROVE  Accepted(t, k)' <=> \E i \in 1..Len(r) : r[i] = <<t, k>>
    BY ZenonT(30) DEF Sent
  <2>1. Accepted(t, k)' <=> Accepted(t, k) \/ <<t, k>> = Item(s)
    BY <1>1, ZenonT(30) DEF Accepted, Item, TypeOK
  <2>2. (\E i \in 1..Len(r) : r[i] = <<t, k>>) <=> (\E i \in 1..Len(q) : q[i] = <<t, k>>) \/ <<t, k>> = Item(s)
    <3>1. Len(r) \in 1..Len(r) /\ \A i \in 1..Len(q) : i \in 1..Len(r)
      BY <1>4, <1>6, SMT, SMTT(30)
    <3> QED BY <1>6, <3>1, ZenonT(30)
  <2> QED BY <2>1, <2>2, ZenonT(30) DEF ListOK, Sent
<1> QED BY <1>5, <1>9, <1>10, <1>13, <1>14, ZenonT(30) DEF ListOK

(* The store of the link completes the place the producer claimed and no   *)
(* other.                                                                  *)
LEMMA SendLinkList ==
  ASSUME AccumulatorAssumption, TypeOK, NEW s \in Producers, SendLink(s), NEW q, ListOK(q)
  PROVE  ListOK(q)'
<1>1. /\ pc[s] = "sLink" /\ pc' = [pc EXCEPT ![s] = "sSignal"] /\ next' = [next EXCEPT ![cur[s]] = Item(s)]
      /\ UNCHANGED <<head, tail, closing, oldHead, cur, sending, outcome, got>>
  BY ZenonT(30) DEF SendLink, Goto, shutdown, log
<1>2. PICK i \in 0..(Len(q) - 1) : Claims(s, q, i) /\ next[At(q, i)] = Null
  BY <1>1, ZenonT(30) DEF ListOK, Links
<1>3. /\ Chain(q) /\ Len(q) \in Nat
      /\ \A j \in 0..Len(q) : At(q, j) \in Nodes
      /\ \A j, k \in 0..Len(q) : At(q, j) = At(q, k) => j = k
  BY AtFacts, ZenonT(30) DEF ListOK
<1>4. /\ next'[At(q, i)] = q[i + 1]
      /\ \A n \in Nodes : n # At(q, i) => next'[n] = next[n]
  BY <1>1, <1>2, <1>3, SMT, SMTT(30) DEF Claims, TypeOK
<1>5. \A j \in 0..Len(q) : j # i => next'[At(q, j)] = next[At(q, j)]
  BY <1>3, <1>4, SMT, SMTT(30)
<1>6. \A t \in Producers \ {s}, j \in 0..(Len(q) - 1) : Claims(t, q, j)' <=> Claims(t, q, j)
  BY <1>1, ZenonT(30) DEF Claims, Item, TypeOK
<1>7. \A j \in 0..(Len(q) - 1) : j # i => ~Claims(s, q, j)
  BY <1>2, <1>3, SMT, SMTT(30) DEF Claims, Chain
<1>8. pc'[Consumer] = pc[Consumer]
  BY <1>1, Names, ZenonT(30) DEF TypeOK
<1>9. Chain(q)' /\ Ends(q)'
  <2>1. next'[At(q, Len(q))] = next[At(q, Len(q))]
    BY <1>3, <1>5, SMT, SMTT(30)
  <2> QED BY <1>1, <1>8, <2>1, ZenonT(30) DEF ListOK, Chain, Ends, Swapped, Sealed
<1>10. Links(q)'
  <2>1. ASSUME NEW j \in 0..(Len(q) - 1)
        PROVE  \/ next'[At(q, j)] = q[j + 1]
               \/ next'[At(q, j)] = Null /\ \E t \in Producers : Claims(t, q, j)'
    <3>1. CASE j = i
      BY <1>4, <3>1, ZenonT(30)
    <3>2. CASE j # i
      <4>1. next'[At(q, j)] = next[At(q, j)]
        BY <1>3, <1>5, <3>2, SMT, SMTT(30)
      <4>2. \A t \in Producers : Claims(t, q, j) => t # s
        BY <1>7, <3>2, ZenonT(30)
      <4> QED BY <1>6, <4>1, <4>2, ZenonT(30) DEF ListOK, Links
    <3> QED BY <3>1, <3>2, ZenonT(30)
  <2>2. ASSUME NEW n \in Items, \A j \in 1..Len(q) : q[j] # n
        PROVE  next'[n] = Null
    <3>1. n # At(q, i)
      BY <1>3, <2>2, Names, SMT, SMTT(30) DEF At
    <3> QED BY <1>4, <2>2, <3>1, ZenonT(30) DEF ListOK, Links, Nodes
  <2>3. ASSUME NEW t \in Producers, pc'[t] = "sLink"
        PROVE  \E j \in 0..(Len(q) - 1) : Claims(t, q, j)' /\ next'[At(q, j)] = Null
    <3>1. t # s /\ pc[t] = "sLink"
      BY <1>1, <2>3, ZenonT(30) DEF TypeOK
    <3>2. PICK j \in 0..(Len(q) - 1) : Claims(t, q, j) /\ next[At(q, j)] = Null
      BY <3>1, ZenonT(30) DEF ListOK, Links
    <3>3. j # i
      BY <1>2, <3>1, <3>2, SMT, SMTT(30) DEF Claims, Item
    <3> QED BY <1>3, <1>5, <1>6, <3>1, <3>2, <3>3, SMT, SMTT(30)
  <2> QED BY <1>1, <2>1, <2>2, <2>3, ZenonT(30) DEF Links
<1>11. Sent(q)'
  <2>1. \A t \in Producers, k \in 1..NumItems : Accepted(t, k)' <=> Accepted(t, k)
    BY <1>1, ZenonT(30) DEF Accepted, TypeOK
  <2> QED BY <2>1, ZenonT(30) DEF ListOK, Sent
<1> QED BY <1>9, <1>10, <1>11, ZenonT(30) DEF ListOK

(* The steps of Close keep q: it takes the head away and seals the last    *)
(* node, whichever links are still missing before it.                      *)
LEMMA CloseList ==
  ASSUME AccumulatorAssumption, TypeOK, Close, NEW q, ListOK(q)
  PROVE  ListOK(q)'
<1>1. UNCHANGED <<tail, pc, cur, sending, outcome, got>>
  BY ZenonT(30) DEF Close, CloseFlag, CloseSwap, CloseLink, CloseDone, list, log
<1>2. \A s \in Producers, k \in 1..NumItems : Accepted(s, k)' <=> Accepted(s, k)
  BY <1>1, ZenonT(30) DEF Accepted
<1>3. Chain(q)' /\ Sent(q)'
  BY <1>1, <1>2, ZenonT(30) DEF ListOK, Chain, Sent
<1>4. \A s \in Producers, i \in 0..(Len(q) - 1) : Claims(s, q, i)' <=> Claims(s, q, i)
  BY <1>1, ZenonT(30) DEF Claims, Item
<1>5. CASE CloseFlag \/ CloseDone
  <2>1. /\ UNCHANGED <<head, next, oldHead>>
        /\ (closing = "open" /\ closing' = "swap") \/ (closing = "finish" /\ closing' = "end")
    BY <1>5, ZenonT(30) DEF CloseFlag, CloseDone, CloseStep, list
  <2>2. Ends(q)' /\ Links(q)'
    BY <1>1, <1>4, <2>1, ZenonT(30) DEF ListOK, Ends, Links, Swapped, Sealed
  <2> QED BY <1>3, <2>2, ZenonT(30) DEF ListOK
<1>6. CASE CloseSwap
  <2>1. closing = "swap" /\ closing' = "link" /\ oldHead' = head /\ head' = Null /\ next' = next
    BY <1>6, ZenonT(30) DEF CloseSwap, CloseStep
  <2>2. Ends(q)' /\ Links(q)'
    BY <1>1, <1>4, <2>1, ZenonT(30) DEF ListOK, Ends, Links, Swapped, Sealed
  <2> QED BY <1>3, <2>2, ZenonT(30) DEF ListOK
<1>7. CASE CloseLink
  <2>1. closing = "link" /\ closing' = "finish" /\ head' = head /\ next' = [next EXCEPT ![oldHead] = End]
    BY <1>7, ZenonT(30) DEF CloseLink, CloseStep
  <2>2. oldHead = At(q, Len(q)) /\ next \in [Nodes -> Nodes \cup {Null}]
    BY <2>1, ZenonT(30) DEF ListOK, Ends, TypeOK
  <2>3. /\ Len(q) \in Nat /\ \A j \in 0..Len(q) : At(q, j) \in Nodes
        /\ \A j, k \in 0..Len(q) : At(q, j) = At(q, k) => j = k
    BY AtFacts, ZenonT(30) DEF ListOK
  <2>4. next'[At(q, Len(q))] = End /\ \A n \in Nodes : n # At(q, Len(q)) => next'[n] = next[n]
    BY <2>1, <2>2, <2>3, SMT, SMTT(30)
  <2>5. \A i \in 0..(Len(q) - 1) : next'[At(q, i)] = next[At(q, i)]
    BY <2>3, <2>4, SMT, SMTT(30)
  <2>6. ASSUME NEW n \in Items, \A j \in 1..Len(q) : q[j] # n
        PROVE  next'[n] = Null
    <3>1. n # At(q, Len(q))
      BY <2>3, <2>6, Names, SMT, SMTT(30) DEF At
    <3> QED BY <2>4, <2>6, <3>1, ZenonT(30) DEF ListOK, Links, Nodes
  <2>7. Links(q)'
    BY <1>1, <1>4, <2>5, <2>6, ZenonT(30) DEF ListOK, Links
  <2>8. Ends(q)'
    BY <1>1, <2>1, <2>4, ZenonT(30) DEF ListOK, Ends, Swapped, Sealed
  <2> QED BY <1>3, <2>7, <2>8, ZenonT(30) DEF ListOK
<1> QED BY <1>5, <1>6, <1>7, ZenonT(30) DEF Close

(* What the consumer finds after tail: the next item of q, or the end node *)
(* when all of q has been consumed.                                        *)
LEMMA NextNode ==
  ASSUME AccumulatorAssumption, TypeOK, NEW q, ListOK(q)
  PROVE  /\ next[tail] \in Items => Len(got) < Len(q) /\ next[tail] = q[Len(got) + 1]
         /\ next[tail] = End => Sealed /\ Len(got) = Len(q)
<1>1. Len(got) \in 0..Len(q) /\ tail = At(q, Len(got)) /\ Len(q) \in Nat /\ \A i \in 1..Len(q) : q[i] \in Items
  BY AtFacts, SMT, SMTT(30) DEF ListOK, Chain, TypeOK
<1>2. CASE Len(got) = Len(q)
  BY <1>1, <1>2, Names, ZenonT(30) DEF ListOK, Ends
<1>3. CASE Len(got) # Len(q)
  <2>1. Len(got) \in 0..(Len(q) - 1) /\ q[Len(got) + 1] \in Items
    BY <1>1, <1>3, SMT, SMTT(30)
  <2>2. next[tail] = q[Len(got) + 1] \/ next[tail] = Null
    BY <1>1, <2>1, ZenonT(30) DEF ListOK, Links
  <2> QED BY <1>1, <2>1, <2>2, Names, SMT, SMTT(30)
<1> QED BY <1>2, <1>3, ZenonT(30)

(* Moving the tail consumes the next item.                                 *)
LEMMA AdvanceList ==
  ASSUME AccumulatorAssumption, TypeOK, NEW q, ListOK(q), next[tail] \in Items, Advance(next[tail]),
         UNCHANGED <<closing, oldHead, cur>>, pc'[Consumer] # "cEnd",
         \A s \in Producers : pc'[s] = pc[s]
  PROVE  ListOK(q)'
<1>1. /\ tail' = next[tail] /\ got' = Append(got, next[tail])
      /\ UNCHANGED <<head, next, sending, outcome>>
  BY ZenonT(30) DEF Advance
<1>2. Len(got) < Len(q) /\ next[tail] = q[Len(got) + 1] /\ Len(got) \in Nat /\ Len(q) \in Nat
  BY NextNode, AtFacts, SMT, SMTT(30) DEF TypeOK, ListOK
<1>3. Chain(q)'
  <2>1. Len(got') = Len(got) + 1 /\ got'[Len(got) + 1] = q[Len(got) + 1]
    BY <1>1, <1>2, SMT, SMTT(30) DEF TypeOK
  <2>2. \A i \in 1..Len(got) : got'[i] = q[i]
    BY <1>1, SMT, SMTT(30) DEF TypeOK, ListOK, Chain
  <2>3. \A i \in 1..Len(got') : got'[i] = q[i]
    BY <1>2, <2>1, <2>2, SMT, SMTT(30)
  <2>4. tail' = At(q, Len(got'))
    BY <1>1, <1>2, <2>1, SMT, SMTT(30) DEF At
  <2> QED BY <1>2, <2>1, <2>3, <2>4, SMT, SMTT(30) DEF ListOK, Chain
<1>4. Ends(q)'
  BY <1>1, ZenonT(30) DEF ListOK, Ends, Swapped, Sealed
<1>5. \A s \in Producers, i \in 0..(Len(q) - 1) : Claims(s, q, i)' <=> Claims(s, q, i)
  BY <1>1, ZenonT(30) DEF Claims, Item
<1>6. Links(q)'
  BY <1>1, <1>5, ZenonT(30) DEF ListOK, Links
<1>7. Sent(q)'
  BY <1>1, ZenonT(30) DEF ListOK, Sent, Accepted
<1> QED BY <1>3, <1>4, <1>6, <1>7, ZenonT(30) DEF ListOK

(* The steps of Recv and TryRecv and a cancellation keep q.                *)
LEMMA RecvList ==
  ASSUME AccumulatorAssumption, TypeOK, Recv \/ TryRecv \/ Cancel, NEW q, ListOK(q)
  PROVE  ListOK(q)'
<1>1. UNCHANGED <<closing, oldHead, cur>> /\ \A s \in Producers : pc'[s] = pc[s]
  <2>1. UNCHANGED <<closing, oldHead, cur>>
    BY ZenonT(30) DEF Recv, RecvCall, RecvLoad, RecvPark, TryRecv, Cancel, shutdown
  <2>2. pc' = pc \/ \E p \in RecvPcs : pc' = [pc EXCEPT ![Consumer] = p]
    BY ZenonT(30) DEF Recv, RecvCall, RecvLoad, RecvPark, TryRecv, Cancel, Goto, RecvPcs
  <2> QED BY <2>1, <2>2, Names, ZenonT(30) DEF TypeOK
<1>2. CASE (RecvLoad \/ TryRecv) /\ next[tail] \in Items
  <2>1. Advance(next[tail]) /\ pc'[Consumer] # "cEnd"
    <3>1. CASE RecvLoad
      BY <1>2, <3>1, Names, ZenonT(30) DEF RecvLoad, Goto, TypeOK
    <3>2. CASE TryRecv
      BY <1>2, <3>2, ZenonT(30) DEF TryRecv
    <3> QED BY <1>2, <3>1, <3>2, ZenonT(30)
  <2> QED BY <1>1, <1>2, <2>1, AdvanceList, ZenonT(30)
<1>3. CASE RecvLoad /\ next[tail] = End
  <2>1. UNCHANGED <<head, tail, next, sending, outcome, got>>
    BY <1>3, Names, ZenonT(30) DEF RecvLoad, list, log
  <2>2. Sealed /\ Len(got) = Len(q)
    BY <1>3, NextNode, ZenonT(30)
  <2>3. Chain(q)' /\ Ends(q)'
    BY <1>1, <2>1, <2>2, ZenonT(30) DEF ListOK, Chain, Ends, Swapped, Sealed
  <2>4. \A s \in Producers, i \in 0..(Len(q) - 1) : Claims(s, q, i)' <=> Claims(s, q, i)
    BY <1>1, <2>1, ZenonT(30) DEF Claims, Item
  <2>5. Links(q)' /\ Sent(q)'
    BY <1>1, <2>1, <2>4, ZenonT(30) DEF ListOK, Links, Sent, Accepted
  <2> QED BY <2>3, <2>5, ZenonT(30) DEF ListOK
<1>4. CASE UNCHANGED <<head, tail, next, sending, outcome, got>> /\ (pc'[Consumer] = "cEnd" => pc[Consumer] = "cEnd")
  <2>1. \A s \in Producers, k \in 1..NumItems : Accepted(s, k)' <=> Accepted(s, k)
    BY <1>1, <1>4, ZenonT(30) DEF Accepted
  <2> QED BY <1>1, <1>4, <2>1, SameList, ZenonT(30)
<1>5. ASSUME ~((RecvLoad \/ TryRecv) /\ next[tail] \in Items), ~(RecvLoad /\ next[tail] = End)
      PROVE  UNCHANGED <<head, tail, next, sending, outcome, got>> /\ (pc'[Consumer] = "cEnd" => pc[Consumer] = "cEnd")
  <2>1. CASE RecvCall
    BY <2>1, ZenonT(30) DEF RecvCall, Goto, list, log, TypeOK
  <2>2. CASE RecvLoad
    BY <1>5, <2>2, ZenonT(30) DEF RecvLoad, Goto, list, log, TypeOK
  <2>3. CASE RecvPark
    BY <2>3, ZenonT(30) DEF RecvPark, Goto, list, log, TypeOK
  <2>4. CASE TryRecv
    BY <1>5, <2>4, ZenonT(30) DEF TryRecv, list, log
  <2>5. CASE Cancel
    BY <2>5, ZenonT(30) DEF Cancel, list, log
  <2> QED BY <2>1, <2>2, <2>3, <2>4, <2>5, ZenonT(30) DEF Recv
<1> QED BY <1>2, <1>3, <1>4, <1>5, ZenonT(30)

(* What returning from Send records.                                       *)
LEMMA ReturnFacts ==
  ASSUME TypeOK, NEW s \in Producers, SenderOK(s), NEW ok \in BOOLEAN, Return(s, ok)
  PROVE  /\ outcome' \in [Producers -> Seq(BOOLEAN)] /\ sending' \in [Producers -> Nat] /\ got' = got
         /\ sending'[s] = sending[s] + 1 /\ sending'[s] = Len(outcome'[s]) + 1
         /\ \A k \in Nat : k \in 1..Len(outcome'[s]) /\ outcome'[s][k] <=>
              (k \in 1..Len(outcome[s]) /\ outcome[s][k]) \/ (k = sending[s] /\ ok)
         /\ \A t \in Producers \ {s} : outcome'[t] = outcome[t] /\ sending'[t] = sending[t]
<1>1. outcome[s] \in Seq(BOOLEAN) /\ Append(outcome[s], ok) \in Seq(BOOLEAN)
  BY SMT, SMTT(30) DEF TypeOK
<1>2. /\ outcome' = [outcome EXCEPT ![s] = Append(outcome[s], ok)] /\ got' = got
      /\ sending' = [sending EXCEPT ![s] = sending[s] + 1]
  BY ZenonT(30) DEF Return
<1>3. outcome' \in [Producers -> Seq(BOOLEAN)] /\ outcome'[s] = Append(outcome[s], ok)
  BY <1>1, <1>2, ZenonT(30) DEF TypeOK
<1>4. sending' \in [Producers -> Nat] /\ sending'[s] = sending[s] + 1 /\ sending[s] = Len(outcome[s]) + 1
  BY <1>2, SMT, SMTT(30) DEF TypeOK, SenderOK
<1>5. Len(outcome'[s]) = Len(outcome[s]) + 1 /\ outcome'[s][Len(outcome[s]) + 1] = ok
  BY <1>1, <1>3, SMT, SMTT(30)
<1>6. \A k \in 1..Len(outcome[s]) : outcome'[s][k] = outcome[s][k]
  BY <1>1, <1>3, SMT, SMTT(30)
<1>7. Len(outcome[s]) \in Nat
  BY <1>1, SMT, SMTT(30)
<1>8. \A k \in Nat : k \in 1..Len(outcome'[s]) <=> k \in 1..Len(outcome[s]) \/ k = Len(outcome[s]) + 1
  BY <1>5, <1>7, SMT, SMTT(30)
<1>9. \A k \in Nat : k \in 1..Len(outcome'[s]) /\ outcome'[s][k] <=>
        (k \in 1..Len(outcome[s]) /\ outcome[s][k]) \/ (k = sending[s] /\ ok)
  BY <1>4, <1>5, <1>6, <1>7, <1>8, ZenonT(30)
<1>10. \A t \in Producers \ {s} : outcome'[t] = outcome[t] /\ sending'[t] = sending[t]
  BY <1>2, ZenonT(30) DEF TypeOK
<1> QED BY <1>2, <1>3, <1>4, <1>5, <1>9, <1>10, ZenonT(30)

(* The steps that return from Send, with false when the head is nil and    *)
(* with true after the signal, keep ListInv and q.                         *)
LEMMA ReturnsInv ==
  ASSUME AccumulatorAssumption, ListInv, NEW s \in Producers,
         (SendLoad(s) /\ head = Null) \/ SendSignal(s)
  PROVE  ListInv' /\ \A q \in Seq(Items) : ListOK(q) => ListOK(q)'
<1> DEFINE ok == pc[s] = "sSignal"
<1>1. /\ TypeOK /\ SenderOK(s) /\ ok \in BOOLEAN /\ pc[s] \in {"sLoad", "sSignal"}
      /\ Return(s, ok) /\ UNCHANGED <<head, tail, next, closing, oldHead>>
  <2>1. CASE SendLoad(s) /\ head = Null
    <3>1. pc[s] = "sLoad" /\ Return(s, FALSE) /\ UNCHANGED <<head, tail, next, closing, oldHead>>
      BY <2>1, ZenonT(30) DEF SendLoad, Goto, list, shutdown
    <3> QED BY <3>1, ZenonT(30) DEF ListInv
  <2>2. CASE SendSignal(s)
    <3>1. pc[s] = "sSignal" /\ Return(s, TRUE) /\ UNCHANGED <<head, tail, next, closing, oldHead>>
      BY <2>2, ZenonT(30) DEF SendSignal, list, shutdown
    <3> QED BY <3>1, ZenonT(30) DEF ListInv
  <2> QED BY <2>1, <2>2, ZenonT(30)
<1>2. /\ outcome' \in [Producers -> Seq(BOOLEAN)] /\ sending' \in [Producers -> Nat] /\ got' = got
      /\ sending'[s] = sending[s] + 1 /\ sending'[s] = Len(outcome'[s]) + 1
      /\ \A k \in Nat : k \in 1..Len(outcome'[s]) /\ outcome'[s][k] <=>
           (k \in 1..Len(outcome[s]) /\ outcome[s][k]) \/ (k = sending[s] /\ ok)
      /\ \A t \in Producers \ {s} : outcome'[t] = outcome[t] /\ sending'[t] = sending[t]
  BY <1>1, ReturnFacts, ZenonT(30)
<1>3. /\ DOMAIN pc' = Producers \cup {Consumer} /\ pc'[Consumer] \in {pc[Consumer], "cRecv"}
      /\ pc'[s] = "sEnd" \/ (pc'[s] = "sLoad" /\ sending[s] < NumItems)
      /\ \A t \in Producers \ {s} : pc'[t] = pc[t]
  <2>1. CASE SendLoad(s) /\ head = Null
    BY <1>1, <2>1, Names, ZenonT(30) DEF SendLoad, Goto, TypeOK
  <2>2. CASE SendSignal(s)
    <3>1. AfterSend(s, TRUE) = "sEnd" \/ (AfterSend(s, TRUE) = "sLoad" /\ sending[s] < NumItems)
      BY ZenonT(30) DEF AfterSend
    <3>2. \/ pc' = [pc EXCEPT ![s] = AfterSend(s, TRUE), ![Consumer] = "cRecv"]
          \/ pc' = [pc EXCEPT ![s] = AfterSend(s, TRUE)]
      BY <2>2, ZenonT(30) DEF SendSignal
    <3> QED BY <1>1, <3>1, <3>2, Names, ZenonT(30) DEF TypeOK
  <2> QED BY <2>1, <2>2, ZenonT(30)
<1>4. cur' \in [Producers -> Nodes \cup {Null}] /\ \A t \in Producers \ {s} : cur'[t] = cur[t]
  BY <1>1, ZenonT(30) DEF SendLoad, SendSignal, TypeOK
<1> HIDE DEF ok
<1>5. TypeOK'
  BY <1>1, <1>2, <1>3, <1>4, ZenonT(30) DEF TypeOK, SendPcs, RecvPcs
<1>6. \A t \in Producers : SenderOK(t)'
  <2>1. SenderOK(s)'
    <3>1. (pc'[s] # "sEnd" => sending'[s] <= NumItems) /\ sending'[s] <= NumItems + 1
      BY <1>1, <1>2, <1>3, Names, SMT, SMTT(30) DEF TypeOK, SenderOK
    <3> QED BY <1>2, <1>3, <3>1, ZenonT(30) DEF SenderOK
  <2>2. ASSUME NEW t \in Producers \ {s}
        PROVE  SenderOK(t)'
    <3>1. SenderOK(t) /\ outcome'[t] = outcome[t] /\ sending'[t] = sending[t] /\ pc'[t] = pc[t] /\ cur'[t] = cur[t]
      BY <1>2, <1>3, <1>4, ZenonT(30) DEF ListInv
    <3> QED BY <3>1, ZenonT(30) DEF SenderOK
  <2> QED BY <2>1, <2>2, ZenonT(30)
<1>7. \A t \in Producers, k \in 1..NumItems : Accepted(t, k)' <=> Accepted(t, k)
  <2> SUFFICES ASSUME NEW t \in Producers, NEW k \in 1..NumItems
               PROVE  Accepted(t, k)' <=> Accepted(t, k)
    BY ZenonT(30)
  <2>1. CASE t # s
    BY <1>2, <1>3, <2>1, ZenonT(30) DEF Accepted
  <2>2. CASE t = s
    <3>1. Accepted(s, k)' <=> (k \in 1..Len(outcome[s]) /\ outcome[s][k]) \/ (k = sending[s] /\ ok)
      BY <1>2, <1>3, SMT, SMTT(30) DEF Accepted
    <3>2. ok <=> pc[s] \in {"sLink", "sSignal"}
      BY <1>1, ZenonT(30) DEF ok
    <3> QED BY <2>2, <3>1, <3>2, ZenonT(30) DEF Accepted
  <2> QED BY <2>1, <2>2, ZenonT(30)
<1>8. ASSUME NEW q \in Seq(Items), ListOK(q)
      PROVE  ListOK(q)'
  <2>1. \A t \in Producers : pc'[t] = "sLink" <=> pc[t] = "sLink"
    BY <1>1, <1>3, ZenonT(30)
  <2>2. \A t \in Producers : pc[t] = "sLink" => cur'[t] = cur[t] /\ sending'[t] = sending[t]
    BY <1>1, <1>2, <1>4, ZenonT(30)
  <2>3. pc'[Consumer] = "cEnd" => pc[Consumer] = "cEnd"
    BY <1>3, ZenonT(30)
  <2> QED BY <1>1, <1>2, <1>7, <1>8, <2>1, <2>2, <2>3, SameList, ZenonT(30)
<1> QED BY <1>5, <1>6, <1>8, ZenonT(30) DEF ListInv

(* So do the other steps of Send, but for the compare-and-swap that        *)
(* succeeds, which changes q.                                              *)
LEMMA SendMovesInv ==
  ASSUME AccumulatorAssumption, ListInv, NEW s \in Producers,
         (SendLoad(s) /\ head # Null) \/ SendCas(s) \/ SendLink(s)
  PROVE  /\ ListInv'
         /\ ~(SendCas(s) /\ head = cur[s]) => \A q \in Seq(Items) : ListOK(q) => ListOK(q)'
<1>1. /\ TypeOK /\ SenderOK(s) /\ UNCHANGED <<tail, closing, oldHead, sending, outcome, got>>
      /\ pc[s] \in {"sLoad", "sCas", "sLink"}
      /\ \E p \in {"sLoad", "sCas", "sLink", "sSignal"} : pc' = [pc EXCEPT ![s] = p]
  BY ZenonT(30) DEF SendLoad, SendCas, SendLink, Goto, list, shutdown, log, ListInv
<1>2. /\ DOMAIN pc' = Producers \cup {Consumer} /\ pc'[Consumer] = pc[Consumer]
      /\ pc'[s] \in {"sLoad", "sCas", "sLink", "sSignal"} /\ \A t \in Producers \ {s} : pc'[t] = pc[t]
  BY <1>1, Names, ZenonT(30) DEF TypeOK
<1>3. Item(s) \in Items
  BY <1>1, Names, SMT, SMTT(30) DEF TypeOK, SenderOK, Item, Items
<1>4. TypeOK' /\ \A t \in Producers : SenderOK(t)'
  <2>1. CASE SendLoad(s) /\ head # Null
    <3>1. cur' = [cur EXCEPT ![s] = head] /\ UNCHANGED <<head, next>>
      BY <2>1, ZenonT(30) DEF SendLoad, list
    <3>2. TypeOK'
      BY <1>1, <1>2, <3>1, ZenonT(30) DEF TypeOK, SendPcs
    <3>3. cur'[s] # Null /\ \A t \in Producers \ {s} : cur'[t] = cur[t]
      BY <1>1, <2>1, <3>1, ZenonT(30) DEF TypeOK
    <3> QED BY <1>1, <1>2, <3>2, <3>3, ZenonT(30) DEF ListInv, SenderOK
  <2>2. CASE SendCas(s)
    <3>1. head' \in {head, Item(s)} /\ UNCHANGED <<next, cur>> /\ pc[s] = "sCas"
      BY <2>2, ZenonT(30) DEF SendCas, Goto
    <3>2. TypeOK'
      BY <1>1, <1>2, <1>3, <3>1, SMT, SMTT(30) DEF TypeOK, SendPcs, Nodes
    <3> QED BY <1>1, <1>2, <3>1, <3>2, ZenonT(30) DEF ListInv, SenderOK
  <2>3. CASE SendLink(s)
    <3>1. next' = [next EXCEPT ![cur[s]] = Item(s)] /\ UNCHANGED <<head, cur>> /\ pc[s] = "sLink" /\ pc'[s] = "sSignal"
      BY <1>1, <2>3, ZenonT(30) DEF SendLink, Goto, TypeOK
    <3>2. TypeOK'
      BY <1>1, <1>2, <1>3, <3>1, ZenonT(30) DEF TypeOK, SendPcs, Nodes
    <3> QED BY <1>1, <1>2, <3>1, <3>2, ZenonT(30) DEF ListInv, SenderOK
  <2> QED BY <2>1, <2>2, <2>3, ZenonT(30)
<1>5. ASSUME NEW q \in Seq(Items), ListOK(q), ~(SendCas(s) /\ head = cur[s])
      PROVE  ListOK(q)'
  <2>1. CASE SendLink(s)
    BY <1>1, <1>5, <2>1, SendLinkList, ZenonT(30)
  <2>2. CASE (SendLoad(s) /\ head # Null) \/ (SendCas(s) /\ head # cur[s])
    <3>1. /\ UNCHANGED <<head, next>> /\ pc[s] \in {"sLoad", "sCas"} /\ pc'[s] \in {"sLoad", "sCas"}
          /\ \A t \in Producers \ {s} : cur'[t] = cur[t]
      BY <1>1, <2>2, ZenonT(30) DEF SendLoad, SendCas, Goto, list, TypeOK
    <3>2. \A t \in Producers, k \in 1..NumItems : Accepted(t, k)' <=> Accepted(t, k)
      BY <1>1, <1>2, <3>1, ZenonT(30) DEF Accepted
    <3>3. \A t \in Producers : pc'[t] = "sLink" <=> pc[t] = "sLink"
      BY <1>2, <3>1, ZenonT(30)
    <3>4. \A t \in Producers : pc[t] = "sLink" => cur'[t] = cur[t] /\ sending'[t] = sending[t]
      BY <1>1, <3>1, ZenonT(30)
    <3> QED BY <1>1, <1>2, <1>5, <3>1, <3>2, <3>3, <3>4, SameList, ZenonT(30)
  <2> QED BY <1>5, <2>1, <2>2, ZenonT(30)
<1>6. PICK q \in Seq(Items) : ListOK(q)
  BY ZenonT(30) DEF ListInv
<1>7. \E r \in Seq(Items) : ListOK(r)'
  <2>1. CASE SendCas(s) /\ head = cur[s]
    BY <1>1, <1>6, <2>1, SendCasList, ZenonT(30)
  <2> QED BY <1>5, <1>6, <2>1, ZenonT(30)
<1> QED BY <1>4, <1>5, <1>7, ZenonT(30) DEF ListInv

(* Close, Recv, TryRecv and a cancellation keep ListInv.                   *)
LEMMA OthersInv ==
  ASSUME AccumulatorAssumption, ListInv, Close \/ Recv \/ TryRecv \/ Cancel
  PROVE  ListInv'
<1>1. TypeOK /\ \A s \in Producers : SenderOK(s)
  BY ZenonT(30) DEF ListInv
<1>2. PICK q \in Seq(Items) : ListOK(q)
  BY ZenonT(30) DEF ListInv
<1>3. ListOK(q)'
  BY <1>1, <1>2, CloseList, RecvList, ZenonT(30)
<1>4. TypeOK'
  <2>1. CASE Close
    <3>1. /\ UNCHANGED <<tail, pc, cur, sending, outcome, got>> /\ head' \in {head, Null}
          /\ closing' \in {"swap", "link", "finish", "end"} /\ oldHead' \in {oldHead, head}
          /\ next' = next \/ next' = [next EXCEPT ![oldHead] = End]
      BY <2>1, ZenonT(30) DEF Close, CloseFlag, CloseSwap, CloseLink, CloseDone, CloseStep, list, log
    <3>2. next' \in [Nodes -> Nodes \cup {Null}]
      BY <1>1, <3>1, ZenonT(30) DEF TypeOK, Nodes
    <3> QED BY <1>1, <3>1, <3>2, ZenonT(30) DEF TypeOK
  <2>2. CASE Recv \/ TryRecv \/ Cancel
    <3>1. UNCHANGED <<head, next, closing, oldHead, cur, sending, outcome>>
      BY <2>2, ZenonT(30) DEF Recv, RecvCall, RecvLoad, RecvPark, TryRecv, Cancel, shutdown, list, log, Advance
    <3>2. pc' = pc \/ \E p \in RecvPcs : pc' = [pc EXCEPT ![Consumer] = p]
      BY <2>2, ZenonT(30) DEF Recv, RecvCall, RecvLoad, RecvPark, TryRecv, Cancel, Goto, RecvPcs
    <3>3. \/ UNCHANGED <<tail, got>>
          \/ next[tail] \in Items /\ tail' = next[tail] /\ got' = Append(got, next[tail])
      BY <2>2, ZenonT(30) DEF Recv, RecvCall, RecvLoad, RecvPark, TryRecv, Cancel, list, log, Advance
    <3>4. tail' \in Nodes /\ got' \in Seq(Items)
      <4>1. CASE UNCHANGED <<tail, got>>
        BY <1>1, <4>1, ZenonT(30) DEF TypeOK
      <4>2. CASE next[tail] \in Items /\ tail' = next[tail] /\ got' = Append(got, next[tail])
        <5>1. Append(got, next[tail]) \in Seq(Items)
          BY <1>1, <4>2, SMT, SMTT(30) DEF TypeOK
        <5> QED BY <4>2, <5>1, Names, ZenonT(30)
      <4> QED BY <3>3, <4>1, <4>2, ZenonT(30)
    <3>5. DOMAIN pc' = Producers \cup {Consumer} /\ pc'[Consumer] \in RecvPcs /\ \A s \in Producers : pc'[s] = pc[s]
      BY <1>1, <3>2, Names, ZenonT(30) DEF TypeOK
    <3> QED BY <1>1, <3>1, <3>4, <3>5, ZenonT(30) DEF TypeOK
  <2> QED BY <2>1, <2>2, ZenonT(30)
<1>5. \A s \in Producers : pc'[s] = pc[s] /\ UNCHANGED <<cur, sending, outcome>>
  <2>1. CASE Close
    BY <2>1, ZenonT(30) DEF Close, CloseFlag, CloseSwap, CloseLink, CloseDone, list, log
  <2>2. CASE Recv \/ TryRecv \/ Cancel
    <3>1. UNCHANGED <<cur, sending, outcome>>
      BY <2>2, ZenonT(30) DEF Recv, RecvCall, RecvLoad, RecvPark, TryRecv, Cancel, shutdown, list, log, Advance
    <3>2. pc' = pc \/ \E p \in RecvPcs : pc' = [pc EXCEPT ![Consumer] = p]
      BY <2>2, ZenonT(30) DEF Recv, RecvCall, RecvLoad, RecvPark, TryRecv, Cancel, Goto, RecvPcs
    <3> QED BY <1>1, <3>1, <3>2, Names, ZenonT(30) DEF TypeOK
  <2> QED BY <2>1, <2>2, ZenonT(30)
<1>6. \A s \in Producers : SenderOK(s)'
  BY <1>1, <1>5, ZenonT(30) DEF SenderOK
<1> QED BY <1>2, <1>3, <1>4, <1>6, ZenonT(30) DEF ListInv

(* ListInv holds initially, for the empty sequence.                        *)
LEMMA InitInv ==
  ASSUME AccumulatorAssumption, Init
  PROVE  ListInv
<1>1. /\ head = Root /\ tail = Root /\ next = [n \in Nodes |-> Null] /\ closing = "open" /\ oldHead = Null
      /\ pc = [t \in Producers \cup {Consumer} |-> IF t = Consumer THEN "cIdle" ELSE "sLoad"]
      /\ cur = [s \in Producers |-> Null] /\ sending = [s \in Producers |-> 1]
      /\ outcome = [s \in Producers |-> <<>>] /\ got = <<>>
  BY ZenonT(30) DEF Init
<1>2. pc[Consumer] = "cIdle" /\ \A s \in Producers : pc[s] = "sLoad"
  BY <1>1, Names, ZenonT(30)
<1>3. TypeOK
  <2>1. got \in Seq(Items) /\ outcome \in [Producers -> Seq(BOOLEAN)] /\ DOMAIN pc = Producers \cup {Consumer}
    BY <1>1, SMT, SMTT(30)
  <2> QED BY <1>1, <1>2, <2>1, Names, ZenonT(30) DEF TypeOK, SendPcs, RecvPcs
<1>4. \A s \in Producers : SenderOK(s) /\ outcome[s] = <<>>
  BY <1>1, <1>2, Names, SMT, SMTT(30) DEF SenderOK
<1>5. PICK q \in Seq(Items) : q = <<>>
  <2>1. <<>> \in Seq(Items)
    BY SMT, SMTT(30)
  <2> QED BY <2>1, ZenonT(30)
<1>6. Len(q) = 0 /\ At(q, 0) = Root
  BY <1>5, ZenonT(30) DEF At
<1>7. Chain(q) /\ Ends(q)
  BY <1>1, <1>2, <1>6, Names, SMT, SMTT(30) DEF Chain, Ends, Swapped, Sealed
<1>8. Links(q)
  BY <1>1, <1>2, <1>6, Names, SMT, SMTT(30) DEF Links
<1>9. Sent(q)
  BY <1>2, <1>4, <1>6, SMT, SMTT(30) DEF Sent, Accepted
<1> QED BY <1>3, <1>4, <1>7, <1>8, <1>9, ZenonT(30) DEF ListInv, ListOK

(* Every step keeps ListInv.                                               *)
LEMMA NextInv ==
  ASSUME AccumulatorAssumption, ListInv, Next
  PROVE  ListInv'
<1>1. ASSUME NEW s \in Producers, Send(s)
      PROVE  ListInv'
  <2>1. (SendLoad(s) /\ head = Null) \/ (SendLoad(s) /\ head # Null) \/ SendCas(s) \/ SendLink(s) \/ SendSignal(s)
    BY <1>1, ZenonT(30) DEF Send
  <2> QED BY <2>1, ReturnsInv, SendMovesInv, ZenonT(30)
<1> QED BY <1>1, OthersInv, ZenonT(30) DEF Next

(* So does a step that changes nothing.                                    *)
LEMMA StutterInv ==
  ASSUME ListInv, UNCHANGED vars
  PROVE  ListInv'
<1>1. UNCHANGED <<head, tail, next, closing, oldHead, pc, cur, sending, outcome, got>>
  BY ZenonT(30) DEF vars
<1>2. TypeOK' /\ \A s \in Producers : SenderOK(s)'
  BY <1>1, ZenonT(30) DEF ListInv, TypeOK, SenderOK
<1>3. PICK q \in Seq(Items) : ListOK(q)
  BY ZenonT(30) DEF ListInv
<1>4. \A s \in Producers, k \in 1..NumItems : Accepted(s, k)' <=> Accepted(s, k)
  BY <1>1, ZenonT(30) DEF Accepted
<1>5. ListOK(q)'
  BY <1>1, <1>3, <1>4, SameList, ZenonT(30)
<1> QED BY <1>2, <1>3, <1>5, ZenonT(30) DEF ListInv

(* ListInv holds in every reachable state: there is always one order of    *)
(* the accepted items that the nodes, the claims of producers and what the *)
(* consumer got agree on (Send, Recv, TryRecv and Close of                 *)
(* accumulator.go).                                                        *)
THEOREM ListCorrect ==
  ASSUME AccumulatorAssumption
  PROVE  Spec => []ListInv
<1>1. Init => ListInv
  BY InitInv, ZenonT(30)
<1>2. ListInv /\ [Next]_vars => ListInv'
  BY NextInv, StutterInv, ZenonT(30)
<1> QED BY <1>1, <1>2, PTL DEF Spec

(* A set of naturals that is not empty has a least element.                *)
LEMMA NatMin ==
  ASSUME NEW T \in SUBSET Nat, T # {}
  PROVE  \E m \in T : \A k \in T : m <= k
<1> DEFINE R == {ss \in Nat \X Nat : ss[1] < ss[2]}
<1>1. OpToRel(<, Nat) = R
  BY ZenonT(30) DEF OpToRel
<1>2. IsWellFoundedOn(R, Nat)
  BY <1>1, NatLessThanWellFounded, ZenonT(30)
<1>3. \A k, m \in Nat : k < m => <<k, m>> \in R
  <2> SUFFICES ASSUME NEW k \in Nat, NEW m \in Nat, k < m
               PROVE  <<k, m>> \in R
    BY ZenonT(30)
  <2>1. <<k, m>>[1] < <<k, m>>[2] /\ <<k, m>> \in Nat \X Nat
    BY ZenonT(30)
  <2> QED BY <2>1, ZenonT(30)
<1> HIDE DEF R
<1>4. PICK m \in T : \A y \in T : ~(<<y, m>> \in R)
  BY <1>2, WFMin, ZenonT(30)
<1>5. ASSUME NEW k \in T, k < m
      PROVE  FALSE
  BY <1>3, <1>4, <1>5, ZenonT(30)
<1> QED BY <1>5, SMT, SMTT(30)

(* There are finitely many items.                                          *)
LEMMA ItemsFinite ==
  ASSUME AccumulatorAssumption
  PROVE  IsFiniteSet(Items) /\ Cardinality(Items) \in Nat
<1>1. IsFiniteSet(1..NumItems) /\ IsFiniteSet(Producers)
  BY FS_Interval, Names, SMT, SMTT(30) DEF AccumulatorAssumption
<1>2. IsFiniteSet(Producers \X (1..NumItems))
  BY <1>1, FS_Product, ZenonT(30)
<1> QED BY <1>2, FS_CardinalityType, ZenonT(30) DEF Items

(* The size of an interval from one.                                       *)
LEMMA IntervalSize ==
  ASSUME NEW m \in Nat
  PROVE  Cardinality(1..m) = m
<1>1. Cardinality(1..m) = IF 1 > m THEN 0 ELSE m - 1 + 1
  BY FS_Interval, SMT, SMTT(30)
<1> QED BY <1>1, SMT, SMTT(30)

(* A list without repetitions is no longer than there are items.           *)
LEMMA ChainFits ==
  ASSUME AccumulatorAssumption, NEW q, Chain(q)
  PROVE  Len(q) <= Cardinality(Items)
<1>1. q \in Seq(Items) /\ Len(q) \in Nat /\ \A i, j \in 1..Len(q) : q[i] = q[j] => i = j
  BY SMT, SMTT(30) DEF Chain
<1>2. q \in Injection(1..Len(q), Items)
  BY <1>1, SMT, SMTT(30) DEF Injection, IsInjective
<1>3. Cardinality(1..Len(q)) = Len(q)
  BY <1>1, IntervalSize, ZenonT(30)
<1>4. Cardinality(1..Len(q)) <= Cardinality(Items)
  BY <1>2, ItemsFinite, FS_Injection, ZenonT(30)
<1> QED BY <1>3, <1>4, ZenonT(30)

(* Succ, the logical successor that counts claimed nodes as linked,        *)
(* follows q, whatever links are missing.                                  *)
LEMMA SuccFacts ==
  ASSUME AccumulatorAssumption, TypeOK, NEW q, ListOK(q)
  PROVE  /\ \A i \in 0..(Len(q) - 1) : Succ[At(q, i)] = q[i + 1]
         /\ Succ[At(q, Len(q))] = next[At(q, Len(q))]
         /\ Succ[End] = Null /\ Succ[Null] = Null
<1> DEFINE claim(n) == {s \in Producers : pc[s] = "sLink" /\ cur[s] = n}
<1>1. \A n \in Nodes \ {End} :
        /\ claim(n) = {} => Succ[n] = next[n]
        /\ claim(n) # {} => Succ[n] = Item(CHOOSE s \in claim(n) : TRUE)
  BY Names, ZenonT(30) DEF Succ
<1>2. Succ[End] = Null /\ Succ[Null] = Null
  BY Names, ZenonT(30) DEF Succ
<1>3. /\ Len(q) \in Nat /\ \A i \in 0..Len(q) : At(q, i) \in Nodes \ {End}
      /\ \A i, j \in 0..Len(q) : At(q, i) = At(q, j) => i = j
  BY AtFacts, ZenonT(30) DEF ListOK
<1>4. ASSUME NEW i \in 0..Len(q), NEW s \in claim(At(q, i))
      PROVE  i \in 0..(Len(q) - 1) /\ Item(s) = q[i + 1]
  <2>1. PICK j \in 0..(Len(q) - 1) : Claims(s, q, j)
    BY <1>4, ZenonT(30) DEF ListOK, Links
  <2>2. j = i
    BY <1>3, <1>4, <2>1, SMT, SMTT(30) DEF Claims
  <2> QED BY <2>1, <2>2, ZenonT(30) DEF Claims
<1>5. ASSUME NEW i \in 0..(Len(q) - 1)
      PROVE  Succ[At(q, i)] = q[i + 1]
  <2>1. i \in 0..Len(q)
    BY <1>3, SMT, SMTT(30)
  <2>2. CASE claim(At(q, i)) = {}
    <3>1. \A s \in Producers : ~Claims(s, q, i)
      BY <2>2, ZenonT(30) DEF Claims
    <3> QED BY <1>1, <1>3, <2>1, <2>2, <3>1, ZenonT(30) DEF ListOK, Links
  <2>3. CASE claim(At(q, i)) # {}
    <3>1. PICK s : s = CHOOSE t \in claim(At(q, i)) : TRUE
      BY ZenonT(30)
    <3>2. s \in claim(At(q, i))
      BY <2>3, <3>1, ZenonT(30)
    <3> HIDE DEF claim
    <3>3. Item(s) = q[i + 1]
      BY <1>4, <2>1, <3>2, ZenonT(30)
    <3> QED BY <1>1, <1>3, <2>1, <2>3, <3>1, <3>3, ZenonT(30)
  <2> QED BY <2>2, <2>3, ZenonT(30)
<1>6. Succ[At(q, Len(q))] = next[At(q, Len(q))]
  <2>1. Len(q) \in 0..Len(q) /\ Len(q) \notin 0..(Len(q) - 1)
    BY <1>3, SMT, SMTT(30)
  <2>2. claim(At(q, Len(q))) = {}
    BY <1>4, <2>1, ZenonT(30)
  <2> QED BY <1>1, <1>3, <2>1, <2>2, ZenonT(30)
<1> QED BY <1>2, <1>5, <1>6, ZenonT(30)

(* Behind, the nodes after tail along Succ, goes through q to its end.     *)
LEMMA BehindFacts ==
  ASSUME AccumulatorAssumption, TypeOK, NEW q, ListOK(q)
  PROVE  \A k \in 0..Cardinality(Items) :
           IF k <= Len(q) - Len(got) THEN Behind[k] = At(q, Len(got) + k) ELSE Behind[k] \in {End, Null}
<1> DEFINE m == Len(q) - Len(got)
           last == next[At(q, Len(q))]
           N == Cardinality(Items)
           f == [k \in 0..N |-> IF k <= m THEN At(q, Len(got) + k) ELSE IF k = m + 1 THEN last ELSE Null]
<1>1. /\ Len(q) \in Nat /\ Len(got) \in 0..Len(q) /\ m \in Nat /\ m <= N /\ N \in Nat
      /\ tail = At(q, Len(got)) /\ last \in {End, Null}
  <2>1. Len(q) \in Nat /\ Len(q) <= N /\ N \in Nat
    BY AtFacts, ChainFits, ItemsFinite, ZenonT(30) DEF ListOK
  <2>2. Len(got) \in 0..Len(q) /\ tail = At(q, Len(got))
    BY <2>1, SMT, SMTT(30) DEF ListOK, Chain, TypeOK
  <2>3. last \in {End, Null}
    BY ZenonT(30) DEF ListOK, Ends
  <2> HIDE DEF N
  <2> QED BY <2>1, <2>2, <2>3, SMT, SMTT(30)
<1> HIDE DEF N, m, last
<1>2. \A i \in 1..Len(q) : At(q, i) = q[i]
  BY <1>1, SMT, SMTT(30) DEF At
<1>3. \A k \in 0..N : f[k] = IF k = 0 THEN tail ELSE Succ[f[k - 1]]
  <2> SUFFICES ASSUME NEW k \in 0..N
               PROVE  f[k] = IF k = 0 THEN tail ELSE Succ[f[k - 1]]
    BY ZenonT(30)
  <2>1. CASE k = 0
    BY <1>1, <2>1, SMT, SMTT(30)
  <2>2. CASE k # 0 /\ k <= m
    <3>1. k - 1 \in 0..N /\ k - 1 <= m /\ Len(got) + (k - 1) \in 0..(Len(q) - 1)
      BY <1>1, <2>2, SMT, SMTT(30) DEF m
    <3>2. f[k] = At(q, Len(got) + k) /\ f[k - 1] = At(q, Len(got) + (k - 1))
      BY <2>2, <3>1, ZenonT(30)
    <3>3. Succ[f[k - 1]] = q[Len(got) + (k - 1) + 1]
      BY <3>1, <3>2, SuccFacts, ZenonT(30)
    <3>4. Len(got) + (k - 1) + 1 = Len(got) + k /\ Len(got) + k \in 1..Len(q)
      BY <1>1, <2>2, SMT, SMTT(30) DEF m
    <3> QED BY <1>2, <2>2, <3>2, <3>3, <3>4, ZenonT(30)
  <2>3. CASE k = m + 1
    <3>1. k - 1 \in 0..N /\ k - 1 <= m /\ Len(got) + (k - 1) = Len(q) /\ ~(k <= m) /\ k # 0
      BY <1>1, <2>3, SMT, SMTT(30) DEF m
    <3>2. f[k] = last /\ f[k - 1] = At(q, Len(q))
      BY <2>3, <3>1, ZenonT(30)
    <3> QED BY <3>1, <3>2, SuccFacts, ZenonT(30) DEF last
  <2>4. CASE k > m + 1
    <3>1. k - 1 \in 0..N /\ ~(k - 1 <= m) /\ ~(k <= m) /\ k # m + 1 /\ k # 0
      BY <1>1, <2>4, SMT, SMTT(30)
    <3>2. f[k] = Null /\ f[k - 1] \in {End, Null}
      BY <1>1, <3>1, ZenonT(30)
    <3> QED BY <3>1, <3>2, SuccFacts, ZenonT(30)
  <2> QED BY <1>1, <2>1, <2>2, <2>3, <2>4, SMT, SMTT(30)
<1>4. f = [k \in 0..N |-> IF k = 0 THEN tail ELSE Succ[f[k - 1]]]
  BY <1>3, ZenonT(30)
<1>5. Behind = [k \in 0..N |-> IF k = 0 THEN tail ELSE Succ[Behind[k - 1]]]
  BY <1>4, ZenonT(30) DEF Behind, N
<1>6. \A k \in 0..N : Behind[k] = f[k]
  <2> DEFINE T == {k \in 0..N : Behind[k] # f[k]}
  <2> SUFFICES ASSUME T # {}
               PROVE  FALSE
    BY ZenonT(30)
  <2>1. PICK k \in T : \A j \in T : k <= j
    <3>1. T \in SUBSET Nat
      BY <1>1, SMT, SMTT(30)
    <3> HIDE DEF T
    <3> QED BY <3>1, NatMin, ZenonT(30)
  <2>2. k \in 0..N /\ Behind[k] # f[k]
    BY <2>1, ZenonT(30)
  <2>3. Behind[k] = IF k = 0 THEN tail ELSE Succ[Behind[k - 1]]
    BY <1>5, <2>2, ZenonT(30)
  <2>4. f[k] = IF k = 0 THEN tail ELSE Succ[f[k - 1]]
    BY <1>3, <2>2, ZenonT(30)
  <2>5. k # 0
    BY <2>2, <2>3, <2>4, ZenonT(30)
  <2>6. k - 1 \in 0..N /\ k - 1 \notin T
    BY <1>1, <2>1, <2>2, <2>5, SMT, SMTT(30)
  <2>7. Behind[k - 1] = f[k - 1]
    BY <2>6, ZenonT(30)
  <2> QED BY <2>2, <2>3, <2>4, <2>5, <2>7, ZenonT(30)
<1>7. \A k \in 0..N : IF k <= m THEN f[k] = At(q, Len(got) + k) ELSE f[k] \in {End, Null}
  BY <1>1, ZenonT(30)
<1> QED BY <1>6, <1>7, ZenonT(30) DEF m, N

(* So the queue is what is left of q after the items consumed.             *)
LEMMA QueueIs ==
  ASSUME AccumulatorAssumption, TypeOK, NEW q, ListOK(q)
  PROVE  Length = Len(q) - Len(got) /\ QueueItems = [k \in 1..(Len(q) - Len(got)) |-> q[Len(got) + k]]
<1>1. /\ Len(q) \in Nat /\ Len(got) \in 0..Len(q) /\ Len(q) <= Cardinality(Items)
      /\ \A i \in 1..Len(q) : At(q, i) = q[i] /\ q[i] \in Items
      /\ Cardinality(Items) \in Nat
  <2>1. q \in Seq(Items) /\ got \in Seq(Items) /\ Len(got) <= Len(q)
    BY ZenonT(30) DEF ListOK, Chain, TypeOK
  <2>2. Len(q) \in Nat /\ Len(got) \in 0..Len(q) /\ \A i \in 1..Len(q) : q[i] \in Items
    BY <2>1, SMT, SMTT(30)
  <2>3. Len(q) <= Cardinality(Items) /\ Cardinality(Items) \in Nat
    BY ChainFits, ItemsFinite, ZenonT(30) DEF ListOK
  <2>4. \A i \in 1..Len(q) : At(q, i) = q[i]
    BY AtFacts, ZenonT(30) DEF ListOK
  <2> QED BY <2>2, <2>3, <2>4, ZenonT(30)
<1>2. ASSUME NEW k \in 1..(Len(q) - Len(got))
      PROVE  k \in 1..Cardinality(Items) /\ Behind[k] = q[Len(got) + k] /\ Behind[k] \in Items
  <2>1. /\ k \in 1..Cardinality(Items) /\ k \in 0..Cardinality(Items) /\ k <= Len(q) - Len(got)
        /\ Len(got) + k \in 1..Len(q)
    BY <1>1, SMT, SMTT(30)
  <2>2. Behind[k] = At(q, Len(got) + k)
    BY <2>1, BehindFacts, ZenonT(30)
  <2> QED BY <1>1, <2>1, <2>2, ZenonT(30)
<1>3. ASSUME NEW k \in 1..Cardinality(Items), Behind[k] \in Items
      PROVE  k \in 1..(Len(q) - Len(got))
  <2>1. k \in 0..Cardinality(Items)
    BY <1>1, SMT, SMTT(30)
  <2>2. k <= Len(q) - Len(got)
    BY <1>3, <2>1, BehindFacts, Names, ZenonT(30)
  <2> QED BY <1>1, <2>2, SMT, SMTT(30)
<1>4. {k \in 1..Cardinality(Items) : Behind[k] \in Items} = 1..(Len(q) - Len(got))
  BY <1>2, <1>3, ZenonT(30)
<1>5. Length = Len(q) - Len(got)
  <2>1. Len(q) - Len(got) \in Nat
    BY <1>1, SMT, SMTT(30)
  <2> QED BY <1>4, <2>1, IntervalSize, ZenonT(30) DEF Length
<1>6. QueueItems = [k \in 1..(Len(q) - Len(got)) |-> q[Len(got) + k]]
  BY <1>2, <1>5, ZenonT(30) DEF QueueItems
<1> QED BY <1>5, <1>6, ZenonT(30)

(* Recv reports the end of the stream only when nothing is left and        *)
(* nothing can follow, also when Close overtakes a producer that has       *)
(* claimed its node and not linked it (Recv and Close of accumulator.go).  *)
THEOREM StreamEnds ==
  ASSUME AccumulatorAssumption
  PROVE  Spec => []EndIsFinal
<1>1. ListInv => EndIsFinal
  <2> SUFFICES ASSUME ListInv, pc[Consumer] = "cEnd"
               PROVE  head = Null /\ Length = 0
    BY ZenonT(30) DEF EndIsFinal
  <2>1. PICK q \in Seq(Items) : ListOK(q)
    BY ZenonT(30) DEF ListInv
  <2>2. head = Null /\ Len(got) = Len(q) /\ Len(q) \in Nat
    BY <2>1, SMT, SMTT(30) DEF ListOK, Ends, Sealed, Swapped
  <2> QED BY <2>1, <2>2, QueueIs, SMT, SMTT(30) DEF ListInv
<1> QED BY <1>1, ListCorrect, PTL

(* What the consumer got and the queue make up q.                          *)
LEMMA WholeList ==
  ASSUME AccumulatorAssumption, TypeOK, NEW q, ListOK(q)
  PROVE  got \o QueueItems = q
<1>1. /\ q \in Seq(Items) /\ Len(q) \in Nat /\ Len(got) \in 0..Len(q) /\ got \in Seq(Items)
      /\ \A i \in 1..Len(got) : got[i] = q[i]
  BY SMT, SMTT(30) DEF ListOK, Chain, TypeOK
<1>2. QueueItems = [k \in 1..(Len(q) - Len(got)) |-> q[Len(got) + k]]
  BY QueueIs, ZenonT(30)
<1>3. QueueItems \in Seq(Items) /\ Len(QueueItems) = Len(q) - Len(got)
  <2>1. Len(q) - Len(got) \in Nat
    BY <1>1, SMT, SMTT(30)
  <2>2. \A k \in 1..(Len(q) - Len(got)) : q[Len(got) + k] \in Items
    BY <1>1, SMT, SMTT(30)
  <2> QED BY <1>2, <2>1, <2>2, SMT, SMTT(30)
<1>4. got \o QueueItems \in Seq(Items) /\ Len(got \o QueueItems) = Len(q)
  BY <1>1, <1>3, SMT, SMTT(30)
<1>5. ASSUME NEW i \in 1..Len(q)
      PROVE  (got \o QueueItems)[i] = q[i]
  <2>1. CASE i <= Len(got)
    BY <1>1, <1>3, <2>1, SMT, SMTT(30)
  <2>2. CASE i > Len(got)
    <3>1. i - Len(got) \in 1..(Len(q) - Len(got)) /\ Len(got) + (i - Len(got)) = i
      BY <1>1, <2>2, SMT, SMTT(30)
    <3>2. (got \o QueueItems)[i] = QueueItems[i - Len(got)]
      BY <1>1, <1>3, <2>2, SMT, SMTT(30)
    <3> QED BY <1>2, <3>1, <3>2, ZenonT(30)
  <2>3. i <= Len(got) \/ i > Len(got)
    BY <1>1, SMT, SMTT(30)
  <2> QED BY <2>1, <2>2, <2>3, ZenonT(30)
<1> DEFINE r == got \o QueueItems
<1>6. r \in Seq(Items) /\ Len(r) = Len(q) /\ \A i \in 1..Len(q) : r[i] = q[i]
  BY <1>4, <1>5, ZenonT(30)
<1> HIDE DEF r
<1>7. r = [i \in 1..Len(r) |-> r[i]] /\ q = [i \in 1..Len(q) |-> q[i]]
  BY <1>1, <1>6, SMT, SMTT(30)
<1>8. r = q
  BY <1>6, <1>7, ZenonT(30)
<1> QED BY <1>8, ZenonT(30) DEF r

(* Send returns true exactly when it handed its item over, once, so that a *)
(* caller that gets false still owns the message (Send of accumulator.go). *)
THEOREM SendOwnership ==
  ASSUME AccumulatorAssumption
  PROVE  Spec => []OwnershipExact
<1>1. ListInv => OwnershipExact
  <2> SUFFICES ASSUME ListInv
               PROVE  OwnershipExact
    BY ZenonT(30)
  <2>1. PICK q \in Seq(Items) : ListOK(q)
    BY ZenonT(30) DEF ListInv
  <2>2. got \o QueueItems = q
    BY <2>1, WholeList, ZenonT(30) DEF ListInv
  <2>3. ASSUME NEW s \in Producers, NEW k \in 1..Len(outcome[s])
        PROVE  outcome[s][k] <=> \E i \in DOMAIN q : q[i] = <<s, k>>
    <3>1. Len(outcome[s]) \in Nat /\ sending[s] = Len(outcome[s]) + 1 /\ sending[s] <= NumItems + 1
      BY SMT, SMTT(30) DEF ListInv, TypeOK, SenderOK
    <3>2. k \in 1..NumItems /\ k # sending[s]
      BY <3>1, Names, SMT, SMTT(30)
    <3>3. Accepted(s, k) <=> outcome[s][k]
      BY <3>2, ZenonT(30) DEF Accepted
    <3>4. Accepted(s, k) <=> \E i \in 1..Len(q) : q[i] = <<s, k>>
      BY <2>1, <3>2, ZenonT(30) DEF ListOK, Sent
    <3>5. DOMAIN q = 1..Len(q)
      BY SMT, SMTT(30)
    <3> QED BY <3>3, <3>4, <3>5, ZenonT(30)
  <2> QED BY <2>2, <2>3, ZenonT(30) DEF OwnershipExact
<1> QED BY <1>1, ListCorrect, PTL

(* The accumulator starts as the empty Fifo.                               *)
LEMMA FifoStart ==
  ASSUME AccumulatorAssumption, Init
  PROVE  Queue!FifoInit
<1>1. ListInv
  BY InitInv, ZenonT(30)
<1>2. PICK q \in Seq(Items) : ListOK(q)
  BY <1>1, ZenonT(30) DEF ListInv
<1>3. head = Root /\ got = <<>> /\ \A s \in Producers : outcome[s] = <<>> /\ pc[s] = "sLoad"
  BY Names, ZenonT(30) DEF Init
<1>4. Len(q) = 0
  <2> SUFFICES ASSUME Len(q) # 0
               PROVE  FALSE
    BY ZenonT(30)
  <2>1. 1 \in 1..Len(q) /\ q[1] \in Items
    BY <1>2, SMT, SMTT(30)
  <2>2. PICK s \in Producers, k \in 1..NumItems : q[1] = <<s, k>>
    BY <2>1, SMT, SMTT(30) DEF Items
  <2>3. Accepted(s, k)
    BY <1>2, <2>1, <2>2, ZenonT(30) DEF ListOK, Sent
  <2> QED BY <1>3, <2>3, SMT, SMTT(30) DEF Accepted
<1>5. QueueItems = <<>>
  <2>1. QueueItems = [k \in 1..(0 - 0) |-> q[0 + k]]
    BY <1>1, <1>2, <1>3, <1>4, QueueIs, SMT, SMTT(30) DEF ListInv
  <2> QED BY <2>1, SMT, SMTT(30)
<1> QED BY <1>3, <1>5, Names, ZenonT(30) DEF Queue!FifoInit

(* QueueIs for the state after a step.                                     *)
LEMMA QueueNext ==
  ASSUME AccumulatorAssumption, TypeOK', NEW q, ListOK(q)'
  PROVE  (QueueItems = [k \in 1..(Len(q) - Len(got)) |-> q[Len(got) + k]])'
  BY QueueIs, PTL

(* A step that keeps q, what was consumed and whether the head is nil is   *)
(* invisible.                                                              *)
LEMMA Stays ==
  ASSUME AccumulatorAssumption, TypeOK, TypeOK', NEW q, ListOK(q), ListOK(q)', got' = got,
         (head' = Null) <=> (head = Null)
  PROVE  UNCHANGED Queue!fifoVars
<1>1. QueueItems = [k \in 1..(Len(q) - Len(got)) |-> q[Len(got) + k]]
  BY QueueIs, ZenonT(30)
<1>2. (QueueItems = [k \in 1..(Len(q) - Len(got)) |-> q[Len(got) + k]])'
  BY QueueNext, ZenonT(30)
<1> QED BY <1>1, <1>2, ZenonT(30) DEF Queue!fifoVars

(* The compare-and-swap that succeeds accepts the item at the end of the   *)
(* queue, before Close.                                                    *)
LEMMA AcceptStep ==
  ASSUME AccumulatorAssumption, ListInv, ListInv', NEW s \in Producers, SendCas(s), head = cur[s]
  PROVE  Queue!Accept(Item(s)) /\ Item(s) \in Items
<1>1. TypeOK /\ TypeOK' /\ SenderOK(s) /\ pc[s] = "sCas" /\ head' = Item(s) /\ got' = got
  BY ZenonT(30) DEF ListInv, SendCas, Goto, log
<1>2. Item(s) \in Items /\ head # Null
  BY <1>1, Names, SMT, SMTT(30) DEF TypeOK, SenderOK, Item, Items
<1>3. PICK q \in Seq(Items) : ListOK(q)
  BY ZenonT(30) DEF ListInv
<1>4. PICK r \in Seq(Items) : r = Append(q, Item(s)) /\ ListOK(r)'
  BY <1>1, <1>3, SendCasList, ZenonT(30)
<1>5. QueueItems = [k \in 1..(Len(q) - Len(got)) |-> q[Len(got) + k]]
  BY <1>1, <1>3, QueueIs, ZenonT(30)
<1>6. (QueueItems = [k \in 1..(Len(r) - Len(got)) |-> r[Len(got) + k]])'
  <2>1. TypeOK' /\ ListOK(r)'
    BY <1>1, <1>4, ZenonT(30)
  <2> QED BY <2>1, QueueNext, ZenonT(30)
<1>7. Len(q) \in Nat /\ Len(got) \in 0..Len(q) /\ Len(q) - Len(got) \in Nat
  BY <1>1, <1>3, SMT, SMTT(30) DEF ListOK, Chain, TypeOK
<1>8. /\ Len(r) - Len(got) = Len(q) - Len(got) + 1 /\ r[Len(q) + 1] = Item(s)
      /\ \A k \in 1..Len(q) : r[k] = q[k]
  BY <1>2, <1>4, <1>7, SMT, SMTT(30)
<1>9. QueueItems' = Append(QueueItems, Item(s))
  <2> DEFINE m == Len(q) - Len(got)
  <2>1. QueueItems \in Seq(Items) /\ Len(QueueItems) = m
    <3>1. \A k \in 1..m : q[Len(got) + k] \in Items
      BY <1>7, SMT, SMTT(30)
    <3> QED BY <1>5, <1>7, <3>1, SMT, SMTT(30)
  <2>2. QueueItems' = [k \in 1..(m + 1) |-> r[Len(got) + k]]
    BY <1>1, <1>6, <1>8, ZenonT(30)
  <2>3. Append(QueueItems, Item(s)) = [k \in 1..(m + 1) |-> IF k = m + 1 THEN Item(s) ELSE QueueItems[k]]
    <3> DEFINE a == Append(QueueItems, Item(s))
    <3>1. a \in Seq(Items) /\ Len(a) = m + 1 /\ \A k \in 1..(m + 1) : a[k] = IF k = m + 1 THEN Item(s) ELSE QueueItems[k]
      BY <1>2, <1>7, <2>1, SMT, SMTT(30)
    <3> HIDE DEF a
    <3>2. a = [k \in 1..Len(a) |-> a[k]]
      BY <3>1, SMT, SMTT(30)
    <3> QED BY <3>1, <3>2, ZenonT(30) DEF a
  <2>4. \A k \in 1..(m + 1) : r[Len(got) + k] = IF k = m + 1 THEN Item(s) ELSE QueueItems[k]
    <3> SUFFICES ASSUME NEW k \in 1..(m + 1)
                 PROVE  r[Len(got) + k] = IF k = m + 1 THEN Item(s) ELSE QueueItems[k]
      BY ZenonT(30)
    <3>1. CASE k = m + 1
      BY <1>7, <1>8, <3>1, SMT, SMTT(30)
    <3>2. CASE k # m + 1
      <4>1. k \in 1..m /\ Len(got) + k \in 1..Len(q)
        BY <1>7, <3>2, SMT, SMTT(30)
      <4> QED BY <1>5, <1>8, <3>2, <4>1, ZenonT(30)
    <3> QED BY <3>1, <3>2, ZenonT(30)
  <2> QED BY <2>2, <2>3, <2>4, ZenonT(30)
<1> QED BY <1>1, <1>2, <1>9, Names, ZenonT(30) DEF Queue!Accept

(* Moving the tail takes the first item of the queue.                      *)
LEMMA TakeStep ==
  ASSUME AccumulatorAssumption, ListInv, ListInv', next[tail] \in Items, Advance(next[tail]),
         NEW q \in Seq(Items), ListOK(q), ListOK(q)'
  PROVE  Queue!Take(Consumer)
<1>1. TypeOK /\ TypeOK' /\ got' = Append(got, next[tail]) /\ head' = head
  BY ZenonT(30) DEF ListInv, Advance
<1>2. Len(got) < Len(q) /\ next[tail] = q[Len(got) + 1] /\ Len(got) \in Nat /\ Len(q) \in Nat
  <2>1. got \in Seq(Items)
    BY <1>1, ZenonT(30) DEF TypeOK
  <2> QED BY <1>1, <2>1, NextNode, SMT, SMTT(30)
<1>3. QueueItems = [k \in 1..(Len(q) - Len(got)) |-> q[Len(got) + k]]
  BY <1>1, QueueIs, ZenonT(30)
<1>4. (QueueItems = [k \in 1..(Len(q) - Len(got)) |-> q[Len(got) + k]])'
  BY <1>1, QueueNext, ZenonT(30)
<1>5. Len(got') = Len(got) + 1
  <2>1. got \in Seq(Items)
    BY <1>1, ZenonT(30) DEF TypeOK
  <2> QED BY <1>1, <2>1, SMT, SMTT(30)
<1> DEFINE m == Len(q) - Len(got)
<1>6. m \in Nat /\ m > 0 /\ Len(q) - Len(got') = m - 1
  BY <1>2, <1>5, SMT, SMTT(30)
<1>7. QueueItems \in Seq(Items) /\ Len(QueueItems) = m /\ QueueItems[1] = q[Len(got) + 1]
  <2>1. \A k \in 1..m : q[Len(got) + k] \in Items
    BY <1>2, SMT, SMTT(30)
  <2> QED BY <1>3, <1>6, <2>1, SMT, SMTT(30)
<1> HIDE DEF m
<1>8. QueueItems # <<>> /\ Head(QueueItems) = next[tail]
  BY <1>2, <1>6, <1>7, SMT, SMTT(30)
<1>9. Tail(QueueItems) = [k \in 1..(m - 1) |-> QueueItems[k + 1]]
  <2> DEFINE a == Tail(QueueItems)
  <2>1. a \in Seq(Items) /\ Len(a) = m - 1 /\ \A k \in 1..(m - 1) : a[k] = QueueItems[k + 1]
    BY <1>6, <1>7, <1>8, SMT, SMTT(30)
  <2> HIDE DEF a
  <2>2. a = [k \in 1..Len(a) |-> a[k]]
    BY <2>1, SMT, SMTT(30)
  <2> QED BY <2>1, <2>2, ZenonT(30) DEF a
<1>10. QueueItems' = [k \in 1..(m - 1) |-> q[Len(got) + 1 + k]]
  BY <1>4, <1>5, <1>6, ZenonT(30)
<1>11. \A k \in 1..(m - 1) : QueueItems[k + 1] = q[Len(got) + 1 + k]
  <2> SUFFICES ASSUME NEW k \in 1..(m - 1)
               PROVE  QueueItems[k + 1] = q[Len(got) + 1 + k]
    BY ZenonT(30)
  <2>1. k + 1 \in 1..(Len(q) - Len(got)) /\ Len(got) + (k + 1) = Len(got) + 1 + k
    BY <1>2, <1>6, SMT, SMTT(30) DEF m
  <2> QED BY <1>3, <2>1, ZenonT(30)
<1>12. QueueItems' = Tail(QueueItems)
  BY <1>9, <1>10, <1>11, ZenonT(30)
<1>13. [r \in {Consumer} |-> got'] = [[r \in {Consumer} |-> got] EXCEPT ![Consumer] = Append(@, Head(QueueItems))]
  BY <1>1, <1>8, ZenonT(30)
<1> QED BY <1>1, <1>8, <1>12, <1>13, ZenonT(30) DEF Queue!Take

(* Every step of the accumulator is a step of Fifo or a stutter.           *)
LEMMA FifoStep ==
  ASSUME AccumulatorAssumption, ListInv, ListInv', Next
  PROVE  Queue!FifoNext \/ UNCHANGED Queue!fifoVars
<1>1. TypeOK /\ TypeOK'
  BY ZenonT(30) DEF ListInv
<1>2. PICK q \in Seq(Items) : ListOK(q)
  BY ZenonT(30) DEF ListInv
<1>3. ASSUME NEW s \in Producers, Send(s)
      PROVE  Queue!FifoNext \/ UNCHANGED Queue!fifoVars
  <2>1. CASE SendCas(s) /\ head = cur[s]
    BY <1>3, <2>1, AcceptStep, ZenonT(30) DEF Queue!FifoNext
  <2>2. CASE ~(SendCas(s) /\ head = cur[s])
    <3>1. ListOK(q)'
      BY <1>2, <1>3, <2>2, ReturnsInv, SendMovesInv, ZenonT(30) DEF Send
    <3>2. got' = got /\ head' = head
      BY <1>3, <2>2, ZenonT(30) DEF Send, SendLoad, SendCas, SendLink, SendSignal, Return, list, log
    <3> QED BY <1>1, <1>2, <3>1, <3>2, Stays, ZenonT(30)
  <2> QED BY <2>1, <2>2, ZenonT(30)
<1>4. CASE Close
  <2>1. ListOK(q)'
    BY <1>1, <1>2, <1>4, CloseList, ZenonT(30)
  <2>2. got' = got /\ (head' = head \/ head' = Null)
    BY <1>4, ZenonT(30) DEF Close, CloseFlag, CloseSwap, CloseLink, CloseDone, list, log
  <2>3. CASE (head' = Null) <=> (head = Null)
    BY <1>1, <1>2, <2>1, <2>2, <2>3, Stays, ZenonT(30)
  <2>4. CASE head' = Null /\ head # Null
    <3>1. QueueItems = [k \in 1..(Len(q) - Len(got)) |-> q[Len(got) + k]]
      BY <1>1, <1>2, QueueIs, ZenonT(30)
    <3>2. (QueueItems = [k \in 1..(Len(q) - Len(got)) |-> q[Len(got) + k]])'
      BY <1>1, <2>1, QueueNext, ZenonT(30)
    <3>3. QueueItems' = QueueItems
      BY <2>2, <3>1, <3>2, ZenonT(30)
    <3> QED BY <2>2, <2>4, <3>3, ZenonT(30) DEF Queue!Shut, Queue!FifoNext
  <2> QED BY <2>2, <2>3, <2>4, ZenonT(30)
<1>5. CASE Recv \/ TryRecv \/ Cancel
  <2>1. ListOK(q)'
    BY <1>1, <1>2, <1>5, RecvList, ZenonT(30)
  <2>2. head' = head /\ (got' = got \/ (next[tail] \in Items /\ Advance(next[tail])))
    BY <1>5, ZenonT(30) DEF Recv, RecvCall, RecvLoad, RecvPark, TryRecv, Cancel, list, log, Advance
  <2>3. CASE got' = got
    BY <1>1, <1>2, <2>1, <2>2, <2>3, Stays, ZenonT(30)
  <2>4. CASE next[tail] \in Items /\ Advance(next[tail])
    BY <1>2, <2>1, <2>4, TakeStep, ZenonT(30) DEF Queue!FifoNext
  <2> QED BY <2>2, <2>3, <2>4, ZenonT(30)
<1> QED BY <1>3, <1>4, <1>5, ZenonT(30) DEF Next

(* A step that changes nothing is a stutter.                               *)
LEMMA FifoStutter ==
  ASSUME AccumulatorAssumption, ListInv, ListInv', UNCHANGED vars
  PROVE  UNCHANGED Queue!fifoVars
<1>1. UNCHANGED <<head, tail, next, closing, oldHead, pc, cur, sending, outcome, got>>
  BY ZenonT(30) DEF vars
<1>2. PICK q \in Seq(Items) : ListOK(q)
  BY ZenonT(30) DEF ListInv
<1>3. \A s \in Producers, k \in 1..NumItems : Accepted(s, k)' <=> Accepted(s, k)
  BY <1>1, ZenonT(30) DEF Accepted
<1>4. ListOK(q)'
  BY <1>1, <1>2, <1>3, SameList, ZenonT(30)
<1> QED BY <1>1, <1>2, <1>4, Stays, ZenonT(30) DEF ListInv

(* The accumulator implements the first-in first-out queue of Fifo (Send,  *)
(* Recv, TryRecv and Close of accumulator.go).                             *)
THEOREM AccumulatorLinearizable ==
  ASSUME AccumulatorAssumption
  PROVE  Spec => Linearizable
<1>1. Init => Queue!FifoInit
  BY FifoStart, ZenonT(30)
<1>2. ListInv /\ ListInv' /\ [Next]_vars => [Queue!FifoNext]_(Queue!fifoVars)
  BY FifoStep, FifoStutter, ZenonT(30)
<1> QED BY <1>1, <1>2, ListCorrect, PTL DEF Spec, Linearizable, Queue!FifoSpec

=============================================================================
