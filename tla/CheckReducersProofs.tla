------------------------ MODULE CheckReducersProofs ------------------------
(***************************************************************************)
(* Check answers what the rewrite says, for every finite tree of unions,   *)
(* intersections and exclusions and every outcome of its leaves.           *)
(*                                                                         *)
(* The argument goes up the tree.  A reducer whose context is not done     *)
(* gets the outcome of every handler that returns, counts each once, and   *)
(* remembers of those that have not decided exactly what it needs when all *)
(* are in (Heard).  So what it returns is decided by what its operands     *)
(* have returned, and theirs by their own operands.  Nothing is claimed of *)
(* a node whose context is done: its handler may have given up sending, a  *)
(* closed channel may have been counted as an outcome; but then a reducer  *)
(* above it has left, or the request is over, and the root, which has      *)
(* none above, waits for none of them.                                     *)
(*                                                                         *)
(* The values of the nodes are a recursive function; that its equations    *)
(* have a solution is shown first, by the height of a node (ValueSolved).  *)
(***************************************************************************)
EXTENDS CheckReducers, FiniteSetTheorems, WellFoundedInduction, TLAPS

Responses == [err : BOOLEAN, allowed : BOOLEAN, cycle : BOOLEAN]

(* The state's types.                                                      *)
TypeOK ==
  /\ tree \in Trees /\ cancelled \in BOOLEAN
  /\ pc \in [Reducers -> {"idle", "start", "loop", "leaving", "done"}]
  /\ next \in [Reducers -> Nat] /\ got \in [Reducers -> Nat]
  /\ handler \in [Nodes -> {"none", "running", "sent", "dropped"}]
  /\ resp \in [Nodes -> Responses \cup {None}]
  /\ out \in [Reducers -> Seq(Nodes)] /\ gone \subseteq Nodes
  /\ seen \in [Reducers -> [err : BOOLEAN, cycle : BOOLEAN]]

(* The reducer has returned, or only waits for its handlers.               *)
Left(n) == pc[n] \in {"leaving", "done"}

-----------------------------------------------------------------------------
(* What the assumption says of the tree.                                   *)
LEMMA TreeFacts ==
  ASSUME ReducersAssumption, tree \in Trees
  PROVE  /\ Version \in {1, 2} /\ IsFiniteSet(Reducers) /\ Reducers \cap Leaves = {}
         /\ tree.root \in Reducers /\ tree.above[tree.root] = {}
         /\ \A n \in Nodes : tree.above[n] \subseteq Reducers
         /\ \A n \in Reducers : n \notin tree.above[n] /\ Kind(n) \in {"union", "intersection", "exclusion"}
<1>1. TreeOK(tree)
  BY ZenonT(30) DEF ReducersAssumption
<1> QED BY <1>1, ZenonT(30) DEF TreeOK, Version, Reducers, Leaves, Nodes, Kind

(* The operands of a reducer.                                              *)
LEMMA KidFacts ==
  ASSUME ReducersAssumption, tree \in Trees, NEW n \in Reducers
  PROVE  /\ Operands(n) \in Seq(Nodes) /\ Len(Operands(n)) \in Nat \ {0}
         /\ DOMAIN Operands(n) = 1..Len(Operands(n))
         /\ Kind(n) = "exclusion" => Len(Operands(n)) <= 2
         /\ IsInjective(Operands(n))
         /\ Kids(n) \subseteq Nodes
         /\ \A i \in 1..Len(Operands(n)) : Operands(n)[i] \in Kids(n)
         /\ \A c \in Kids(n) : \E i \in 1..Len(Operands(n)) : c = Operands(n)[i]
         /\ \A c \in Kids(n) : tree.above[c] = tree.above[n] \cup {n}
         /\ \A m \in Reducers : Kids(n) \cap Kids(m) # {} => n = m
<1>1. TreeOK(tree)
  BY ZenonT(30) DEF ReducersAssumption
<1>2. /\ Operands(n) \in Seq(Nodes) /\ Len(Operands(n)) > 0 /\ IsInjective(Operands(n))
      /\ Kind(n) = "exclusion" => Len(Operands(n)) <= 2
      /\ \A i \in DOMAIN Operands(n) : tree.above[Operands(n)[i]] = tree.above[n] \cup {n}
      /\ \A m \in Reducers : Kids(n) \cap Kids(m) # {} => n = m
  BY <1>1, ZenonT(30) DEF TreeOK, Operands, Reducers, Leaves, Nodes, Kind, Kids
<1> HIDE DEF Operands
<1>3. Len(Operands(n)) \in Nat /\ DOMAIN Operands(n) = 1..Len(Operands(n))
  BY <1>2, SMT, SMTT(30)
<1>4. Kids(n) = {Operands(n)[i] : i \in 1..Len(Operands(n))}
  BY <1>3, ZenonT(30) DEF Kids, Range
<1> QED BY <1>2, <1>3, <1>4, SMT, SMTT(30)

(* A node other than the root is the operand of one reducer.               *)
LEMMA ParentFacts ==
  ASSUME ReducersAssumption, tree \in Trees, NEW c \in Nodes, c # tree.root
  PROVE  Parent(c) \in Reducers /\ c \in Kids(Parent(c))
<1>1. \E n \in Reducers : c \in Kids(n)
  BY ZenonT(30) DEF ReducersAssumption, TreeOK, Operands, Reducers, Leaves, Nodes, Kids
<1> QED BY <1>1, ZenonT(30) DEF Parent

(* There are as many operands as the list is long.                         *)
LEMMA KidsCount ==
  ASSUME ReducersAssumption, tree \in Trees, NEW n \in Reducers
  PROVE  IsFiniteSet(Kids(n)) /\ Cardinality(Kids(n)) = Len(Operands(n))
<1> DEFINE ops == Operands(n)
<1>1. /\ Len(ops) \in Nat /\ DOMAIN ops = 1..Len(ops) /\ IsInjective(ops)
      /\ \A i \in 1..Len(ops) : ops[i] \in Kids(n)
      /\ \A c \in Kids(n) : \E i \in 1..Len(ops) : c = ops[i]
      /\ ops \in Seq(Nodes)
  BY KidFacts, ZenonT(30)
<1> HIDE DEF ops
<1>2. ops \in Bijection(1..Len(ops), Kids(n))
  <2>1. ops = [i \in 1..Len(ops) |-> ops[i]]
    BY <1>1, SMT, SMTT(30)
  <2>2. ops \in [1..Len(ops) -> Kids(n)]
    BY <1>1, <2>1, ZenonT(30)
  <2> QED BY <1>1, <2>2, ZenonT(30) DEF Bijection, Injection, Surjection, IsInjective
<1>3. ExistsBijection(1..Len(ops), Kids(n))
  BY <1>2, ZenonT(30) DEF ExistsBijection
<1>4. IsFiniteSet(Kids(n)) /\ Cardinality(Kids(n)) = Len(ops)
  BY <1>1, <1>3, FS_NatBijection, FS_CountingElements, ZenonT(30)
<1> QED BY <1>4, ZenonT(30) DEF ops

-----------------------------------------------------------------------------
(* Every set of natural numbers that is not empty has a least element.     *)
LEMMA NatMin ==
  ASSUME NEW T, T \subseteq Nat, NEW k \in T
  PROVE  \E n \in T : \A m \in T : n <= m
<1> DEFINE R == OpToRel(<, Nat)
<1>1. IsWellFoundedOn(R, Nat)
  BY NatLessThanWellFounded, ZenonT(30)
<1>2. PICK x \in T : \A y \in T : ~(<<y, x>> \in R)
  BY <1>1, WFMin, ZenonT(30)
<1>3. SUFFICES ASSUME NEW m \in T PROVE x <= m
  BY <1>2, ZenonT(30)
<1>4. ~(m < x)
  BY <1>2, ZenonT(30) DEF OpToRel
<1> QED BY <1>4, SMT, SMTT(30)

(* The height a node can have: the reducers that are not above it.         *)
Height(m) == Cardinality(Reducers) - Cardinality(tree.above[m])

(* An operand is one lower than its reducer.                               *)
LEMMA Heights ==
  ASSUME ReducersAssumption, tree \in Trees
  PROVE  /\ \A m \in Nodes : Height(m) \in 0..Cardinality(Reducers)
         /\ Cardinality(Reducers) \in Nat
         /\ \A n \in Reducers : \A c \in Kids(n) : Height(c) = Height(n) - 1
<1>1. IsFiniteSet(Reducers) /\ Cardinality(Reducers) \in Nat
  BY TreeFacts, FS_CardinalityType, ZenonT(30)
<1>2. ASSUME NEW m \in Nodes
      PROVE  /\ IsFiniteSet(tree.above[m]) /\ Cardinality(tree.above[m]) \in Nat
             /\ Height(m) \in 0..Cardinality(Reducers)
  <2>1. tree.above[m] \in SUBSET Reducers
    BY TreeFacts, ZenonT(30)
  <2>2. IsFiniteSet(tree.above[m]) /\ Cardinality(tree.above[m]) <= Cardinality(Reducers)
    BY <1>1, <2>1, FS_Subset, ZenonT(30)
  <2>3. Cardinality(tree.above[m]) \in Nat
    BY <2>2, FS_CardinalityType, ZenonT(30)
  <2> QED BY <1>1, <2>2, <2>3, SMT, SMTT(30) DEF Height
<1>3. ASSUME NEW n \in Reducers, NEW c \in Kids(n)
      PROVE  Height(c) = Height(n) - 1
  <2>1. tree.above[c] = tree.above[n] \cup {n} /\ n \notin tree.above[n] /\ n \in Nodes
    BY <1>3, KidFacts, TreeFacts, ZenonT(30) DEF Nodes
  <2>2. IsFiniteSet(tree.above[n]) /\ Cardinality(tree.above[n]) \in Nat
    BY <1>2, <2>1, ZenonT(30)
  <2>3. Cardinality(tree.above[c]) = Cardinality(tree.above[n]) + 1
    BY <2>1, <2>2, FS_AddElement, ZenonT(30)
  <2> QED BY <1>1, <2>2, <2>3, SMT, SMTT(30) DEF Height
<1> QED BY <1>1, <1>2, <1>3, ZenonT(30)

(* The value of a node depends on its operands only.                       *)
LEMMA ValueLocal ==
  ASSUME ReducersAssumption, tree \in Trees, NEW m \in Nodes, NEW f, NEW h, NEW a,
         m \in Reducers => \A c \in Kids(m) : f[c] = h[c]
  PROVE  ValueOf(m, f, a) = ValueOf(m, h, a)
<1>1. CASE m \in Leaves
  BY <1>1, ZenonT(30) DEF ValueOf
<1>2. CASE m \notin Leaves
  <2>1. m \in Reducers /\ \A c \in Kids(m) : f[c] = h[c]
    BY <1>2, ZenonT(30) DEF Nodes
  <2>2. /\ Len(Operands(m)) >= 1 => f[Operands(m)[1]] = h[Operands(m)[1]]
        /\ Len(Operands(m)) = 2 => f[Operands(m)[2]] = h[Operands(m)[2]]
        /\ Len(Operands(m)) >= 1
    BY <2>1, KidFacts, SMT, SMTT(30)
  <2>3. CASE Kind(m) = "union"
    BY <1>2, <2>1, <2>3, ZenonT(30) DEF ValueOf
  <2>4. CASE Kind(m) = "intersection"
    BY <1>2, <2>1, <2>4, ZenonT(30) DEF ValueOf
  <2>5. CASE Kind(m) \notin {"union", "intersection"}
    BY <1>2, <2>1, <2>2, <2>5, ZenonT(30) DEF ValueOf
  <2> QED BY <2>3, <2>4, <2>5, ZenonT(30)
<1> QED BY <1>1, <1>2, ZenonT(30)

(* The equations of the values have a solution: if they could be solved    *)
(* below some height only, one more evaluation would solve them above it.  *)
LEMMA ValueSolved ==
  ASSUME ReducersAssumption, tree \in Trees, NEW a
  PROVE  \E f : f = [m \in Nodes |-> ValueOf(m, f, a)]
<1> DEFINE K == Cardinality(Reducers)
           Solved(k, f) == \A m \in Nodes : Height(m) < k => f[m] = ValueOf(m, f, a)
           T == {k \in Nat : ~\E f : Solved(k, f)}
<1>1. /\ \A m \in Nodes : Height(m) \in 0..K
      /\ K \in Nat
      /\ \A n \in Reducers : \A c \in Kids(n) : Height(c) = Height(n) - 1 /\ c \in Nodes
  BY Heights, KidFacts, ZenonT(30)
<1>2. T = {}
  <2> SUFFICES ASSUME T # {} PROVE FALSE
    BY ZenonT(30)
  <2>1. PICK k \in T : \A j \in T : k <= j
    BY NatMin, ZenonT(30)
  <2>2. Solved(0, a)
    BY <1>1, SMT, SMTT(30)
  <2>3. k # 0 /\ k \in Nat
    BY <2>1, <2>2, ZenonT(30)
  <2>4. k - 1 \in Nat /\ k - 1 \notin T
    BY <2>1, <2>3, SMT, SMTT(30)
  <2>5. PICK f : Solved(k - 1, f)
    BY <2>4, ZenonT(30)
  <2> DEFINE h == [m \in Nodes |-> ValueOf(m, f, a)]
  <2>6. ASSUME NEW m \in Nodes, Height(m) < k
        PROVE  h[m] = ValueOf(m, h, a)
    <3>1. m \in Reducers => \A c \in Kids(m) : f[c] = h[c]
      <4> SUFFICES ASSUME m \in Reducers, NEW c \in Kids(m) PROVE f[c] = h[c]
        BY ZenonT(30)
      <4>1. c \in Nodes /\ Height(c) = Height(m) - 1 /\ Height(m) \in Nat
        BY <1>1, SMT, SMTT(30)
      <4>2. Height(c) < k - 1
        BY <2>3, <2>6, <4>1, SMT, SMTT(30)
      <4>3. f[c] = ValueOf(c, f, a)
        BY <2>5, <4>1, <4>2, ZenonT(30)
      <4> QED BY <4>1, <4>3, ZenonT(30)
    <3>2. h[m] = ValueOf(m, f, a)
      BY ZenonT(30)
    <3> HIDE DEF h
    <3> QED BY <3>1, <3>2, ValueLocal, SMT, SMTT(30)
  <2>7. Solved(k, h)
    BY <2>6, ZenonT(30)
  <2> HIDE DEF h
  <2> QED BY <2>1, <2>7, ZenonT(30)
<1>3. K + 1 \in Nat
  BY <1>1, SMT, SMTT(30)
<1>4. PICK f : Solved(K + 1, f)
  BY <1>2, <1>3, ZenonT(30)
<1>5. \A m \in Nodes : f[m] = ValueOf(m, f, a)
  <2> HIDE DEF K
  <2> SUFFICES ASSUME NEW m \in Nodes PROVE Height(m) < K + 1
    BY <1>4, ZenonT(30)
  <2> QED BY <1>1, SMT, SMTT(30)
<1> DEFINE h == [m \in Nodes |-> f[m]]
<1>6. ASSUME NEW m \in Nodes
      PROVE  h[m] = ValueOf(m, h, a)
  <2>1. m \in Reducers => \A c \in Kids(m) : f[c] = h[c]
    BY <1>1, ZenonT(30)
  <2>2. h[m] = ValueOf(m, f, a)
    BY <1>5, ZenonT(30)
  <2> HIDE DEF h
  <2> QED BY <2>1, <2>2, ValueLocal, ZenonT(30)
<1>7. h = [m \in Nodes |-> ValueOf(m, h, a)]
  <2>1. h = [m \in Nodes |-> h[m]]
    BY ZenonT(30)
  <2> HIDE DEF h
  <2> QED BY <1>6, <2>1, ZenonT(30)
<1> QED BY <1>7, ZenonT(30)

(* So the value of a node follows from those of its operands.              *)
LEMMA ValueFacts ==
  ASSUME ReducersAssumption, tree \in Trees, NEW a
  PROVE  /\ \A l \in Leaves : Value(l, a) = a[l]
         /\ \A n \in Reducers :
              /\ Kind(n) = "union" => Value(n, a) = \E c \in Kids(n) : Value(c, a)
              /\ Kind(n) = "intersection" => Value(n, a) = \A c \in Kids(n) : Value(c, a)
              /\ Kind(n) = "exclusion" =>
                   Value(n, a) = (Value(Operands(n)[1], a) /\ (Len(Operands(n)) = 2 => ~Value(Operands(n)[2], a)))
<1> DEFINE v == CHOOSE f : f = [m \in Nodes |-> ValueOf(m, f, a)]
<1>1. v = [m \in Nodes |-> ValueOf(m, v, a)]
  BY ValueSolved, ZenonT(30)
<1>2. \A m : Value(m, a) = v[m]
  BY ZenonT(30) DEF Value
<1> HIDE DEF v
<1>3. \A m \in Nodes : v[m] = ValueOf(m, v, a)
  BY <1>1, ZenonT(30)
<1>4. ASSUME NEW l \in Leaves
      PROVE  Value(l, a) = a[l]
  BY <1>2, <1>3, ZenonT(30) DEF ValueOf, Nodes
<1>5. ASSUME NEW n \in Reducers
      PROVE  v[n] = ValueOf(n, v, a) /\ n \notin Leaves
  BY <1>3, TreeFacts, ZenonT(30) DEF Nodes
<1>6. ASSUME NEW n \in Reducers, Kind(n) = "union"
      PROVE  Value(n, a) = \E c \in Kids(n) : Value(c, a)
  BY <1>2, <1>5, <1>6, ZenonT(30) DEF ValueOf
<1>7. ASSUME NEW n \in Reducers, Kind(n) = "intersection"
      PROVE  Value(n, a) = \A c \in Kids(n) : Value(c, a)
  BY <1>2, <1>5, <1>7, ZenonT(30) DEF ValueOf
<1>8. ASSUME NEW n \in Reducers, Kind(n) = "exclusion"
      PROVE  Value(n, a) = (Value(Operands(n)[1], a) /\ (Len(Operands(n)) = 2 => ~Value(Operands(n)[2], a)))
  <2>1. Kind(n) # "union" /\ Kind(n) # "intersection"
    BY <1>8, ZenonT(30)
  <2>2. ValueOf(n, v, a) = (v[Operands(n)[1]] /\ (Len(Operands(n)) = 2 => ~v[Operands(n)[2]]))
    BY <1>5, <2>1, ZenonT(30) DEF ValueOf
  <2> QED BY <1>2, <1>5, <2>2, ZenonT(30)
<1> QED BY <1>4, <1>6, <1>7, <1>8, ZenonT(30)

(* A union is decided by one yes, or by a no of each operand.              *)
LEMMA DecidedUnion ==
  ASSUME ReducersAssumption, tree \in Trees, NEW n \in Reducers, Kind(n) = "union"
  PROVE  /\ \A c \in Kids(n) : Decided(c, TRUE) => Decided(n, TRUE)
         /\ (\A c \in Kids(n) : Decided(c, FALSE)) => Decided(n, FALSE)
<1>1. \A a : Value(n, a) = \E c \in Kids(n) : Value(c, a)
  BY ValueFacts, ZenonT(30)
<1> QED BY <1>1, ZenonT(30) DEF Decided

(* An intersection is decided by one no, or by a yes of each operand.      *)
LEMMA DecidedIntersection ==
  ASSUME ReducersAssumption, tree \in Trees, NEW n \in Reducers, Kind(n) = "intersection"
  PROVE  /\ \A c \in Kids(n) : Decided(c, FALSE) => Decided(n, FALSE)
         /\ (\A c \in Kids(n) : Decided(c, TRUE)) => Decided(n, TRUE)
<1>1. \A a : Value(n, a) = \A c \in Kids(n) : Value(c, a)
  BY ValueFacts, ZenonT(30)
<1> QED BY <1>1, ZenonT(30) DEF Decided

(* An exclusion is decided by a no of its base, a yes of what it           *)
(* subtracts, or both the other way round.                                 *)
LEMMA DecidedExclusion ==
  ASSUME ReducersAssumption, tree \in Trees, NEW n \in Reducers, Kind(n) = "exclusion"
  PROVE  /\ Decided(Operands(n)[1], FALSE) => Decided(n, FALSE)
         /\ Len(Operands(n)) = 2 /\ Decided(Operands(n)[2], TRUE) => Decided(n, FALSE)
         /\ Decided(Operands(n)[1], TRUE) /\ (Len(Operands(n)) = 2 => Decided(Operands(n)[2], FALSE)) => Decided(n, TRUE)
<1>1. \A a : Value(n, a) = (Value(Operands(n)[1], a) /\ (Len(Operands(n)) = 2 => ~Value(Operands(n)[2], a)))
  BY ValueFacts, ZenonT(30)
<1> QED BY <1>1, ZenonT(30) DEF Decided

(* A leaf is decided when it answers.                                      *)
LEMMA DecidedLeaf ==
  ASSUME ReducersAssumption, tree \in Trees, NEW l \in Leaves
  PROVE  /\ does[l] = "yes" => Decided(l, TRUE)
         /\ does[l] = "no" => Decided(l, FALSE)
<1>1. \A a : Value(l, a) = a[l]
  BY ValueFacts, ZenonT(30)
<1>2. ASSUME NEW a \in [Leaves -> BOOLEAN]
      PROVE  a[l] \in BOOLEAN
  BY ZenonT(30)
<1> QED BY <1>1, <1>2, ZenonT(30) DEF Decided

(* The tree and the leaves never change, and so what is decided.           *)
LEMMA DecidedFrame ==
  ASSUME tree' = tree, does' = does, NEW n, NEW b
  PROVE  Decided(n, b)' <=> Decided(n, b)
<1>1. \A a : Value(n, a)' = Value(n, a)
  BY SMT, SMTT(30) DEF Value, ValueOf, Leaves, Reducers, Nodes, Kind, Kids, Operands
<1>2. Leaves' = Leaves
  BY ZenonT(30) DEF Leaves
<1> QED BY <1>1, <1>2, ZenonT(30) DEF Decided

-----------------------------------------------------------------------------
(* A reducer that has left has returned something; one that is still       *)
(* starting its handlers has received nothing.                             *)
CallsOK == \A n \in Reducers :
  /\ Left(n) => resp[n] # None
  /\ pc[n] \in {"idle", "start"} =>
       /\ next[n] < Len(Operands(n)) /\ got[n] = 0
       /\ \A i \in (next[n] + 1)..Len(Operands(n)) : handler[Operands(n)[i]] = "none"

(* A handler sends what its node returned, and gives up sending only when  *)
(* its context is done.                                                    *)
HandlersOK == \A c \in Nodes :
  /\ Finished(c) => resp[c] # None /\ (c \in Reducers => pc[c] = "done")
  /\ handler[c] = "dropped" => ContextDone(c)

(* In the channel of a reducer are operands that have been sent, each      *)
(* once; a channel found closed is empty.                                  *)
ChannelsOK == \A n \in Reducers :
  /\ \A c \in Range(out[n]) : c \in Kids(n) /\ handler[c] = "sent"
  /\ IsInjective(out[n])
  /\ \A c \in Kids(n) : c \in gone => Finished(c) /\ c \notin Range(out[n])

(* The operands whose outcomes a reducer has received.                     *)
Received(n) == {c \in Kids(n) : handler[c] = "sent" /\ c \notin Range(out[n])}

(* Unless its context is done, a reducer counts what it has received.      *)
CountOK == \A n \in Reducers :
  /\ pc[n] \in {"idle", "start"} => Received(n) = {}
  /\ pc[n] = "loop" => ContextDone(n) \/ got[n] = Cardinality(Received(n))

(* What reducer n remembers of the outcome of c, which has not decided.    *)
Heard(n, c) ==
  /\ resp[c].err => seen[n].err /\ (Version = 2 => Kind(n) = "union")
  /\ resp[c].cycle => seen[n].cycle
  /\ ~resp[c].err =>
       IF Kind(n) = "union" THEN ~resp[c].allowed
       ELSE ~resp[c].cycle /\ (resp[c].allowed <=> ~Subtracted(n, c))

HeardOK == \A n \in Reducers : pc[n] = "loop" => \A c \in Received(n) : Heard(n, c)

(* Whose context is not done has returned what is decided.                 *)
SoundOK == \A n \in Nodes : Sound(n) \/ ContextDone(n)

(* The inductive invariant.                                                *)
ReducerInv ==
  /\ TypeOK /\ CallsOK /\ HandlersOK /\ ChannelsOK /\ CountOK /\ HeardOK /\ SoundOK

(* The tree stays, and contexts that are done stay done.                   *)
Onward ==
  /\ tree' = tree /\ does' = does
  /\ cancelled => cancelled'
  /\ \A n \in Reducers : Left(n) => Left(n)'

-----------------------------------------------------------------------------
(* Everything that depends on the tree only.                               *)
LEMMA TreeFrame ==
  ASSUME tree' = tree
  PROVE  /\ Reducers' = Reducers /\ Leaves' = Leaves /\ Nodes' = Nodes /\ Version' = Version
         /\ \A n : Kind(n)' = Kind(n) /\ Operands(n)' = Operands(n) /\ Kids(n)' = Kids(n)
BY ZenonT(30) DEF Reducers, Leaves, Nodes, Version, Kind, Operands, Kids

(* A context that is done stays so.                                        *)
LEMMA ContextKept ==
  ASSUME ReducersAssumption, TypeOK, Onward, NEW n \in Nodes, ContextDone(n)
  PROVE  ContextDone(n)'
<1>1. tree.above[n] \subseteq Reducers
  BY TreeFacts, ZenonT(30) DEF TypeOK
<1> QED BY <1>1, ZenonT(30) DEF ContextDone, Onward, Left

(* The context of an operand is done when that of its reducer is, or when  *)
(* the reducer has left.                                                   *)
LEMMA KidContext ==
  ASSUME ReducersAssumption, tree \in Trees, NEW n \in Reducers, NEW c \in Kids(n)
  PROVE  ContextDone(c) <=> ContextDone(n) \/ Left(n)
<1>1. tree.above[c] = tree.above[n] \cup {n}
  BY KidFacts, ZenonT(30)
<1> QED BY <1>1, ZenonT(30) DEF ContextDone, Left

(* A node that returns nothing new stays sound.                            *)
LEMMA SoundKept ==
  ASSUME ReducersAssumption, ReducerInv, Onward, NEW n \in Nodes, resp'[n] = resp[n]
  PROVE  (Sound(n) \/ ContextDone(n))'
<1>1. CASE ContextDone(n)
  BY <1>1, ContextKept, ZenonT(30) DEF ReducerInv
<1>2. CASE Sound(n)
  <2>1. \A b : Decided(n, b)' <=> Decided(n, b)
    BY DecidedFrame, ZenonT(30) DEF Onward
  <2> QED BY <1>2, <2>1, ZenonT(30) DEF Sound
<1> QED BY <1>1, <1>2, ZenonT(30) DEF ReducerInv, SoundOK

(* A node that returns an error claims nothing.                            *)
LEMMA ErrorSound ==
  ASSUME NEW n, resp'[n] = Error
  PROVE  Sound(n)'
BY SMT, SMTT(30) DEF Sound, Error

(* The constants of the responses.                                         *)
LEMMA ResponseFacts ==
  ASSUME ReducersAssumption
  PROVE  /\ None \notin Responses
         /\ Error \in Responses /\ Allowed \in Responses
         /\ Error # None /\ Allowed # None
         /\ \A b \in BOOLEAN : Denied(b) \in Responses /\ Denied(b) # None
<1>1. Error \in Responses /\ Allowed \in Responses /\ \A b \in BOOLEAN : Denied(b) \in Responses
  BY ZenonT(30) DEF Responses, Error, Allowed, Denied
<1>2. None \notin Responses
  BY ZenonT(30) DEF ReducersAssumption, Responses
<1> QED BY <1>1, <1>2, ZenonT(30)

(* A node that runs as an operand.                                         *)
LEMMA UniqueParent ==
  ASSUME ReducersAssumption, tree \in Trees, NEW n \in Reducers, NEW m \in Reducers, NEW c \in Kids(n), c \in Kids(m)
  PROVE  n = m
BY KidFacts, ZenonT(30)

-----------------------------------------------------------------------------
(* A list without repetitions with a new element at the end.               *)
LEMMA AppendFacts ==
  ASSUME NEW S, NEW s \in Seq(S), NEW x \in S
  PROVE  /\ Append(s, x) \in Seq(S) /\ Range(Append(s, x)) = Range(s) \cup {x}
         /\ IsInjective(s) /\ x \notin Range(s) => IsInjective(Append(s, x))
<1> DEFINE t == Append(s, x)
<1>1. /\ t \in Seq(S) /\ Len(s) \in Nat /\ DOMAIN s = 1..Len(s) /\ DOMAIN t = 1..(Len(s) + 1)
      /\ \A i \in 1..Len(s) : t[i] = s[i]
      /\ t[Len(s) + 1] = x
  BY SMT, SMTT(30)
<1> HIDE DEF t
<1>2. \A i \in DOMAIN t : i \in DOMAIN s \/ i = Len(s) + 1
  BY <1>1, SMT, SMTT(30)
<1>3. \A i \in DOMAIN s : i \in DOMAIN t
  BY <1>1, SMT, SMTT(30)
<1>4. Len(s) + 1 \in DOMAIN t
  BY <1>1, SMT, SMTT(30)
<1>5. \A i \in DOMAIN s : t[i] = s[i]
  BY <1>1, ZenonT(30)
<1>6. Range(t) = Range(s) \cup {x}
  BY <1>1, <1>2, <1>3, <1>4, <1>5, ZenonT(30) DEF Range
<1>7. IsInjective(s) /\ x \notin Range(s) => IsInjective(t)
  BY <1>1, <1>2, <1>5, ZenonT(30) DEF Range, IsInjective
<1> QED BY <1>1, <1>6, <1>7, ZenonT(30) DEF t

(* The list without its i-th element.                                      *)
LEMMA RemoveFacts ==
  ASSUME NEW S, NEW s \in Seq(S), NEW i \in DOMAIN s, IsInjective(s)
  PROVE  /\ Rest(s, i) \in Seq(S) /\ Range(Rest(s, i)) = Range(s) \ {s[i]}
         /\ IsInjective(Rest(s, i))
<1> DEFINE t == Rest(s, i)
           at(j) == IF j < i THEN j ELSE j + 1
<1>1. Len(s) \in Nat /\ DOMAIN s = 1..Len(s) /\ i \in 1..Len(s)
  BY SMT, SMTT(30)
<1>2. /\ t \in Seq(S) /\ DOMAIN t = 1..(Len(s) - 1)
      /\ \A j \in 1..(Len(s) - 1) : t[j] = s[at(j)]
  <2>1. SubSeq(s, 1, i - 1) \in Seq(S) /\ Len(SubSeq(s, 1, i - 1)) = i - 1
    BY <1>1, SMT, SMTT(30)
  <2>2. SubSeq(s, i + 1, Len(s)) \in Seq(S) /\ Len(SubSeq(s, i + 1, Len(s))) = Len(s) - i
    BY <1>1, SMT, SMTT(30)
  <2>3. \A j \in 1..(i - 1) : SubSeq(s, 1, i - 1)[j] = s[j]
    BY <1>1, SMT, SMTT(30)
  <2>4. \A j \in 1..(Len(s) - i) : SubSeq(s, i + 1, Len(s))[j] = s[i + j]
    BY <1>1, SMT, SMTT(30)
  <2> DEFINE u == SubSeq(s, 1, i - 1)
             v == SubSeq(s, i + 1, Len(s))
  <2>5. t = u \o v
    BY ZenonT(30) DEF Rest
  <2> HIDE DEF t, u, v
  <2>6. u \in Seq(S) /\ Len(u) = i - 1 /\ v \in Seq(S) /\ Len(v) = Len(s) - i
    BY <2>1, <2>2, ZenonT(30) DEF u, v
  <2>7. t \in Seq(S) /\ Len(t) = Len(s) - 1 /\ DOMAIN t = 1..(Len(s) - 1)
    <3>1. t \in Seq(S) /\ Len(t) = Len(u) + Len(v) /\ DOMAIN t = 1..Len(t)
      BY <2>5, <2>6, SMT, SMTT(30)
    <3>2. Len(u) + Len(v) = Len(s) - 1
      BY <1>1, <2>6, SMT, SMTT(30)
    <3> QED BY <3>1, <3>2, ZenonT(30)
  <2>8. ASSUME NEW j \in 1..(Len(s) - 1)
        PROVE  t[j] = s[at(j)]
    <3>1. CASE j < i
      <4>1. t[j] = u[j]
        BY <1>1, <2>5, <2>6, <3>1, SMT, SMTT(30)
      <4> QED BY <1>1, <2>3, <3>1, <4>1, SMT, SMTT(30) DEF u
    <3>2. CASE ~(j < i)
      <4>1. t[j] = v[j - (i - 1)] /\ j - (i - 1) \in 1..(Len(s) - i)
        <5>1. j \in Nat /\ j > Len(u) /\ j <= Len(u) + Len(v) /\ Len(u) \in Nat /\ Len(v) \in Nat
          BY <1>1, <2>6, <3>2, SMT, SMTT(30)
        <5>2. t[j] = v[j - Len(u)]
          BY <2>5, <2>6, <5>1, SMT, SMTT(30)
        <5>3. j - (i - 1) \in 1..(Len(s) - i)
          BY <1>1, <3>2, SMT, SMTT(30)
        <5> QED BY <2>6, <5>2, <5>3, ZenonT(30)
      <4>2. v[j - (i - 1)] = s[i + (j - (i - 1))]
        BY <2>4, <4>1, ZenonT(30) DEF v
      <4>3. i + (j - (i - 1)) = j + 1
        BY <1>1, SMT, SMTT(30)
      <4> QED BY <3>2, <4>1, <4>2, <4>3, ZenonT(30)
    <3> QED BY <3>1, <3>2, ZenonT(30)
  <2> QED BY <2>7, <2>8, ZenonT(30)
<1>3. /\ \A j \in DOMAIN t : at(j) \in DOMAIN s /\ at(j) # i
      /\ \A j, k \in DOMAIN t : at(j) = at(k) => j = k
      /\ \A k \in DOMAIN s : k # i => \E j \in DOMAIN t : at(j) = k
  <2>1. ASSUME NEW k \in DOMAIN s, k # i
        PROVE  \E j \in DOMAIN t : at(j) = k
    <3>1. CASE k < i
      <4>1. k \in DOMAIN t /\ at(k) = k
        BY <1>1, <1>2, <3>1, SMT, SMTT(30)
      <4> QED BY <4>1, ZenonT(30)
    <3>2. CASE k > i
      <4>1. k - 1 \in DOMAIN t /\ at(k - 1) = k
        BY <1>1, <1>2, <3>2, SMT, SMTT(30)
      <4> QED BY <4>1, ZenonT(30)
    <3> QED BY <1>1, <2>1, <3>1, <3>2, SMT, SMTT(30)
  <2>2. \A j \in DOMAIN t : at(j) \in DOMAIN s /\ at(j) # i
    BY <1>1, <1>2, SMT, SMTT(30)
  <2>3. \A j, k \in DOMAIN t : at(j) = at(k) => j = k
    BY <1>1, <1>2, SMT, SMTT(30)
  <2> QED BY <2>1, <2>2, <2>3, ZenonT(30)
<1> HIDE DEF t, at
<1>4. \A j \in DOMAIN t : t[j] = s[at(j)]
  BY <1>2, ZenonT(30)
<1>5. Range(t) = Range(s) \ {s[i]}
  <2>1. \A y \in Range(t) : y \in Range(s) /\ y # s[i]
    <3> SUFFICES ASSUME NEW j \in DOMAIN t PROVE t[j] \in Range(s) /\ t[j] # s[i]
      BY ZenonT(30) DEF Range
    <3>1. t[j] = s[at(j)] /\ at(j) \in DOMAIN s /\ at(j) # i
      BY <1>3, <1>4, ZenonT(30)
    <3> QED BY <3>1, ZenonT(30) DEF Range, IsInjective
  <2>2. \A y \in Range(s) : y # s[i] => y \in Range(t)
    <3> SUFFICES ASSUME NEW k \in DOMAIN s, s[k] # s[i] PROVE s[k] \in Range(t)
      BY ZenonT(30) DEF Range
    <3>1. PICK j \in DOMAIN t : at(j) = k
      BY <1>3, ZenonT(30)
    <3>2. t[j] = s[k]
      BY <1>4, <3>1, ZenonT(30)
    <3> QED BY <3>2, ZenonT(30) DEF Range
  <2> QED BY <2>1, <2>2, ZenonT(30)
<1>6. IsInjective(t)
  BY <1>3, <1>4, ZenonT(30) DEF IsInjective
<1> QED BY <1>2, <1>5, <1>6, ZenonT(30) DEF t

-----------------------------------------------------------------------------
(* A handler that has its response sends it, or gives up.                  *)
LEMMA TrySendInv ==
  ASSUME ReducersAssumption, ReducerInv, NEW c \in Nodes, c # tree.root, handler[c] = "running",
         TrySend(c), UNCHANGED <<tree, does, cancelled, pc, next, gone, got, seen>>,
         resp' \in [Nodes -> Responses \cup {None}], \A m \in Nodes : m # c => resp'[m] = resp[m],
         resp'[c] # None, c \in Reducers => pc[c] = "done", (Sound(c) \/ ContextDone(c))'
  PROVE  ReducerInv'
<1> DEFINE p == Parent(c)
<1>1. tree \in Trees /\ p \in Reducers /\ c \in Kids(p)
  BY ParentFacts, ZenonT(30) DEF ReducerInv, TypeOK
<1>2. /\ Reducers' = Reducers /\ Nodes' = Nodes /\ Version' = Version
      /\ \A n : Kind(n)' = Kind(n) /\ Operands(n)' = Operands(n) /\ Kids(n)' = Kids(n)
  BY TreeFrame, ZenonT(30)
<1>3. Onward
  BY ZenonT(30) DEF Onward, Left
<1> HIDE DEF p
<1>4. /\ handler' \in [Nodes -> {"none", "running", "sent", "dropped"}]
      /\ \A x \in Nodes : x # c => handler'[x] = handler[x]
      /\ handler'[c] \in {"sent", "dropped"}
      /\ handler'[c] = "dropped" => ContextDone(c)
  BY ZenonT(30) DEF ReducerInv, TypeOK, TrySend
<1>5. /\ out' \in [Reducers -> Seq(Nodes)]
      /\ \A n \in Reducers : n # p => out'[n] = out[n]
      /\ out'[p] = IF handler'[c] = "sent" THEN Append(out[p], c) ELSE out[p]
  <2>1. out \in [Reducers -> Seq(Nodes)] /\ handler \in [Nodes -> {"none", "running", "sent", "dropped"}]
    BY ZenonT(30) DEF ReducerInv, TypeOK
  <2>2. CASE handler' = [handler EXCEPT ![c] = "sent"] /\ out' = [out EXCEPT ![p] = Append(@, c)]
    <3>1. Append(out[p], c) \in Seq(Nodes)
      BY <1>1, <2>1, AppendFacts, ZenonT(30)
    <3>2. handler'[c] = "sent"
      BY <2>1, <2>2, ZenonT(30)
    <3> QED BY <1>1, <2>1, <2>2, <3>1, <3>2, ZenonT(30)
  <2>3. CASE handler' = [handler EXCEPT ![c] = "dropped"] /\ out' = out
    <3>1. handler'[c] # "sent"
      BY <2>1, <2>3, ZenonT(30)
    <3> QED BY <2>1, <2>3, <3>1, ZenonT(30)
  <2> QED BY <2>2, <2>3, ZenonT(30) DEF TrySend, p
<1>6. /\ \A n \in Reducers : Range(out'[n]) \subseteq Range(out[n]) \cup {c}
      /\ \A n \in Reducers : Range(out[n]) \subseteq Range(out'[n])
      /\ \A n \in Reducers : n # p => Range(out'[n]) = Range(out[n])
      /\ handler'[c] = "sent" => c \in Range(out'[p])
      /\ handler'[c] # "sent" => out'[p] = out[p]
      /\ \A n \in Reducers : IsInjective(out'[n])
  <2>1. \A n \in Reducers : out[n] \in Seq(Nodes) /\ IsInjective(out[n])
    BY ZenonT(30) DEF ReducerInv, TypeOK, ChannelsOK
  <2>2. c \notin Range(out[p])
    BY <1>1, ZenonT(30) DEF ReducerInv, ChannelsOK
  <2>3. handler'[c] = "sent" => Range(out'[p]) = Range(out[p]) \cup {c} /\ IsInjective(out'[p])
    BY <1>1, <1>5, <2>1, <2>2, AppendFacts, SMT, SMTT(30)
  <2>4. handler'[c] # "sent" => out'[p] = out[p]
    BY <1>5, ZenonT(30)
  <2> QED BY <1>1, <1>5, <2>1, <2>3, <2>4, ZenonT(30)
<1>7. \A n \in Reducers : Received(n)' = Received(n) /\ c \notin Received(n)
  <2> SUFFICES ASSUME NEW n \in Reducers
               PROVE  Received(n)' = Received(n) /\ c \notin Received(n)
    BY ZenonT(30)
  <2>1. c \notin Received(n)
    BY ZenonT(30) DEF Received
  <2>2. c \notin Received(n)'
    BY <1>1, <1>2, <1>4, <1>6, UniqueParent, ZenonT(30) DEF Received
  <2>3. ASSUME NEW x \in Kids(n), x # c
        PROVE  x \in Received(n)' <=> x \in Received(n)
    <3>1. x \in Nodes /\ handler'[x] = handler[x]
      BY <1>1, <1>4, <2>3, KidFacts, ZenonT(30)
    <3>2. x \in Range(out'[n]) <=> x \in Range(out[n])
      BY <1>6, <2>3, ZenonT(30)
    <3> QED BY <1>2, <3>1, <3>2, ZenonT(30) DEF Received
  <2>4. Received(n) \subseteq Kids(n) /\ Received(n)' \subseteq Kids(n)
    BY <1>2, ZenonT(30) DEF Received
  <2>5. \A x \in Received(n)' : x \in Received(n)
    BY <2>2, <2>3, <2>4, ZenonT(30)
  <2>6. \A x \in Received(n) : x \in Received(n)'
    BY <2>1, <2>3, <2>4, ZenonT(30)
  <2> QED BY <2>1, <2>5, <2>6, ZenonT(30)
<1>8. \A n \in Nodes : ContextDone(n) => ContextDone(n)'
  BY <1>3, ContextKept, ZenonT(30) DEF ReducerInv
<1>9. TypeOK'
  BY <1>2, <1>4, <1>5, ZenonT(30) DEF ReducerInv, TypeOK
<1>10. CallsOK'
  <2> SUFFICES ASSUME NEW n \in Reducers
               PROVE  /\ Left(n)' => resp'[n] # None
                      /\ pc[n] \in {"idle", "start"} =>
                           /\ next[n] < Len(Operands(n)) /\ got[n] = 0
                           /\ \A i \in (next[n] + 1)..Len(Operands(n)) : handler'[Operands(n)[i]] = "none"
    BY <1>2, ZenonT(30) DEF CallsOK
  <2>1. Left(n)' => resp'[n] # None
    BY ZenonT(30) DEF ReducerInv, CallsOK, Left, Nodes
  <2>2. ASSUME pc[n] \in {"idle", "start"}
        PROVE  /\ next[n] < Len(Operands(n)) /\ got[n] = 0 /\ next[n] \in Nat
               /\ \A i \in (next[n] + 1)..Len(Operands(n)) : handler[Operands(n)[i]] = "none"
    BY <2>2, ZenonT(30) DEF ReducerInv, CallsOK, TypeOK
  <2>3. ASSUME pc[n] \in {"idle", "start"}, NEW i \in (next[n] + 1)..Len(Operands(n))
        PROVE  handler'[Operands(n)[i]] = "none"
    <3>1. handler[Operands(n)[i]] = "none"
      BY <2>2, <2>3, ZenonT(30)
    <3>2. Operands(n)[i] \in Nodes
      <4>1. i \in 1..Len(Operands(n))
        BY <1>1, <2>2, <2>3, KidFacts, SMT, SMTT(30)
      <4> QED BY <1>1, <4>1, KidFacts, ZenonT(30)
    <3> QED BY <1>4, <3>1, <3>2, ZenonT(30)
  <2> QED BY <2>1, <2>2, <2>3, ZenonT(30)
<1>11. HandlersOK'
  <2> SUFFICES ASSUME NEW x \in Nodes
               PROVE  /\ handler'[x] \in {"sent", "dropped"} => resp'[x] # None /\ (x \in Reducers => pc[x] = "done")
                      /\ handler'[x] = "dropped" => ContextDone(x)'
    BY <1>2, ZenonT(30) DEF HandlersOK, Finished
  <2>1. CASE x = c
    BY <1>4, <1>8, <2>1, ZenonT(30)
  <2>2. CASE x # c
    BY <1>4, <1>8, <2>2, ZenonT(30) DEF ReducerInv, HandlersOK, Finished
  <2> QED BY <2>1, <2>2, ZenonT(30)
<1>12. ChannelsOK'
  <2> SUFFICES ASSUME NEW n \in Reducers
               PROVE  /\ \A x \in Range(out'[n]) : x \in Kids(n) /\ handler'[x] = "sent"
                      /\ \A x \in Kids(n) : x \in gone => handler'[x] \in {"sent", "dropped"} /\ x \notin Range(out'[n])
    BY <1>2, <1>6, ZenonT(30) DEF ChannelsOK, Finished
  <2>1. /\ \A x \in Range(out[n]) : x \in Kids(n) /\ handler[x] = "sent"
        /\ \A x \in Kids(n) : x \in gone => handler[x] \in {"sent", "dropped"} /\ x \notin Range(out[n])
        /\ Kids(n) \subseteq Nodes
    BY <1>1, KidFacts, ZenonT(30) DEF ReducerInv, ChannelsOK, Finished
  <2>2. c \in Range(out'[n]) => n = p /\ handler'[c] = "sent"
    BY <1>4, <1>6, <2>1, ZenonT(30)
  <2>3. \A x \in Range(out'[n]) : x # c => x \in Range(out[n])
    BY <1>6, ZenonT(30)
  <2>4. c \notin gone \/ c \notin Kids(n)
    BY <2>1, ZenonT(30)
  <2> QED BY <1>1, <1>4, <2>1, <2>2, <2>3, <2>4, ZenonT(30)
<1>13. CountOK'
  BY <1>2, <1>7, <1>8, ZenonT(30) DEF ReducerInv, CountOK, Nodes
<1>14. HeardOK'
  <2> SUFFICES ASSUME NEW n \in Reducers, pc[n] = "loop", NEW x \in Received(n)
               PROVE  Heard(n, x)'
    BY <1>2, <1>7, ZenonT(30) DEF HeardOK
  <2>1. x # c /\ x \in Nodes
    BY <1>1, <1>7, KidFacts, ZenonT(30) DEF Received
  <2>2. resp'[x] = resp[x] /\ Subtracted(n, x)' = Subtracted(n, x) /\ Heard(n, x)
    BY <1>2, <2>1, ZenonT(30) DEF Subtracted, ReducerInv, HeardOK
  <2> QED BY <1>2, <2>2, ZenonT(30) DEF Heard
<1>15. SoundOK'
  BY <1>2, <1>3, SoundKept, ZenonT(30) DEF SoundOK
<1> QED BY <1>9, <1>10, <1>11, <1>12, <1>13, <1>14, <1>15, ZenonT(30) DEF ReducerInv

(* A reducer returns: what it leaves in its channel no longer matters.     *)
LEMMA LeaveInv ==
  ASSUME ReducersAssumption, ReducerInv, NEW n \in Reducers, NEW r \in Responses,
         ~Left(n), ~Finished(n), Leave(n, r),
         UNCHANGED <<tree, does, cancelled, next, handler, gone>>,
         got' \in [Reducers -> Nat], seen' \in [Reducers -> [err : BOOLEAN, cycle : BOOLEAN]],
         out' \in [Reducers -> Seq(Nodes)],
         \A m \in Reducers : m # n => out'[m] = out[m] /\ got'[m] = got[m] /\ seen'[m] = seen[m],
         Range(out'[n]) \subseteq Range(out[n]), IsInjective(out'[n]),
         (Sound(n) \/ ContextDone(n))'
  PROVE  ReducerInv'
<1>1. tree \in Trees /\ n \in Nodes /\ r # None
  BY ResponseFacts, ZenonT(30) DEF ReducerInv, TypeOK, Nodes
<1>2. /\ Reducers' = Reducers /\ Nodes' = Nodes /\ Version' = Version
      /\ \A m : Kind(m)' = Kind(m) /\ Operands(m)' = Operands(m) /\ Kids(m)' = Kids(m)
  BY TreeFrame, ZenonT(30)
<1>3. /\ pc' \in [Reducers -> {"idle", "start", "loop", "leaving", "done"}]
      /\ pc'[n] \in {"leaving", "done"}
      /\ \A m \in Reducers : m # n => pc'[m] = pc[m]
  BY ZenonT(30) DEF ReducerInv, TypeOK, Leave
<1>4. /\ resp' \in [Nodes -> Responses \cup {None}] /\ resp'[n] = r
      /\ \A x \in Nodes : x # n => resp'[x] = resp[x]
  BY <1>1, ZenonT(30) DEF ReducerInv, TypeOK, Leave
<1>5. Onward
  BY <1>3, ZenonT(30) DEF Onward, Left
<1>6. \A m \in Nodes : ContextDone(m) => ContextDone(m)'
  BY <1>5, ContextKept, ZenonT(30) DEF ReducerInv
<1>7. ASSUME NEW m \in Reducers, m # n
      PROVE  /\ Received(m)' = Received(m)
             /\ \A x \in Received(m) : x # n /\ x \in Nodes
  <2>1. Received(m)' = Received(m)
    BY <1>2, <1>7, ZenonT(30) DEF Received
  <2>2. \A x \in Received(m) : x \in Nodes /\ x # n
    BY <1>1, KidFacts, ZenonT(30) DEF Received, Finished
  <2> QED BY <2>1, <2>2, ZenonT(30)
<1>8. TypeOK'
  BY <1>2, <1>3, <1>4, ZenonT(30) DEF ReducerInv, TypeOK
<1>9. CallsOK'
  <2> SUFFICES ASSUME NEW m \in Reducers
               PROVE  /\ Left(m)' => resp'[m] # None
                      /\ pc'[m] \in {"idle", "start"} =>
                           /\ next[m] < Len(Operands(m)) /\ got'[m] = 0
                           /\ \A i \in (next[m] + 1)..Len(Operands(m)) : handler[Operands(m)[i]] = "none"
    BY <1>2, ZenonT(30) DEF CallsOK
  <2>1. CASE m = n
    BY <1>1, <1>3, <1>4, <2>1, ZenonT(30)
  <2>2. CASE m # n
    <3>1. pc'[m] = pc[m] /\ resp'[m] = resp[m] /\ got'[m] = got[m] /\ (Left(m)' <=> Left(m))
      BY <1>3, <1>4, <2>2, ZenonT(30) DEF Left, Nodes
    <3> QED BY <3>1, ZenonT(30) DEF ReducerInv, CallsOK
  <2> QED BY <2>1, <2>2, ZenonT(30)
<1>10. HandlersOK'
  <2> SUFFICES ASSUME NEW x \in Nodes
               PROVE  /\ Finished(x) => resp'[x] # None /\ (x \in Reducers => pc'[x] = "done")
                      /\ handler[x] = "dropped" => ContextDone(x)'
    BY <1>2, ZenonT(30) DEF HandlersOK, Finished
  <2>1. x = n => ~Finished(x) /\ handler[x] # "dropped"
    BY ZenonT(30) DEF Finished
  <2> QED BY <1>3, <1>4, <1>6, <2>1, ZenonT(30) DEF ReducerInv, HandlersOK
<1>11. ChannelsOK'
  <2> SUFFICES ASSUME NEW m \in Reducers
               PROVE  /\ \A c \in Range(out'[m]) : c \in Kids(m) /\ handler[c] = "sent"
                      /\ IsInjective(out'[m])
                      /\ \A c \in Kids(m) : c \in gone => Finished(c) /\ c \notin Range(out'[m])
    BY <1>2, ZenonT(30) DEF ChannelsOK, Finished
  <2>1. Range(out'[m]) \subseteq Range(out[m])
    BY ZenonT(30)
  <2> QED BY <2>1, ZenonT(30) DEF ReducerInv, ChannelsOK
<1>12. CountOK'
  <2> SUFFICES ASSUME NEW m \in Reducers
               PROVE  /\ pc'[m] \in {"idle", "start"} => Received(m)' = {}
                      /\ pc'[m] = "loop" => ContextDone(m)' \/ got'[m] = Cardinality(Received(m)')
    BY <1>2, ZenonT(30) DEF CountOK
  <2>1. CASE m = n
    BY <1>3, <2>1, ZenonT(30)
  <2>2. CASE m # n
    BY <1>3, <1>6, <1>7, <2>2, ZenonT(30) DEF ReducerInv, CountOK, Nodes
  <2> QED BY <2>1, <2>2, ZenonT(30)
<1>13. HeardOK'
  <2> SUFFICES ASSUME NEW m \in Reducers, pc'[m] = "loop", NEW x \in Received(m)'
               PROVE  Heard(m, x)'
    BY <1>2, ZenonT(30) DEF HeardOK
  <2>1. m # n /\ pc[m] = "loop"
    BY <1>3, ZenonT(30)
  <2>2. x \in Received(m) /\ resp'[x] = resp[x] /\ seen'[m] = seen[m]
    BY <1>4, <1>7, <2>1, ZenonT(30)
  <2>3. Heard(m, x) /\ Subtracted(m, x)' = Subtracted(m, x)
    BY <1>2, <2>1, <2>2, ZenonT(30) DEF ReducerInv, HeardOK, Subtracted
  <2> QED BY <1>2, <2>2, <2>3, ZenonT(30) DEF Heard
<1>14. SoundOK'
  BY <1>2, <1>4, <1>5, SoundKept, ZenonT(30) DEF SoundOK
<1> QED BY <1>8, <1>9, <1>10, <1>11, <1>12, <1>13, <1>14, ZenonT(30) DEF ReducerInv

(* A reducer in its loop is not finished: its handler still runs.          *)
LEMMA NotFinished ==
  ASSUME ReducerInv, NEW n \in Reducers, pc[n] # "done"
  PROVE  ~Finished(n)
BY ZenonT(30) DEF ReducerInv, HandlersOK, Nodes

(* The context of the request is cancelled.                                *)
LEMMA CancelInv ==
  ASSUME ReducersAssumption, ReducerInv, Cancel
  PROVE  ReducerInv'
<1>1. /\ UNCHANGED <<tree, does, pc, next, handler, resp, out, gone, got, seen>>
      /\ cancelled' = TRUE
  BY ZenonT(30) DEF Cancel
<1>2. /\ Reducers' = Reducers /\ Nodes' = Nodes /\ Version' = Version
      /\ \A m : Kind(m)' = Kind(m) /\ Operands(m)' = Operands(m) /\ Kids(m)' = Kids(m)
  BY <1>1, TreeFrame, ZenonT(30)
<1>3. \A m : ContextDone(m)'
  BY <1>1, ZenonT(30) DEF ContextDone
<1>4. \A m : Received(m)' = Received(m)
  BY <1>1, <1>2, ZenonT(30) DEF Received
<1>5. TypeOK'
  BY <1>1, <1>2, ZenonT(30) DEF ReducerInv, TypeOK
<1>6. CallsOK' /\ ChannelsOK'
  BY <1>1, <1>2, ZenonT(30) DEF ReducerInv, CallsOK, ChannelsOK, Left, Finished
<1>7. HandlersOK' /\ CountOK' /\ SoundOK'
  BY <1>1, <1>2, <1>3, <1>4, ZenonT(30) DEF ReducerInv, HandlersOK, CountOK, SoundOK, Finished
<1>8. HeardOK'
  BY <1>1, <1>2, <1>4, ZenonT(30) DEF ReducerInv, HeardOK, Heard, Subtracted
<1> QED BY <1>5, <1>6, <1>7, <1>8, ZenonT(30) DEF ReducerInv

(* Steps at which no handler moves and nothing is returned or received.    *)
LEMMA CalmInv ==
  ASSUME ReducersAssumption, ReducerInv,
         UNCHANGED <<tree, does, cancelled, next, handler, resp, out, seen>>,
         pc' \in [Reducers -> {"idle", "start", "loop", "leaving", "done"}],
         got' \in [Reducers -> Nat], gone' \subseteq Nodes,
         \A m \in Reducers : /\ Left(m)' <=> Left(m)
                             /\ pc[m] = "done" => pc'[m] = "done"
                             /\ pc'[m] = "loop" => pc[m] = "loop"
                             /\ pc'[m] \in {"idle", "start"} => pc[m] \in {"idle", "start"} /\ got'[m] = got[m]
  PROVE  /\ TypeOK' /\ CallsOK' /\ HandlersOK' /\ HeardOK' /\ SoundOK'
         /\ \A m : Received(m)' = Received(m)
         /\ \A m \in Nodes : ContextDone(m) => ContextDone(m)'
<1>1. /\ Reducers' = Reducers /\ Nodes' = Nodes /\ Version' = Version
      /\ \A m : Kind(m)' = Kind(m) /\ Operands(m)' = Operands(m) /\ Kids(m)' = Kids(m)
  BY TreeFrame, ZenonT(30)
<1>2. Onward
  BY ZenonT(30) DEF Onward
<1>3. \A m \in Nodes : ContextDone(m) => ContextDone(m)'
  BY <1>2, ContextKept, ZenonT(30) DEF ReducerInv
<1>4. \A m : Received(m)' = Received(m)
  BY <1>1, ZenonT(30) DEF Received
<1>5. TypeOK'
  BY <1>1, ZenonT(30) DEF ReducerInv, TypeOK
<1>6. CallsOK'
  <2> SUFFICES ASSUME NEW m \in Reducers
               PROVE  /\ Left(m)' => resp[m] # None
                      /\ pc'[m] \in {"idle", "start"} =>
                           /\ next[m] < Len(Operands(m)) /\ got'[m] = 0
                           /\ \A i \in (next[m] + 1)..Len(Operands(m)) : handler[Operands(m)[i]] = "none"
    BY <1>1, ZenonT(30) DEF CallsOK
  <2> QED BY ZenonT(30) DEF ReducerInv, CallsOK
<1>7. HandlersOK'
  <2> SUFFICES ASSUME NEW x \in Nodes
               PROVE  /\ Finished(x) => resp[x] # None /\ (x \in Reducers => pc'[x] = "done")
                      /\ handler[x] = "dropped" => ContextDone(x)'
    BY <1>1, ZenonT(30) DEF HandlersOK, Finished
  <2> QED BY <1>3, ZenonT(30) DEF ReducerInv, HandlersOK
<1>8. HeardOK'
  <2> SUFFICES ASSUME NEW m \in Reducers, pc'[m] = "loop", NEW x \in Received(m)
               PROVE  Heard(m, x)'
    BY <1>1, <1>4, ZenonT(30) DEF HeardOK
  <2>1. Heard(m, x) /\ Subtracted(m, x)' = Subtracted(m, x)
    BY <1>1, ZenonT(30) DEF ReducerInv, HeardOK, Subtracted
  <2> QED BY <1>1, <2>1, ZenonT(30) DEF Heard
<1>9. SoundOK'
  BY <1>1, <1>2, SoundKept, ZenonT(30) DEF SoundOK
<1> QED BY <1>3, <1>4, <1>5, <1>6, <1>7, <1>8, <1>9, ZenonT(30)

(* A channel found closed is dropped.                                      *)
LEMMA DropClosedInv ==
  ASSUME ReducersAssumption, ReducerInv, NEW n \in Reducers, DropClosed(n)
  PROVE  ReducerInv'
<1>1. /\ UNCHANGED <<tree, does, cancelled, pc, next, handler, resp, out, got, seen>>
      /\ tree \in Trees
  BY ZenonT(30) DEF DropClosed, ReducerInv, TypeOK
<1>2. PICK c \in Kids(n) \ (gone \cup Range(out[n])) : Finished(c) /\ gone' = gone \cup {c}
  BY ZenonT(30) DEF DropClosed
<1>3. gone' \subseteq Nodes
  <2>1. c \in Nodes /\ gone \subseteq Nodes
    BY <1>1, KidFacts, ZenonT(30) DEF ReducerInv, TypeOK
  <2> QED BY <1>2, <2>1, ZenonT(30)
<1>4. /\ pc' \in [Reducers -> {"idle", "start", "loop", "leaving", "done"}]
      /\ got' \in [Reducers -> Nat]
      /\ \A m \in Reducers : Left(m)' <=> Left(m)
  BY <1>1, ZenonT(30) DEF ReducerInv, TypeOK, Left
<1>5. /\ TypeOK' /\ CallsOK' /\ HandlersOK' /\ HeardOK' /\ SoundOK'
      /\ \A m : Received(m)' = Received(m)
      /\ \A m \in Nodes : ContextDone(m) => ContextDone(m)'
  BY <1>1, <1>3, <1>4, CalmInv, ZenonT(30)
<1>6. /\ Reducers' = Reducers /\ \A m : Kids(m)' = Kids(m)
  BY <1>1, TreeFrame, ZenonT(30)
<1>7. CountOK'
  BY <1>1, <1>5, <1>6, ZenonT(30) DEF ReducerInv, CountOK, Nodes
<1>8. ChannelsOK'
  <2> SUFFICES ASSUME NEW m \in Reducers, NEW x \in Kids(m), x \in gone'
               PROVE  Finished(x) /\ x \notin Range(out[m])
    BY <1>1, <1>6, ZenonT(30) DEF ReducerInv, ChannelsOK, Finished
  <2>1. CASE x \in gone
    BY <2>1, ZenonT(30) DEF ReducerInv, ChannelsOK
  <2>2. CASE x = c
    BY <1>1, <1>2, <2>2, UniqueParent, ZenonT(30)
  <2> QED BY <1>2, <2>1, <2>2, ZenonT(30)
<1> QED BY <1>5, <1>7, <1>8, ZenonT(30) DEF ReducerInv

(* Receiving from a closed channel: some operand has given up sending, so  *)
(* the context of the reducer is done.                                     *)
LEMMA ReceiveClosedInv ==
  ASSUME ReducersAssumption, ReducerInv, NEW n \in Reducers, ReceiveClosed(n)
  PROVE  ReducerInv'
<1>1. /\ UNCHANGED <<tree, does, cancelled, pc, next, handler, resp, out, gone, seen>>
      /\ got' = [got EXCEPT ![n] = @ + 1] /\ tree \in Trees /\ got \in [Reducers -> Nat]
      /\ pc[n] = "loop" /\ got[n] < Len(Operands(n)) /\ out[n] = <<>>
      /\ \A c \in Kids(n) : Finished(c)
  BY ZenonT(30) DEF ReceiveClosed, Looping, ReducerInv, TypeOK
<1>2. /\ got' \in [Reducers -> Nat] /\ \A m \in Reducers : m # n => got'[m] = got[m]
  BY <1>1, SMT, SMTT(30)
<1>3. ContextDone(n)
  <2> SUFFICES ASSUME ~ContextDone(n) PROVE FALSE
    BY ZenonT(30)
  <2>1. ~Left(n) /\ \A c \in Kids(n) : c \in Nodes
    BY <1>1, KidFacts, ZenonT(30) DEF Left
  <2>2. \A c \in Kids(n) : ~ContextDone(c)
    BY <1>1, <2>1, KidContext, ZenonT(30)
  <2>3. \A c \in Kids(n) : handler[c] = "sent"
    BY <1>1, <2>1, <2>2, ZenonT(30) DEF ReducerInv, HandlersOK, Finished
  <2>4. Range(out[n]) = {}
    BY <1>1, SMT, SMTT(30) DEF Range
  <2>5. Received(n) = Kids(n)
    BY <2>3, <2>4, ZenonT(30) DEF Received
  <2>6. got[n] = Cardinality(Kids(n))
    BY <1>1, <2>5, ZenonT(30) DEF ReducerInv, CountOK
  <2>7. Cardinality(Kids(n)) = Len(Operands(n)) /\ Len(Operands(n)) \in Nat
    BY <1>1, KidsCount, KidFacts, ZenonT(30)
  <2> QED BY <1>1, <2>6, <2>7, SMT, SMTT(30)
<1>4. /\ gone' \subseteq Nodes /\ pc' \in [Reducers -> {"idle", "start", "loop", "leaving", "done"}]
      /\ \A m \in Reducers : /\ Left(m)' <=> Left(m)
                             /\ pc'[m] \in {"idle", "start"} => got'[m] = got[m]
  <2>1. pc[n] \notin {"idle", "start"}
    BY <1>1, ZenonT(30)
  <2> QED BY <1>1, <1>2, <2>1, ZenonT(30) DEF ReducerInv, TypeOK, Left
<1>5. /\ TypeOK' /\ CallsOK' /\ HandlersOK' /\ HeardOK' /\ SoundOK'
      /\ \A m : Received(m)' = Received(m)
      /\ \A m \in Nodes : ContextDone(m) => ContextDone(m)'
  BY <1>1, <1>2, <1>4, CalmInv, ZenonT(30)
<1>6. Reducers' = Reducers /\ n \in Nodes /\ \A m : Kids(m)' = Kids(m)
  BY <1>1, TreeFrame, ZenonT(30) DEF Nodes
<1>7. CountOK'
  BY <1>1, <1>2, <1>3, <1>5, <1>6, ZenonT(30) DEF ReducerInv, CountOK, Nodes
<1>8. ChannelsOK'
  BY <1>1, <1>6, ZenonT(30) DEF ReducerInv, ChannelsOK, Finished
<1> QED BY <1>5, <1>7, <1>8, ZenonT(30) DEF ReducerInv

(* The wait for the handlers ends.                                         *)
LEMMA WaitInv ==
  ASSUME ReducersAssumption, ReducerInv, NEW n \in Reducers, WaitForHandlers(n)
  PROVE  ReducerInv'
<1>1. /\ UNCHANGED <<tree, does, cancelled, next, handler, resp, out, gone, got, seen>>
      /\ pc' = [pc EXCEPT ![n] = "done"] /\ pc[n] = "leaving"
      /\ pc \in [Reducers -> {"idle", "start", "loop", "leaving", "done"}]
  BY ZenonT(30) DEF WaitForHandlers, ReducerInv, TypeOK
<1>2. /\ pc' \in [Reducers -> {"idle", "start", "loop", "leaving", "done"}]
      /\ pc'[n] = "done" /\ \A m \in Reducers : m # n => pc'[m] = pc[m]
  BY <1>1, ZenonT(30)
<1>3. /\ gone' \subseteq Nodes /\ got' \in [Reducers -> Nat]
      /\ \A m \in Reducers : /\ Left(m)' <=> Left(m)
                             /\ pc'[m] = "loop" => pc[m] = "loop"
                             /\ pc[m] = "done" => pc'[m] = "done"
                             /\ pc'[m] \in {"idle", "start"} => pc[m] \in {"idle", "start"}
  <2>1. pc'[n] \notin {"idle", "start", "loop"}
    BY <1>2, ZenonT(30)
  <2> QED BY <1>1, <1>2, <2>1, ZenonT(30) DEF ReducerInv, TypeOK, Left
<1>4. /\ TypeOK' /\ CallsOK' /\ HandlersOK' /\ HeardOK' /\ SoundOK'
      /\ \A m : Received(m)' = Received(m)
      /\ \A m \in Nodes : ContextDone(m) => ContextDone(m)'
  BY <1>1, <1>2, <1>3, CalmInv, ZenonT(30)
<1>5. Reducers' = Reducers /\ \A m : Kids(m)' = Kids(m)
  BY <1>1, TreeFrame, ZenonT(30)
<1>6. CountOK'
  BY <1>1, <1>3, <1>4, <1>5, ZenonT(30) DEF ReducerInv, CountOK, Nodes
<1>7. ChannelsOK'
  BY <1>1, <1>5, ZenonT(30) DEF ReducerInv, ChannelsOK, Finished
<1> QED BY <1>4, <1>6, <1>7, ZenonT(30) DEF ReducerInv

(* A reducer is called; one whose context is done fails at once.           *)
LEMMA EnterInv ==
  ASSUME ReducersAssumption, ReducerInv, NEW n \in Reducers, Enter(n)
  PROVE  ReducerInv'
<1>1. /\ UNCHANGED <<tree, does, cancelled, next, handler, out, gone, got, seen>>
      /\ pc[n] = "idle" /\ handler[n] = "running"
      /\ Leave(n, Error) \/ (pc' = [pc EXCEPT ![n] = "start"] /\ resp' = resp)
  BY ZenonT(30) DEF Enter
<1>2. CASE Leave(n, Error)
  <2>1. Error \in Responses /\ ~Left(n) /\ ~Finished(n)
    BY <1>1, ResponseFacts, ZenonT(30) DEF Left, Finished
  <2>2. /\ got' \in [Reducers -> Nat] /\ seen' \in [Reducers -> [err : BOOLEAN, cycle : BOOLEAN]]
        /\ out' \in [Reducers -> Seq(Nodes)] /\ IsInjective(out'[n])
    BY <1>1, ZenonT(30) DEF ReducerInv, TypeOK, ChannelsOK
  <2>3. resp'[n] = Error
    BY <1>2, ZenonT(30) DEF Leave, ReducerInv, TypeOK, Nodes
  <2> QED BY <1>1, <1>2, <2>1, <2>2, <2>3, ErrorSound, LeaveInv, ZenonT(30)
<1>3. CASE pc' = [pc EXCEPT ![n] = "start"] /\ resp' = resp
  <2>1. /\ pc' \in [Reducers -> {"idle", "start", "loop", "leaving", "done"}]
        /\ pc'[n] = "start" /\ \A m \in Reducers : m # n => pc'[m] = pc[m]
    BY <1>3, ZenonT(30) DEF ReducerInv, TypeOK
  <2>2. /\ gone' \subseteq Nodes /\ got' \in [Reducers -> Nat]
        /\ \A m \in Reducers : /\ Left(m)' <=> Left(m)
                               /\ pc'[m] = "loop" => pc[m] = "loop"
                               /\ pc[m] = "done" => pc'[m] = "done"
                               /\ pc'[m] \in {"idle", "start"} => pc[m] \in {"idle", "start"}
    <3>1. /\ pc[n] \notin {"leaving", "done"} /\ pc'[n] \notin {"leaving", "done", "loop"}
          /\ pc[n] \in {"idle", "start"} /\ pc[n] # "done"
      BY <1>1, <2>1, ZenonT(30)
    <3> QED BY <1>1, <2>1, <3>1, ZenonT(30) DEF ReducerInv, TypeOK, Left
  <2>3. /\ TypeOK' /\ CallsOK' /\ HandlersOK' /\ HeardOK' /\ SoundOK'
        /\ \A m : Received(m)' = Received(m)
        /\ \A m \in Nodes : ContextDone(m) => ContextDone(m)'
    BY <1>1, <1>3, <2>1, <2>2, CalmInv, ZenonT(30)
  <2>4. Reducers' = Reducers /\ \A m : Kids(m)' = Kids(m)
    BY <1>1, TreeFrame, ZenonT(30)
  <2>5. CountOK'
    BY <1>1, <2>2, <2>3, <2>4, ZenonT(30) DEF ReducerInv, CountOK, Nodes
  <2>6. ChannelsOK'
    BY <1>1, <2>4, ZenonT(30) DEF ReducerInv, ChannelsOK, Finished
  <2> QED BY <2>3, <2>5, <2>6, ZenonT(30) DEF ReducerInv
<1> QED BY <1>1, <1>2, <1>3, ZenonT(30)

(* A reducer whose context is done leaves with an error.                   *)
LEMMA InterruptedInv ==
  ASSUME ReducersAssumption, ReducerInv, NEW n \in Reducers, Interrupted(n)
  PROVE  ReducerInv'
<1>1. /\ UNCHANGED <<tree, does, cancelled, next, handler, out, gone, got, seen>>
      /\ pc[n] = "loop" /\ Leave(n, Error)
  BY ZenonT(30) DEF Interrupted, Looping
<1>2. Error \in Responses /\ ~Left(n) /\ ~Finished(n)
  BY <1>1, ResponseFacts, NotFinished, ZenonT(30) DEF Left
<1>3. /\ got' \in [Reducers -> Nat] /\ seen' \in [Reducers -> [err : BOOLEAN, cycle : BOOLEAN]]
      /\ out' \in [Reducers -> Seq(Nodes)] /\ IsInjective(out'[n])
  BY <1>1, ZenonT(30) DEF ReducerInv, TypeOK, ChannelsOK
<1>4. resp'[n] = Error
  BY <1>1, ZenonT(30) DEF Leave, ReducerInv, TypeOK, Nodes
<1> QED BY <1>1, <1>2, <1>3, <1>4, ErrorSound, LeaveInv, ZenonT(30)

(* The next handler is started.                                            *)
LEMMA StartInv ==
  ASSUME ReducersAssumption, ReducerInv, NEW n \in Reducers, Start(n)
  PROVE  ReducerInv'
<1> DEFINE i0 == next[n] + 1
           c == Operands(n)[i0]
<1>1. /\ UNCHANGED <<tree, does, cancelled, resp, out, gone, got, seen>>
      /\ pc[n] = "start" /\ handler' = [handler EXCEPT ![c] = "running"]
      /\ next' = [next EXCEPT ![n] = @ + 1]
      /\ pc' = [pc EXCEPT ![n] = IF next'[n] = Len(Operands(n)) THEN "loop" ELSE "start"]
  BY ZenonT(30) DEF Start
<1>2. /\ tree \in Trees /\ next[n] \in Nat /\ next \in [Reducers -> Nat]
      /\ pc \in [Reducers -> {"idle", "start", "loop", "leaving", "done"}]
      /\ handler \in [Nodes -> {"none", "running", "sent", "dropped"}]
  BY ZenonT(30) DEF ReducerInv, TypeOK
<1>3. /\ next[n] < Len(Operands(n)) /\ got[n] = 0 /\ Received(n) = {}
      /\ \A i \in i0..Len(Operands(n)) : handler[Operands(n)[i]] = "none"
  BY <1>1, ZenonT(30) DEF ReducerInv, CallsOK, CountOK
<1>4. /\ Len(Operands(n)) \in Nat /\ IsInjective(Operands(n)) /\ DOMAIN Operands(n) = 1..Len(Operands(n))
      /\ \A i \in 1..Len(Operands(n)) : Operands(n)[i] \in Kids(n)
      /\ Kids(n) \subseteq Nodes
  BY <1>2, KidFacts, ZenonT(30)
<1>5. i0 \in 1..Len(Operands(n)) /\ i0 \in i0..Len(Operands(n))
  BY <1>2, <1>3, <1>4, SMT, SMTT(30)
<1>6. c \in Kids(n) /\ c \in Nodes /\ handler[c] = "none"
  BY <1>3, <1>4, <1>5, ZenonT(30)
<1>7. \A i \in 1..Len(Operands(n)) : i # i0 => Operands(n)[i] # c
  BY <1>4, <1>5, ZenonT(30) DEF IsInjective
<1>8. next'[n] = i0 /\ next' \in [Reducers -> Nat] /\ \A m \in Reducers : m # n => next'[m] = next[m]
  BY <1>1, <1>2, SMT, SMTT(30)
<1> HIDE DEF c
<1>9. /\ handler' \in [Nodes -> {"none", "running", "sent", "dropped"}] /\ handler'[c] = "running"
      /\ \A x \in Nodes : x # c => handler'[x] = handler[x]
  BY <1>1, <1>2, <1>6, ZenonT(30)
<1>10. /\ pc' \in [Reducers -> {"idle", "start", "loop", "leaving", "done"}]
       /\ pc'[n] \in {"start", "loop"} /\ (pc'[n] = "start" => i0 # Len(Operands(n)))
       /\ \A m \in Reducers : m # n => pc'[m] = pc[m]
  BY <1>1, <1>2, <1>8, ZenonT(30)
<1> HIDE DEF i0
<1>11. /\ Reducers' = Reducers /\ Nodes' = Nodes /\ Version' = Version
       /\ \A m : Kind(m)' = Kind(m) /\ Operands(m)' = Operands(m) /\ Kids(m)' = Kids(m)
  BY <1>1, TreeFrame, ZenonT(30)
<1>12. ~Left(n) /\ ~Left(n)' /\ \A m \in Reducers : m # n => (Left(m)' <=> Left(m))
  BY <1>1, <1>10, ZenonT(30) DEF Left
<1>13. Onward
  BY <1>1, <1>12, ZenonT(30) DEF Onward
<1>14. \A m \in Nodes : ContextDone(m) => ContextDone(m)'
  BY <1>13, ContextKept, ZenonT(30) DEF ReducerInv
<1>15. \A m \in Reducers : Received(m)' = Received(m)
  <2> SUFFICES ASSUME NEW m \in Reducers
               PROVE  Received(m)' = Received(m)
    BY ZenonT(30)
  <2>1. \A x \in Kids(m) : x \in Nodes
    BY <1>2, KidFacts, ZenonT(30)
  <2>2. \A x \in Kids(m) : handler'[x] = "sent" <=> handler[x] = "sent"
    BY <1>6, <1>9, <2>1, ZenonT(30)
  <2> QED BY <1>1, <1>11, <2>2, ZenonT(30) DEF Received
<1>16. TypeOK'
  BY <1>1, <1>8, <1>9, <1>10, <1>11, ZenonT(30) DEF ReducerInv, TypeOK
<1>17. CallsOK'
  <2> SUFFICES ASSUME NEW m \in Reducers
               PROVE  /\ Left(m)' => resp[m] # None
                      /\ pc'[m] \in {"idle", "start"} =>
                           /\ next'[m] < Len(Operands(m)) /\ got[m] = 0
                           /\ \A i \in (next'[m] + 1)..Len(Operands(m)) : handler'[Operands(m)[i]] = "none"
    <3>1. resp' = resp /\ got' = got
      BY <1>1, ZenonT(30)
    <3> QED BY <1>11, <3>1, ZenonT(30) DEF CallsOK
  <2>1. CASE m = n
    <3>1. pc'[n] = "start" => i0 < Len(Operands(n))
      <4>1. pc'[n] = "start" => i0 # Len(Operands(n))
        BY <1>10, ZenonT(30)
      <4>2. ASSUME NEW k \in Nat, NEW i \in 1..k, i # k
            PROVE  i < k
        BY <4>2, SMT, SMTT(30)
      <4>3. i0 # Len(Operands(n)) => i0 < Len(Operands(n))
        BY <1>4, <1>5, <4>2, ZenonT(30)
      <4> QED BY <4>1, <4>3, ZenonT(30)
    <3>2. ASSUME NEW i \in (i0 + 1)..Len(Operands(n))
          PROVE  handler'[Operands(n)[i]] = "none"
      <4>1. i \in 1..Len(Operands(n)) /\ i # i0 /\ i \in i0..Len(Operands(n))
        BY <1>4, <1>5, SMT, SMTT(30)
      <4> QED BY <1>3, <1>4, <1>7, <1>9, <4>1, ZenonT(30)
    <3>3. pc'[n] = "idle" => FALSE
      BY <1>10, ZenonT(30)
    <3> QED BY <1>3, <1>8, <1>12, <2>1, <3>1, <3>2, <3>3, ZenonT(30)
  <2>2. CASE m # n
    <3>1. /\ Left(m) => resp[m] # None
          /\ pc[m] \in {"idle", "start"} =>
               /\ next[m] < Len(Operands(m)) /\ got[m] = 0 /\ next[m] \in Nat
               /\ \A i \in (next[m] + 1)..Len(Operands(m)) : handler[Operands(m)[i]] = "none"
      BY <1>2, ZenonT(30) DEF ReducerInv, CallsOK
    <3>2. ASSUME pc[m] \in {"idle", "start"}, NEW i \in (next[m] + 1)..Len(Operands(m))
          PROVE  handler'[Operands(m)[i]] = "none"
      <4>1. i \in 1..Len(Operands(m))
        <5>1. next[m] \in Nat /\ Len(Operands(m)) \in Nat
          BY <1>2, KidFacts, ZenonT(30)
        <5> QED BY <3>2, <5>1, SMT, SMTT(30)
      <4>2. Operands(m)[i] \in Kids(m) /\ Operands(m)[i] \in Nodes
        BY <1>2, <4>1, KidFacts, ZenonT(30)
      <4>3. Operands(m)[i] # c
        BY <1>2, <1>6, <2>2, <4>2, UniqueParent, ZenonT(30)
      <4> QED BY <1>9, <3>1, <3>2, <4>2, <4>3, ZenonT(30)
    <3>3. pc'[m] = pc[m] /\ next'[m] = next[m] /\ (Left(m)' <=> Left(m))
      BY <1>8, <1>10, <1>12, <2>2, ZenonT(30)
    <3> QED BY <3>1, <3>2, <3>3, ZenonT(30)
  <2> QED BY <2>1, <2>2, ZenonT(30)
<1>18. HandlersOK'
  <2> SUFFICES ASSUME NEW x \in Nodes
               PROVE  /\ handler'[x] \in {"sent", "dropped"} => resp[x] # None /\ (x \in Reducers => pc'[x] = "done")
                      /\ handler'[x] = "dropped" => ContextDone(x)'
    BY <1>1, <1>11, ZenonT(30) DEF HandlersOK, Finished
  <2>1. CASE x = c
    BY <1>9, <2>1, ZenonT(30)
  <2>2. CASE x # c
    <3>1. /\ handler[x] \in {"sent", "dropped"} => resp[x] # None /\ (x \in Reducers => pc[x] = "done")
          /\ handler[x] = "dropped" => ContextDone(x)
      BY ZenonT(30) DEF ReducerInv, HandlersOK, Finished
    <3>2. x \in Reducers /\ pc[x] = "done" => pc'[x] = "done"
      BY <1>1, <1>10, ZenonT(30)
    <3> QED BY <1>9, <1>14, <2>2, <3>1, <3>2, ZenonT(30)
  <2> QED BY <2>1, <2>2, ZenonT(30)
<1>19. ChannelsOK'
  <2> SUFFICES ASSUME NEW m \in Reducers
               PROVE  /\ \A x \in Range(out[m]) : x \in Kids(m) /\ handler'[x] = "sent"
                      /\ IsInjective(out[m])
                      /\ \A x \in Kids(m) : x \in gone => handler'[x] \in {"sent", "dropped"} /\ x \notin Range(out[m])
    BY <1>1, <1>11, ZenonT(30) DEF ChannelsOK, Finished
  <2>1. /\ \A x \in Range(out[m]) : x \in Kids(m) /\ handler[x] = "sent"
        /\ IsInjective(out[m])
        /\ \A x \in Kids(m) : x \in gone => handler[x] \in {"sent", "dropped"} /\ x \notin Range(out[m])
    BY ZenonT(30) DEF ReducerInv, ChannelsOK, Finished
  <2>2. ASSUME NEW x \in Kids(m), handler[x] # "none"
        PROVE  handler'[x] = handler[x]
    <3>1. x \in Nodes
      BY <1>2, KidFacts, ZenonT(30)
    <3> QED BY <1>6, <1>9, <2>2, <3>1, ZenonT(30)
  <2>3. "sent" # "none" /\ "dropped" # "none"
    BY ZenonT(30)
  <2> QED BY <2>1, <2>2, <2>3, ZenonT(30)
<1>20. CountOK'
  <2> SUFFICES ASSUME NEW m \in Reducers
               PROVE  /\ pc'[m] \in {"idle", "start"} => Received(m) = {}
                      /\ pc'[m] = "loop" => ContextDone(m)' \/ got[m] = Cardinality(Received(m))
    BY <1>1, <1>11, <1>15, ZenonT(30) DEF CountOK
  <2>1. CASE m = n
    <3>1. Cardinality({}) = 0
      BY FS_EmptySet, ZenonT(30)
    <3> QED BY <1>3, <2>1, <3>1, ZenonT(30)
  <2>2. CASE m # n
    BY <1>10, <1>14, <2>2, ZenonT(30) DEF ReducerInv, CountOK, Nodes
  <2> QED BY <2>1, <2>2, ZenonT(30)
<1>21. HeardOK'
  <2> SUFFICES ASSUME NEW m \in Reducers, pc'[m] = "loop", NEW x \in Received(m)
               PROVE  Heard(m, x)'
    BY <1>11, <1>15, ZenonT(30) DEF HeardOK
  <2>1. m # n
    BY <1>3, ZenonT(30)
  <2>2. Heard(m, x) /\ Subtracted(m, x)' = Subtracted(m, x)
    BY <1>10, <1>11, <2>1, ZenonT(30) DEF ReducerInv, HeardOK, Subtracted
  <2> QED BY <1>1, <1>11, <2>2, ZenonT(30) DEF Heard
<1>22. SoundOK'
  BY <1>1, <1>11, <1>13, SoundKept, ZenonT(30) DEF SoundOK
<1> QED BY <1>16, <1>17, <1>18, <1>19, <1>20, <1>21, <1>22, ZenonT(30) DEF ReducerInv

-----------------------------------------------------------------------------
(* A response that is decided stays so when it is returned.                *)
LEMMA ReturnSound ==
  ASSUME ReducersAssumption, ReducerInv, Onward, NEW n \in Nodes, NEW r, resp'[n] = r,
         \/ ContextDone(n) \/ r.err
         \/ IF r.allowed THEN Decided(n, TRUE) ELSE r.cycle \/ Decided(n, FALSE)
  PROVE  (Sound(n) \/ ContextDone(n))'
<1>1. \A b : Decided(n, b)' <=> Decided(n, b)
  BY DecidedFrame, ZenonT(30) DEF Onward
<1>2. ContextDone(n) => ContextDone(n)'
  BY ContextKept, ZenonT(30) DEF ReducerInv
<1> QED BY <1>1, <1>2, ZenonT(30) DEF Sound

(* The operands of an exclusion, and what is to be known of them.          *)
LEMMA ExclusionKids ==
  ASSUME ReducersAssumption, tree \in Trees, NEW n \in Reducers, Kind(n) = "exclusion"
  PROVE  /\ Len(Operands(n)) \in {1, 2} /\ Operands(n)[1] \in Kids(n)
         /\ Len(Operands(n)) = 2 => Operands(n)[2] \in Kids(n) /\ Operands(n)[2] # Operands(n)[1]
         /\ \A c \in Kids(n) : c # Operands(n)[1] => Len(Operands(n)) = 2 /\ c = Operands(n)[2]
<1> DEFINE ops == Operands(n)
<1>1. /\ Len(ops) \in Nat \ {0} /\ Len(ops) <= 2 /\ DOMAIN ops = 1..Len(ops) /\ IsInjective(ops)
      /\ \A i \in 1..Len(ops) : ops[i] \in Kids(n)
      /\ \A c \in Kids(n) : \E i \in 1..Len(ops) : c = ops[i]
  BY KidFacts, ZenonT(30)
<1> HIDE DEF ops
<1>2. Len(ops) \in {1, 2} /\ 1 \in 1..Len(ops) /\ (Len(ops) = 2 => 2 \in 1..Len(ops))
  BY <1>1, SMT, SMTT(30)
<1>3. \A i \in 1..Len(ops) : i = 1 \/ (i = 2 /\ Len(ops) = 2)
  BY <1>1, SMT, SMTT(30)
<1>4. Len(ops) = 2 => ops[2] # ops[1]
  <2>1. 1 # 2
    BY SMT, SMTT(30)
  <2> QED BY <1>1, <1>2, <2>1, ZenonT(30) DEF IsInjective
<1>5. \A c \in Kids(n) : c # ops[1] => Len(ops) = 2 /\ c = ops[2]
  BY <1>1, <1>3, ZenonT(30)
<1> QED BY <1>1, <1>2, <1>4, <1>5, ZenonT(30) DEF ops

(* The operands of a reducer whose context is not done are sound, and      *)
(* those that have finished have sent.                                     *)
LEMMA OpenKids ==
  ASSUME ReducersAssumption, ReducerInv, NEW n \in Reducers, pc[n] = "loop", ~ContextDone(n),
         NEW c \in Kids(n)
  PROVE  /\ c \in Nodes /\ Sound(c)
         /\ Finished(c) => handler[c] = "sent" /\ resp[c] \in Responses
<1>1. tree \in Trees /\ ~Left(n)
  BY ZenonT(30) DEF ReducerInv, TypeOK, Left
<1>2. c \in Nodes
  BY <1>1, KidFacts, ZenonT(30)
<1>3. ~ContextDone(c)
  BY <1>1, KidContext, ZenonT(30)
<1>4. Sound(c)
  BY <1>2, <1>3, ZenonT(30) DEF ReducerInv, SoundOK
<1>5. Finished(c) => handler[c] = "sent" /\ resp[c] # None
  BY <1>2, <1>3, ZenonT(30) DEF ReducerInv, HandlersOK, Finished
<1>6. resp[c] \in Responses \cup {None}
  BY <1>2, ZenonT(30) DEF ReducerInv, TypeOK
<1> QED BY <1>2, <1>4, <1>5, <1>6, ZenonT(30)

(* What a reducer returns at once is decided by the outcome it received,   *)
(* for an exclusion with what it knows of its other operand.               *)
LEMMA DecisionSound ==
  ASSUME ReducersAssumption, ReducerInv, NEW n \in Reducers, pc[n] = "loop", NEW c \in Kids(n),
         resp[c] \in Responses, Decision(n, c) # None
  PROVE  /\ Decision(n, c) \in Responses
         /\ \/ ContextDone(n) \/ Decision(n, c).err
            \/ IF Decision(n, c).allowed THEN Decided(n, TRUE) ELSE Decision(n, c).cycle \/ Decided(n, FALSE)
<1> DEFINE r == resp[c]
           d == Decision(n, c)
           other == \/ Kind(n) = "intersection"
                    \/ Kind(n) = "exclusion" /\ c = Operands(n)[1]
<1>1. tree \in Trees /\ Kind(n) \in {"union", "intersection", "exclusion"}
  BY TreeFacts, ZenonT(30) DEF ReducerInv, TypeOK
<1>2. /\ r.err \in BOOLEAN /\ r.allowed \in BOOLEAN /\ r.cycle \in BOOLEAN
      /\ r = [err |-> r.err, allowed |-> r.allowed, cycle |-> r.cycle]
  BY ZenonT(30) DEF Responses
<1>3. \/ d = Error
      \/ Kind(n) = "union" /\ ~r.err /\ r.allowed /\ d = r
      \/ Subtracted(n, c) /\ ~r.err /\ (r.cycle \/ r.allowed) /\ d = Denied(r.cycle)
      \/ other /\ ~r.err /\ (r.cycle \/ ~r.allowed) /\ d = Denied(r.cycle)
      \/ /\ Kind(n) = "exclusion" /\ c = Operands(n)[1] /\ ~r.err /\ ~r.cycle /\ r.allowed /\ d = r
         /\ Version = 2 /\ NoSubtract(n)
  BY <1>1, <1>2, ZenonT(30) DEF Decision, Subtracted
<1>4. d \in Responses
  BY <1>2, <1>3, ResponseFacts, ZenonT(30)
<1>5. /\ Error.err
      /\ \A b : Denied(b).cycle = b /\ ~Denied(b).allowed /\ ~Denied(b).err
  BY ZenonT(30) DEF Error, Denied
<1> HIDE DEF d, r
<1>6. ASSUME ~ContextDone(n), ~d.err
      PROVE  IF d.allowed THEN Decided(n, TRUE) ELSE d.cycle \/ Decided(n, FALSE)
  <2>1. Sound(c)
    BY <1>6, OpenKids, ZenonT(30)
  <2>2. ~r.err => IF r.allowed THEN Decided(c, TRUE) ELSE r.cycle \/ Decided(c, FALSE)
    <3>1. resp[c] # None
      BY ResponseFacts, ZenonT(30)
    <3> QED BY <2>1, <3>1, ZenonT(30) DEF Sound, r
  <2>3. CASE Kind(n) = "union" /\ ~r.err /\ r.allowed /\ d = r
    BY <1>1, <2>2, <2>3, DecidedUnion, ZenonT(30)
  <2>4. CASE Subtracted(n, c) /\ ~r.err /\ (r.cycle \/ r.allowed) /\ d = Denied(r.cycle)
    <3>1. Kind(n) = "exclusion" /\ Len(Operands(n)) = 2 /\ c = Operands(n)[2]
      BY <1>1, <2>4, ExclusionKids, ZenonT(30) DEF Subtracted
    <3> QED BY <1>1, <1>5, <2>2, <2>4, <3>1, DecidedExclusion, ZenonT(30)
  <2>5. CASE other /\ ~r.err /\ (r.cycle \/ ~r.allowed) /\ d = Denied(r.cycle)
    <3>1. Decided(c, FALSE) => Decided(n, FALSE)
      BY <1>1, <2>5, DecidedIntersection, DecidedExclusion, ZenonT(30)
    <3> QED BY <1>5, <2>2, <2>5, <3>1, ZenonT(30)
  <2>6. CASE /\ Kind(n) = "exclusion" /\ c = Operands(n)[1] /\ ~r.err /\ ~r.cycle /\ r.allowed /\ d = r
             /\ Version = 2 /\ NoSubtract(n)
    <3>1. Len(Operands(n)) = 2 => Decided(Operands(n)[2], FALSE)
      <4> DEFINE e == Operands(n)[2]
      <4> SUFFICES ASSUME Len(Operands(n)) = 2 PROVE Decided(e, FALSE)
        BY ZenonT(30)
      <4>1. e \in Kids(n) /\ e # Operands(n)[1]
        BY <1>1, <2>6, ExclusionKids, ZenonT(30)
      <4>2. e \in gone
        BY <2>6, SMT, SMTT(30) DEF NoSubtract
      <4> HIDE DEF e
      <4>3. Finished(e) /\ e \notin Range(out[n])
        BY <4>1, <4>2, ZenonT(30) DEF ReducerInv, ChannelsOK
      <4>4. handler[e] = "sent" /\ resp[e] \in Responses /\ Sound(e)
        BY <1>6, <4>1, <4>3, OpenKids, ZenonT(30)
      <4>5. Heard(n, e)
        BY <4>1, <4>3, <4>4, ZenonT(30) DEF ReducerInv, HeardOK, Received
      <4>6. Subtracted(n, e) /\ Version = 2 /\ Kind(n) # "union"
        BY <2>6, <4>1, ZenonT(30) DEF Subtracted
      <4>7. ~resp[e].err /\ ~resp[e].allowed /\ ~resp[e].cycle
        BY <4>5, <4>6, ZenonT(30) DEF Heard
      <4>8. resp[e] # None
        BY <4>4, ResponseFacts, ZenonT(30)
      <4> QED BY <4>4, <4>7, <4>8, ZenonT(30) DEF Sound
    <3> QED BY <1>1, <2>2, <2>6, <3>1, DecidedExclusion, ZenonT(30)
  <2> QED BY <1>3, <1>5, <1>6, <2>3, <2>4, <2>5, <2>6, ZenonT(30)
<1> QED BY <1>4, <1>6, ZenonT(30) DEF d

(* An outcome that does not decide is remembered.                          *)
LEMMA UndecidedHeard ==
  ASSUME ReducersAssumption, tree \in Trees, NEW n \in Reducers, NEW c, resp[c] \in Responses,
         Decision(n, c) = None
  PROVE  /\ resp[c].err => (Version = 2 => Kind(n) = "union")
         /\ ~resp[c].err =>
              IF Kind(n) = "union" THEN ~resp[c].allowed
              ELSE ~resp[c].cycle /\ (resp[c].allowed <=> ~Subtracted(n, c))
<1> DEFINE r == resp[c]
<1>1. /\ r.err \in BOOLEAN /\ r.allowed \in BOOLEAN /\ r.cycle \in BOOLEAN
      /\ r # None /\ Error # None /\ Denied(r.cycle) # None
  <2>1. r.err \in BOOLEAN /\ r.allowed \in BOOLEAN /\ r.cycle \in BOOLEAN
    BY ZenonT(30) DEF Responses
  <2> HIDE DEF r
  <2>2. r # None
    BY ResponseFacts, ZenonT(30) DEF r
  <2> QED BY <2>1, <2>2, ResponseFacts, ZenonT(30)
<1>2. Kind(n) \in {"union", "intersection", "exclusion"}
  BY TreeFacts, ZenonT(30)
<1>3. r.err => (Version = 2 => Kind(n) = "union")
  BY <1>1, ZenonT(30) DEF Decision
<1>4. ~r.err /\ Kind(n) = "union" => ~r.allowed
  BY <1>1, ZenonT(30) DEF Decision
<1>5. ~r.err /\ Kind(n) # "union" /\ Subtracted(n, c) => ~r.cycle /\ ~r.allowed
  BY <1>1, ZenonT(30) DEF Decision
<1>6. ~r.err /\ Kind(n) # "union" /\ ~Subtracted(n, c) => ~r.cycle /\ r.allowed
  BY <1>1, ZenonT(30) DEF Decision
<1> HIDE DEF r
<1>7. /\ r.err => (Version = 2 => Kind(n) = "union")
      /\ ~r.err => IF Kind(n) = "union" THEN ~r.allowed
                   ELSE ~r.cycle /\ (r.allowed <=> ~Subtracted(n, c))
  BY <1>3, <1>4, <1>5, <1>6, ZenonT(30)
<1> QED BY <1>7, ZenonT(30) DEF r

(* An outcome is received: it decides, or it is counted and remembered.    *)
LEMMA ReceiveInv ==
  ASSUME ReducersAssumption, ReducerInv, NEW n \in Reducers, Receive(n)
  PROVE  ReducerInv'
<1>1. /\ UNCHANGED <<tree, does, cancelled, next, handler, gone>>
      /\ pc[n] = "loop" /\ got[n] < Len(Operands(n))
  BY ZenonT(30) DEF Receive, Looping
<1>2. PICK i \in DOMAIN out[n] :
        LET c == out[n][i] IN
        /\ out' = [out EXCEPT ![n] = Rest(@, i)]
        /\ got' = [got EXCEPT ![n] = @ + 1]
        /\ seen' = [seen EXCEPT ![n] = [err |-> @.err \/ resp[c].err, cycle |-> @.cycle \/ resp[c].cycle]]
        /\ IF Decision(n, c) # None THEN Leave(n, Decision(n, c)) ELSE UNCHANGED <<resp, pc>>
  BY ZenonT(30) DEF Receive
<1> DEFINE c == out[n][i]
<1>3. /\ tree \in Trees /\ out \in [Reducers -> Seq(Nodes)] /\ got \in [Reducers -> Nat]
      /\ seen \in [Reducers -> [err : BOOLEAN, cycle : BOOLEAN]]
      /\ resp \in [Nodes -> Responses \cup {None}] /\ pc \in [Reducers -> {"idle", "start", "loop", "leaving", "done"}]
  BY ZenonT(30) DEF ReducerInv, TypeOK
<1>4. c \in Range(out[n]) /\ c \in Kids(n) /\ c \in Nodes /\ handler[c] = "sent" /\ IsInjective(out[n])
  <2>1. c \in Range(out[n])
    BY ZenonT(30) DEF Range
  <2>2. c \in Kids(n) /\ handler[c] = "sent" /\ IsInjective(out[n])
    BY <2>1, ZenonT(30) DEF ReducerInv, ChannelsOK
  <2> QED BY <1>3, <2>1, <2>2, KidFacts, ZenonT(30)
<1>5. /\ out'[n] \in Seq(Nodes) /\ Range(out'[n]) = Range(out[n]) \ {c} /\ IsInjective(out'[n])
      /\ out' \in [Reducers -> Seq(Nodes)] /\ \A m \in Reducers : m # n => out'[m] = out[m]
  <2>1. out[n] \in Seq(Nodes) /\ out' = [out EXCEPT ![n] = Rest(out[n], i)]
    BY <1>2, <1>3, ZenonT(30)
  <2>2. /\ Rest(out[n], i) \in Seq(Nodes) /\ Range(Rest(out[n], i)) = Range(out[n]) \ {c}
        /\ IsInjective(Rest(out[n], i))
    BY <1>4, <2>1, RemoveFacts, ZenonT(30)
  <2>3. out'[n] = Rest(out[n], i) /\ \A m \in Reducers : m # n => out'[m] = out[m]
    BY <1>3, <2>1, ZenonT(30)
  <2>4. out' \in [Reducers -> Seq(Nodes)]
    BY <1>3, <2>1, <2>2, ZenonT(30)
  <2> QED BY <2>2, <2>3, <2>4, ZenonT(30)
<1>6. /\ got' \in [Reducers -> Nat] /\ got'[n] = got[n] + 1 /\ \A m \in Reducers : m # n => got'[m] = got[m]
  BY <1>2, <1>3, SMT, SMTT(30)
<1> HIDE DEF c
<1>7. resp[c] \in Responses
  <2>1. resp[c] # None
    BY <1>4, ZenonT(30) DEF ReducerInv, HandlersOK, Finished
  <2> QED BY <1>3, <1>4, <2>1, ZenonT(30)
<1>8. /\ seen' \in [Reducers -> [err : BOOLEAN, cycle : BOOLEAN]]
      /\ seen'[n].err = (seen[n].err \/ resp[c].err) /\ seen'[n].cycle = (seen[n].cycle \/ resp[c].cycle)
      /\ \A m \in Reducers : m # n => seen'[m] = seen[m]
  <2>1. seen' = [seen EXCEPT ![n] = [err |-> seen[n].err \/ resp[c].err, cycle |-> seen[n].cycle \/ resp[c].cycle]]
    BY <1>2, <1>3, ZenonT(30) DEF c
  <2>2. [err |-> seen[n].err \/ resp[c].err, cycle |-> seen[n].cycle \/ resp[c].cycle] \in [err : BOOLEAN, cycle : BOOLEAN]
    BY <1>3, <1>7, ZenonT(30) DEF Responses
  <2> QED BY <1>3, <2>1, <2>2, ZenonT(30)
<1>9. IF Decision(n, c) # None THEN Leave(n, Decision(n, c)) ELSE UNCHANGED <<resp, pc>>
  BY <1>2, ZenonT(30) DEF c
<1>10. n \in Nodes /\ ~Left(n) /\ ~Finished(n)
  BY <1>1, NotFinished, ZenonT(30) DEF Left, Nodes
<1>11. CASE Decision(n, c) # None
  <2> DEFINE d == Decision(n, c)
  <2>1. /\ d \in Responses
        /\ \/ ContextDone(n) \/ d.err
           \/ IF d.allowed THEN Decided(n, TRUE) ELSE d.cycle \/ Decided(n, FALSE)
    BY <1>1, <1>4, <1>7, <1>11, DecisionSound, ZenonT(30)
  <2>2. Leave(n, d)
    BY <1>9, <1>11, ZenonT(30)
  <2> HIDE DEF d
  <2>3. resp'[n] = d /\ pc'[n] \in {"leaving", "done"} /\ \A m \in Reducers : m # n => pc'[m] = pc[m]
    BY <1>3, <1>10, <2>2, ZenonT(30) DEF Leave
  <2>4. Onward
    BY <1>1, <2>3, ZenonT(30) DEF Onward, Left
  <2>5. (Sound(n) \/ ContextDone(n))'
    BY <1>10, <2>1, <2>3, <2>4, ReturnSound, ZenonT(30)
  <2>6. Range(out'[n]) \subseteq Range(out[n])
    BY <1>5, ZenonT(30)
  <2> QED BY <1>1, <1>5, <1>6, <1>8, <1>10, <2>1, <2>2, <2>5, <2>6, LeaveInv, ZenonT(30)
<1>12. CASE Decision(n, c) = None
  <2>1. resp' = resp /\ pc' = pc
    BY <1>9, <1>12, ZenonT(30)
  <2>2. /\ Reducers' = Reducers /\ Nodes' = Nodes /\ Version' = Version
        /\ \A m : Kind(m)' = Kind(m) /\ Operands(m)' = Operands(m) /\ Kids(m)' = Kids(m)
    BY <1>1, TreeFrame, ZenonT(30)
  <2>3. Onward
    BY <1>1, <2>1, ZenonT(30) DEF Onward, Left
  <2>4. \A m \in Nodes : ContextDone(m) => ContextDone(m)'
    BY <2>3, ContextKept, ZenonT(30) DEF ReducerInv
  <2>5. \A m \in Reducers : m # n => Received(m)' = Received(m)
    BY <1>1, <1>5, <2>2, ZenonT(30) DEF Received
  <2>6. c \notin Received(n)
    BY <1>4, ZenonT(30) DEF Received
  <2>7. \A x : x \in Received(n)' <=> x \in Received(n) \/ x = c
    BY <1>1, <1>4, <1>5, <2>2, ZenonT(30) DEF Received
  <2>8. Cardinality(Received(n)') = Cardinality(Received(n)) + 1
    <3>1. Received(n) \in SUBSET Kids(n)
      BY ZenonT(30) DEF Received
    <3>2. IsFiniteSet(Received(n))
      BY <1>3, <3>1, KidsCount, FS_Subset, ZenonT(30)
    <3>3. Received(n)' = Received(n) \cup {c}
      BY <2>7, ZenonT(30)
    <3> QED BY <2>6, <3>2, <3>3, FS_AddElement, ZenonT(30)
  <2>9. TypeOK'
    BY <1>1, <1>5, <1>6, <1>8, <2>1, <2>2, ZenonT(30) DEF ReducerInv, TypeOK
  <2>10. CallsOK'
    <3> SUFFICES ASSUME NEW m \in Reducers
                 PROVE  /\ Left(m) => resp[m] # None
                        /\ pc[m] \in {"idle", "start"} =>
                             /\ next[m] < Len(Operands(m)) /\ got'[m] = 0
                             /\ \A j \in (next[m] + 1)..Len(Operands(m)) : handler[Operands(m)[j]] = "none"
      BY <1>1, <2>1, <2>2, ZenonT(30) DEF CallsOK, Left
    <3>1. pc[n] \notin {"idle", "start"}
      BY <1>1, ZenonT(30)
    <3> QED BY <1>6, <3>1, ZenonT(30) DEF ReducerInv, CallsOK
  <2>11. HandlersOK'
    BY <1>1, <2>1, <2>2, <2>4, ZenonT(30) DEF ReducerInv, HandlersOK, Finished
  <2>12. ChannelsOK'
    <3> SUFFICES ASSUME NEW m \in Reducers
                 PROVE  /\ \A x \in Range(out'[m]) : x \in Kids(m) /\ handler[x] = "sent"
                        /\ IsInjective(out'[m])
                        /\ \A x \in Kids(m) : x \in gone => Finished(x) /\ x \notin Range(out'[m])
      BY <1>1, <2>2, ZenonT(30) DEF ChannelsOK, Finished
    <3>1. \A x \in Range(out'[m]) : x \in Range(out[m])
      BY <1>5, ZenonT(30)
    <3>2. IsInjective(out'[m])
      BY <1>5, ZenonT(30) DEF ReducerInv, ChannelsOK
    <3> QED BY <3>1, <3>2, ZenonT(30) DEF ReducerInv, ChannelsOK
  <2>13. CountOK'
    <3> SUFFICES ASSUME NEW m \in Reducers
                 PROVE  /\ pc[m] \in {"idle", "start"} => Received(m)' = {}
                        /\ pc[m] = "loop" => ContextDone(m)' \/ got'[m] = Cardinality(Received(m)')
      BY <2>1, <2>2, ZenonT(30) DEF CountOK
    <3>1. CASE m = n
      <4>1. pc[n] \notin {"idle", "start"}
        BY <1>1, ZenonT(30)
      <4>2. ContextDone(n) \/ got[n] = Cardinality(Received(n))
        BY <1>1, ZenonT(30) DEF ReducerInv, CountOK
      <4> QED BY <1>6, <1>10, <2>4, <2>8, <3>1, <4>1, <4>2, ZenonT(30)
    <3>2. CASE m # n
      BY <1>6, <2>4, <2>5, <3>2, ZenonT(30) DEF ReducerInv, CountOK, Nodes
    <3> QED BY <3>1, <3>2, ZenonT(30)
  <2>14. HeardOK'
    <3> SUFFICES ASSUME NEW m \in Reducers, pc[m] = "loop", NEW x \in Received(m)'
                 PROVE  Heard(m, x)'
      BY <2>1, <2>2, ZenonT(30) DEF HeardOK
    <3>1. Subtracted(m, x)' = Subtracted(m, x)
      BY <2>2, ZenonT(30) DEF Subtracted
    <3>2. (seen[m].err => seen'[m].err) /\ (seen[m].cycle => seen'[m].cycle)
      BY <1>8, ZenonT(30)
    <3>3. CASE x \in Received(m)
      <4>1. Heard(m, x)
        BY <3>3, ZenonT(30) DEF ReducerInv, HeardOK
      <4> QED BY <2>1, <2>2, <3>1, <3>2, <4>1, ZenonT(30) DEF Heard
    <3>4. CASE m = n /\ x = c
      <4>1. /\ resp[x].err => (Version = 2 => Kind(m) = "union")
            /\ ~resp[x].err =>
                 IF Kind(m) = "union" THEN ~resp[x].allowed
                 ELSE ~resp[x].cycle /\ (resp[x].allowed <=> ~Subtracted(m, x))
        BY <1>3, <1>7, <1>12, <3>4, UndecidedHeard, ZenonT(30)
      <4>2. (resp[x].err => seen'[m].err) /\ (resp[x].cycle => seen'[m].cycle)
        BY <1>8, <3>4, ZenonT(30)
      <4> QED BY <2>1, <2>2, <3>1, <4>1, <4>2, ZenonT(30) DEF Heard
    <3> QED BY <2>5, <2>7, <3>3, <3>4, ZenonT(30)
  <2>15. SoundOK'
    BY <2>1, <2>2, <2>3, SoundKept, ZenonT(30) DEF SoundOK
  <2> QED BY <2>9, <2>10, <2>11, <2>12, <2>13, <2>14, <2>15, ZenonT(30) DEF ReducerInv
<1> QED BY <1>11, <1>12, ZenonT(30)

(* A reducer whose context is not done and that has counted all operands   *)
(* has received them all, and none of them has decided.                    *)
LEMMA AllReceived ==
  ASSUME ReducersAssumption, ReducerInv, NEW n \in Reducers, pc[n] = "loop", ~ContextDone(n),
         got[n] = Len(Operands(n)), ~seen[n].err, NEW c \in Kids(n)
  PROVE  IF Kind(n) = "union" THEN seen[n].cycle \/ Decided(c, FALSE)
         ELSE IF Subtracted(n, c) THEN Decided(c, FALSE) ELSE Decided(c, TRUE)
<1>1. tree \in Trees
  BY ZenonT(30) DEF ReducerInv, TypeOK
<1>2. Received(n) = Kids(n)
  <2>1. Received(n) \in SUBSET Kids(n)
    BY ZenonT(30) DEF Received
  <2>2. IsFiniteSet(Kids(n)) /\ Cardinality(Kids(n)) = Len(Operands(n))
    BY <1>1, KidsCount, ZenonT(30)
  <2>3. Cardinality(Received(n)) = Len(Operands(n))
    BY ZenonT(30) DEF ReducerInv, CountOK
  <2> QED BY <2>1, <2>2, <2>3, FS_Subset, ZenonT(30)
<1>3. c \in Received(n) /\ Heard(n, c)
  BY <1>2, ZenonT(30) DEF ReducerInv, HeardOK
<1>4. Finished(c)
  BY <1>3, ZenonT(30) DEF Received, Finished
<1>5. Sound(c) /\ resp[c] \in Responses
  BY <1>4, OpenKids, ZenonT(30)
<1>6. resp[c] # None
  BY <1>5, ResponseFacts, ZenonT(30)
<1>7. ~resp[c].err
  BY <1>3, ZenonT(30) DEF Heard
<1>8. IF resp[c].allowed THEN Decided(c, TRUE) ELSE resp[c].cycle \/ Decided(c, FALSE)
  BY <1>5, <1>6, <1>7, ZenonT(30) DEF Sound
<1> QED BY <1>3, <1>7, <1>8, ZenonT(30) DEF Heard

(* All outcomes were received: a union denies, the others allow.           *)
LEMMA ConcludeInv ==
  ASSUME ReducersAssumption, ReducerInv, NEW n \in Reducers, Conclude(n)
  PROVE  ReducerInv'
<1> DEFINE r == IF seen[n].err \/ (Version = 2 /\ Kind(n) = "union" /\ ContextDone(n)) THEN Error
                ELSE IF Kind(n) = "union" THEN Denied(seen[n].cycle) ELSE Allowed
<1>1. /\ UNCHANGED <<tree, does, cancelled, next, handler, out, gone, got, seen>>
      /\ pc[n] = "loop" /\ got[n] = Len(Operands(n)) /\ Leave(n, r)
  BY ZenonT(30) DEF Conclude
<1>2. /\ tree \in Trees /\ seen[n].cycle \in BOOLEAN /\ n \in Nodes
      /\ resp \in [Nodes -> Responses \cup {None}] /\ pc \in [Reducers -> {"idle", "start", "loop", "leaving", "done"}]
  BY ZenonT(30) DEF ReducerInv, TypeOK, Nodes
<1>3. /\ r = Error \/ r = Denied(seen[n].cycle) \/ r = Allowed
      /\ r # Error => ~seen[n].err
      /\ r # Error /\ Kind(n) = "union" => r = Denied(seen[n].cycle)
      /\ r # Error /\ Kind(n) # "union" => r = Allowed
  BY ZenonT(30)
<1> HIDE DEF r
<1>4. r \in Responses
  BY <1>2, <1>3, ResponseFacts, ZenonT(30)
<1>5. Error.err /\ Allowed.allowed /\ \A b : Denied(b).cycle = b /\ ~Denied(b).allowed
  BY ZenonT(30) DEF Error, Denied, Allowed
<1>6. ASSUME ~ContextDone(n), r # Error
      PROVE  IF r.allowed THEN Decided(n, TRUE) ELSE r.cycle \/ Decided(n, FALSE)
  <2>1. \A c \in Kids(n) : IF Kind(n) = "union" THEN seen[n].cycle \/ Decided(c, FALSE)
                           ELSE IF Subtracted(n, c) THEN Decided(c, FALSE) ELSE Decided(c, TRUE)
    BY <1>1, <1>3, <1>6, AllReceived, ZenonT(30)
  <2>2. CASE Kind(n) = "union"
    BY <1>2, <1>3, <1>5, <1>6, <2>1, <2>2, DecidedUnion, ZenonT(30)
  <2>3. CASE Kind(n) = "intersection"
    <3>1. Kind(n) # "union" /\ \A c : ~Subtracted(n, c)
      BY <2>3, ZenonT(30) DEF Subtracted
    <3> QED BY <1>2, <1>3, <1>5, <1>6, <2>1, <2>3, <3>1, DecidedIntersection, ZenonT(30)
  <2>4. CASE Kind(n) = "exclusion"
    <3>1. Kind(n) # "union"
      BY <2>4, ZenonT(30)
    <3>2. Decided(Operands(n)[1], TRUE)
      BY <1>2, <2>1, <2>4, <3>1, ExclusionKids, ZenonT(30) DEF Subtracted
    <3>3. Len(Operands(n)) = 2 => Decided(Operands(n)[2], FALSE)
      BY <1>2, <2>1, <2>4, <3>1, ExclusionKids, ZenonT(30) DEF Subtracted
    <3> QED BY <1>2, <1>3, <1>5, <1>6, <2>4, <3>1, <3>2, <3>3, DecidedExclusion, ZenonT(30)
  <2>5. Kind(n) \in {"union", "intersection", "exclusion"}
    BY <1>2, TreeFacts, ZenonT(30)
  <2> QED BY <2>2, <2>3, <2>4, <2>5, ZenonT(30)
<1>7. ~Left(n) /\ ~Finished(n)
  BY <1>1, NotFinished, ZenonT(30) DEF Left
<1>8. resp'[n] = r /\ pc'[n] \in {"leaving", "done"} /\ \A m \in Reducers : m # n => pc'[m] = pc[m]
  BY <1>1, <1>2, ZenonT(30) DEF Leave
<1>9. Onward
  BY <1>1, <1>8, ZenonT(30) DEF Onward, Left
<1>10. (Sound(n) \/ ContextDone(n))'
  BY <1>2, <1>5, <1>6, <1>8, <1>9, ReturnSound, ZenonT(30)
<1>11. /\ got' \in [Reducers -> Nat] /\ seen' \in [Reducers -> [err : BOOLEAN, cycle : BOOLEAN]]
       /\ out' \in [Reducers -> Seq(Nodes)] /\ IsInjective(out'[n])
  BY <1>1, ZenonT(30) DEF ReducerInv, TypeOK, ChannelsOK
<1> QED BY <1>1, <1>4, <1>7, <1>10, <1>11, LeaveInv, ZenonT(30)

(* A datastore read returns.                                               *)
LEMMA LeafReturnsInv ==
  ASSUME ReducersAssumption, ReducerInv, NEW l \in Leaves, LeafReturns(l)
  PROVE  ReducerInv'
<1>1. /\ UNCHANGED <<tree, does, cancelled, pc, next, gone, got, seen>>
      /\ handler[l] = "running" /\ TrySend(l)
  BY ZenonT(30) DEF LeafReturns
<1>2. PICK r \in LeafResponses(l) : resp' = [resp EXCEPT ![l] = r]
  BY ZenonT(30) DEF LeafReturns
<1>3. /\ tree \in Trees /\ l \in Nodes /\ l \notin Reducers /\ l # tree.root
      /\ resp \in [Nodes -> Responses \cup {None}]
  BY TreeFacts, ZenonT(30) DEF ReducerInv, TypeOK, Nodes
<1>4. \/ does[l] = "yes" /\ r = Allowed
      \/ does[l] = "no" /\ r = Denied(FALSE)
      \/ r = Denied(TRUE) \/ r = Error
  BY ZenonT(30) DEF LeafResponses
<1>5. r \in Responses /\ r # None
  <2>1. TRUE \in BOOLEAN /\ FALSE \in BOOLEAN
    BY ZenonT(30)
  <2> QED BY <1>4, <2>1, ResponseFacts, ZenonT(30)
<1>6. /\ resp' \in [Nodes -> Responses \cup {None}] /\ resp'[l] = r
      /\ \A m \in Nodes : m # l => resp'[m] = resp[m]
  BY <1>2, <1>3, <1>5, ZenonT(30)
<1>7. Onward
  BY <1>1, ZenonT(30) DEF Onward, Left
<1>8. /\ Error.err /\ Allowed.allowed /\ Denied(TRUE).cycle
      /\ ~Denied(FALSE).allowed /\ ~Denied(TRUE).allowed
  BY ZenonT(30) DEF Error, Denied, Allowed
<1>9. r.err \/ IF r.allowed THEN Decided(l, TRUE) ELSE r.cycle \/ Decided(l, FALSE)
  BY <1>3, <1>4, <1>8, DecidedLeaf, ZenonT(30)
<1>10. (Sound(l) \/ ContextDone(l))'
  BY <1>3, <1>6, <1>7, <1>9, ReturnSound, ZenonT(30)
<1> QED BY <1>1, <1>3, <1>5, <1>6, <1>10, TrySendInv, ZenonT(30)

(* A reducer that is an operand hands its response to the reducer above.   *)
LEMMA ReducerReturnsInv ==
  ASSUME ReducersAssumption, ReducerInv, NEW n \in Reducers, ReducerReturns(n)
  PROVE  ReducerInv'
<1>1. /\ UNCHANGED <<tree, does, cancelled, pc, next, resp, gone, got, seen>>
      /\ n # tree.root /\ pc[n] = "done" /\ handler[n] = "running" /\ TrySend(n)
  BY ZenonT(30) DEF ReducerReturns
<1>2. n \in Nodes /\ resp \in [Nodes -> Responses \cup {None}] /\ Left(n)
  BY <1>1, ZenonT(30) DEF ReducerInv, TypeOK, Nodes, Left
<1>3. resp[n] # None
  BY <1>2, ZenonT(30) DEF ReducerInv, CallsOK
<1>4. Onward
  BY <1>1, ZenonT(30) DEF Onward, Left
<1>5. (Sound(n) \/ ContextDone(n))'
  BY <1>1, <1>2, <1>4, SoundKept, ZenonT(30)
<1> QED BY <1>1, <1>2, <1>3, <1>5, TrySendInv, ZenonT(30)

(* The invariant holds when the request arrives.                           *)
LEMMA InitInv ==
  ASSUME ReducersAssumption, Init
  PROVE  ReducerInv
<1>1. /\ tree \in Trees /\ cancelled = FALSE /\ gone = {}
      /\ pc = [n \in Reducers |-> "idle"] /\ next = [n \in Reducers |-> 0]
      /\ handler = [n \in Nodes |-> IF n = tree.root THEN "running" ELSE "none"]
      /\ resp = [n \in Nodes |-> None]
      /\ out = [n \in Reducers |-> <<>>] /\ got = [n \in Reducers |-> 0]
      /\ seen = [n \in Reducers |-> [err |-> FALSE, cycle |-> FALSE]]
  BY ZenonT(30) DEF Init
<1>2. TypeOK
  <2>1. pc \in [Reducers -> {"idle", "start", "loop", "leaving", "done"}]
    BY <1>1, ZenonT(30)
  <2>2. next \in [Reducers -> Nat] /\ got \in [Reducers -> Nat]
    BY <1>1, ZenonT(30)
  <2>3. handler \in [Nodes -> {"none", "running", "sent", "dropped"}]
    BY <1>1, ZenonT(30)
  <2>4. resp \in [Nodes -> Responses \cup {None}]
    BY <1>1, ZenonT(30)
  <2>5. out \in [Reducers -> Seq(Nodes)]
    <3>1. <<>> \in Seq(Nodes)
      BY SMT, SMTT(30)
    <3> QED BY <1>1, <3>1, ZenonT(30)
  <2>6. seen \in [Reducers -> [err : BOOLEAN, cycle : BOOLEAN]]
    BY <1>1, ZenonT(30)
  <2>7. gone \subseteq Nodes /\ cancelled \in BOOLEAN
    BY <1>1, ZenonT(30)
  <2> QED BY <1>1, <2>1, <2>2, <2>3, <2>4, <2>5, <2>6, <2>7, ZenonT(30) DEF TypeOK
<1>3. \A n \in Reducers : Range(out[n]) = {} /\ IsInjective(out[n]) /\ n \in Nodes
  BY <1>1, SMT, SMTT(30) DEF Range, IsInjective, Nodes
<1>4. \A n \in Nodes : handler[n] \in {"running", "none"} /\ (n # tree.root => handler[n] = "none")
  BY <1>1, ZenonT(30)
<1>5. CallsOK
  <2> SUFFICES ASSUME NEW n \in Reducers
               PROVE  /\ ~Left(n) /\ next[n] < Len(Operands(n)) /\ got[n] = 0
                      /\ \A i \in (next[n] + 1)..Len(Operands(n)) : handler[Operands(n)[i]] = "none"
    BY ZenonT(30) DEF CallsOK
  <2>1. ~Left(n) /\ next[n] = 0 /\ got[n] = 0
    BY <1>1, ZenonT(30) DEF Left
  <2>2. Len(Operands(n)) \in Nat \ {0}
    BY <1>1, KidFacts, ZenonT(30)
  <2>3. \A c \in Kids(n) : c \in Nodes /\ c # tree.root
    <3>1. tree.above[tree.root] = {}
      BY <1>1, TreeFacts, ZenonT(30)
    <3>2. \A c \in Kids(n) : c \in Nodes /\ n \in tree.above[c]
      BY <1>1, KidFacts, SMT, SMTT(30)
    <3> QED BY <3>1, <3>2, ZenonT(30)
  <2>4. \A i \in 1..Len(Operands(n)) : handler[Operands(n)[i]] = "none"
    BY <1>1, <1>4, <2>3, KidFacts, ZenonT(30)
  <2>5. next[n] < Len(Operands(n)) /\ next[n] + 1 = 1
    BY <2>1, <2>2, SMT, SMTT(30)
  <2> QED BY <2>1, <2>4, <2>5, ZenonT(30)
<1>6. \A n \in Nodes : ~Finished(n) /\ handler[n] # "dropped" /\ handler[n] # "sent"
  BY <1>4, ZenonT(30) DEF Finished
<1>7. HandlersOK
  BY <1>6, ZenonT(30) DEF HandlersOK
<1>8. ChannelsOK
  BY <1>1, <1>3, ZenonT(30) DEF ChannelsOK
<1>9. \A n \in Reducers : Received(n) = {} /\ pc[n] # "loop"
  <2> SUFFICES ASSUME NEW n \in Reducers
               PROVE  Received(n) = {} /\ pc[n] # "loop"
    BY ZenonT(30)
  <2>1. Kids(n) \subseteq Nodes
    BY <1>1, KidFacts, ZenonT(30)
  <2>2. pc[n] # "loop"
    BY <1>1, ZenonT(30)
  <2> QED BY <1>6, <2>1, <2>2, ZenonT(30) DEF Received
<1>10. CountOK /\ HeardOK
  BY <1>9, ZenonT(30) DEF CountOK, HeardOK
<1>11. SoundOK
  BY <1>1, ZenonT(30) DEF SoundOK, Sound
<1> QED BY <1>2, <1>5, <1>7, <1>8, <1>10, <1>11, ZenonT(30) DEF ReducerInv

(* Every step keeps the invariant.                                         *)
LEMMA NextInv ==
  ASSUME ReducersAssumption, ReducerInv, [Next]_vars
  PROVE  ReducerInv'
<1>1. CASE Cancel
  BY <1>1, CancelInv, ZenonT(30)
<1>2. ASSUME NEW n \in Reducers, Reducer(n)
      PROVE  ReducerInv'
  BY <1>2, EnterInv, StartInv, InterruptedInv, ReceiveInv, ReceiveClosedInv, DropClosedInv, ConcludeInv,
     WaitInv, ReducerReturnsInv, ZenonT(30) DEF Reducer
<1>3. ASSUME NEW l \in Leaves, LeafReturns(l)
      PROVE  ReducerInv'
  BY <1>3, LeafReturnsInv, ZenonT(30)
<1>4. CASE UNCHANGED vars
  <2>1. UNCHANGED <<tree, does, cancelled, pc, next, handler, resp, out, gone, got, seen>>
    BY <1>4, ZenonT(30) DEF vars
  <2>2. /\ pc' \in [Reducers -> {"idle", "start", "loop", "leaving", "done"}]
        /\ got' \in [Reducers -> Nat] /\ gone' \subseteq Nodes
        /\ \A m \in Reducers : Left(m)' <=> Left(m)
    BY <2>1, ZenonT(30) DEF ReducerInv, TypeOK, Left
  <2>3. /\ TypeOK' /\ CallsOK' /\ HandlersOK' /\ HeardOK' /\ SoundOK'
        /\ \A m : Received(m)' = Received(m)
        /\ \A m \in Nodes : ContextDone(m) => ContextDone(m)'
    BY <2>1, <2>2, CalmInv, ZenonT(30)
  <2>4. Reducers' = Reducers /\ \A m : Kids(m)' = Kids(m)
    BY <2>1, TreeFrame, ZenonT(30)
  <2>5. CountOK'
    BY <2>1, <2>3, <2>4, ZenonT(30) DEF ReducerInv, CountOK, Nodes
  <2>6. ChannelsOK'
    BY <2>1, <2>4, ZenonT(30) DEF ReducerInv, ChannelsOK, Finished
  <2> QED BY <2>3, <2>5, <2>6, ZenonT(30) DEF ReducerInv
<1> QED BY <1>1, <1>2, <1>3, <1>4, ZenonT(30) DEF Next

(* So it holds always.                                                     *)
LEMMA Invariant == ASSUME ReducersAssumption PROVE Spec => []ReducerInv
<1>1. Init => ReducerInv
  BY InitInv, ZenonT(30)
<1>2. ReducerInv /\ [Next]_vars => ReducerInv'
  BY NextInv, ZenonT(30)
<1> QED BY <1>1, <1>2, PTL DEF Spec

(* In every reachable state the response of a node is decided by the       *)
(* leaves that answered, unless the context it was called with is done:    *)
(* only a reducer that is no longer waited for can return a wrong one.     *)
THEOREM OnlyCutShortUnsound == ASSUME ReducersAssumption PROVE Spec => []SoundOK
<1>1. Spec => []ReducerInv
  BY Invariant
<1>2. ReducerInv => SoundOK
  BY ZenonT(30) DEF ReducerInv
<1> QED BY <1>1, <1>2, PTL

(* The answer of Check to a request that was not cancelled is the value of *)
(* the rewrite, whatever the leaves that failed, were too slow or found a  *)
(* cycle would have answered, for every finite tree of unions,             *)
(* intersections and exclusions, every limit on the handlers, in both      *)
(* versions, and in whichever order outcomes arrive, channels are closed   *)
(* and operands are cut short.                                             *)
THEOREM AnswersSound == ASSUME ReducersAssumption PROVE Spec => []AnswerSound
<1>1. Spec => []ReducerInv
  BY Invariant
<1>2. ReducerInv => AnswerSound
  <2> SUFFICES ASSUME ReducerInv, ~cancelled PROVE Sound(tree.root)
    BY ZenonT(30) DEF AnswerSound
  <2>1. tree.root \in Nodes /\ tree.above[tree.root] = {}
    BY TreeFacts, ZenonT(30) DEF ReducerInv, TypeOK, Nodes
  <2>2. ~ContextDone(tree.root)
    BY <2>1, ZenonT(30) DEF ContextDone
  <2> QED BY <2>1, <2>2, ZenonT(30) DEF ReducerInv, SoundOK
<1> QED BY <1>1, <1>2, PTL

=============================================================================
