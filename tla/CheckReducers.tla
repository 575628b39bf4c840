---------------------------- MODULE CheckReducers ----------------------------
(***************************************************************************)
(* The reducers of Check: union, intersection and exclusion of the local   *)
(* checker (version 1) and ResolveUnionEdges, ResolveIntersection and      *)
(* ResolveExclusion of the weighted-graph resolver (version 2), nested as  *)
(* the rewrites of a relation are. A reducer runs a handler per operand in *)
(* a goroutine, combines the outcomes that arrive on a channel, and        *)
(* cancels the handlers' context when it returns.                          *)
(*                                                                         *)
(* A leaf is a datastore read. What it will do is fixed: answer yes or no, *)
(* fail, detect a cycle, or (slow) answer only when its context is done.   *)
(* An edge whose response is in the cache is a leaf that answers.          *)
(***************************************************************************)
EXTENDS Naturals, Sequences, FiniteSets, Functions

CONSTANTS
  Trees,     \* records [version, limit, mayCancel, root, kind, operands, above, may]
  None

VARIABLES
  tree,      \* the rewrite
  does,      \* what each leaf does
  cancelled, \* the context of the request is done: timeout, client gone
  pc,        \* where the goroutine of a reducer is
  next,      \* handlers it has started
  handler,   \* the goroutine of a node's handler
  resp,      \* what a node has returned
  out,       \* the outcomes in the channel of a reducer
  gone,      \* operands of an exclusion whose channel was found closed
  got,       \* iterations of the receive loop
  seen       \* errors and cycles among the outcomes received

vars == <<tree, does, cancelled, pc, next, handler, resp, out, gone, got, seen>>

Kind(n) == tree.kind[n]
Operands(n) == tree.operands[n]
Version == tree.version
Reducers == DOMAIN tree.operands
Leaves == DOMAIN tree.may
Nodes == Reducers \cup Leaves
Kids(n) == Range(Operands(n))
Parent(c) == CHOOSE n \in Reducers : c \in Kids(n)

(* A finite tree: every operand has one reducer, and above a node are the  *)
(* reducers whose contexts it was called with.                             *)
TreeOK(t) ==
  LET reducers == DOMAIN t.operands
      leaves   == DOMAIN t.may
  IN /\ t.version \in {1, 2} /\ t.limit \in Nat \ {0} /\ t.mayCancel \in BOOLEAN
     /\ IsFiniteSet(reducers) /\ reducers \cap leaves = {} /\ t.root \in reducers
     /\ t.kind \in [reducers -> {"union", "intersection", "exclusion"}]
     /\ t.above \in [reducers \cup leaves -> SUBSET reducers] /\ t.above[t.root] = {}
     /\ \A n \in reducers :
          /\ t.operands[n] \in Seq(reducers \cup leaves) /\ Len(t.operands[n]) > 0
          /\ t.kind[n] = "exclusion" => Len(t.operands[n]) <= 2
          /\ IsInjective(t.operands[n])
          /\ n \notin t.above[n]
          /\ \A i \in DOMAIN t.operands[n] : t.above[t.operands[n][i]] = t.above[n] \cup {n}
     /\ \A n, m \in reducers : Range(t.operands[n]) \cap Range(t.operands[m]) # {} => n = m
     /\ \A c \in (reducers \cup leaves) \ {t.root} : \E n \in reducers : c \in Range(t.operands[n])

(* None is not a response.                                                 *)
ReducersAssumption ==
  /\ \A t \in Trees : TreeOK(t)
  /\ None \notin [err : BOOLEAN, allowed : BOOLEAN, cycle : BOOLEAN]

----------------------------------------------------------------------------
(* The value of a node when the leaves have these values.                  *)
ValueOf(m, v, a) ==
  CASE m \in Leaves -> a[m]
    [] m \notin Leaves /\ Kind(m) = "union" -> \E c \in Kids(m) : v[c]
    [] m \notin Leaves /\ Kind(m) = "intersection" -> \A c \in Kids(m) : v[c]
    [] OTHER -> v[Operands(m)[1]] /\ (Len(Operands(m)) = 2 => ~v[Operands(m)[2]])
Value(n, a) == LET v[m \in Nodes] == ValueOf(m, v, a) IN v[n]

(* Every value of the leaves that did not answer gives the node this one.  *)
Decided(n, b) ==
  \A a \in [Leaves -> BOOLEAN] :
    (\A l \in Leaves : (does[l] = "yes" => a[l]) /\ (does[l] = "no" => ~a[l])) => Value(n, a) = b

(* A slow leaf the answer depends on needs the timeout of the request.     *)
Answerable ==
  \/ tree.mayCancel \/ \A l \in Leaves : does[l] # "slow"
  \/ Decided(tree.root, TRUE) \/ Decided(tree.root, FALSE)

Init ==
  /\ tree \in Trees
  /\ does \in [Leaves -> UNION Range(tree.may)] /\ (\A l \in Leaves : does[l] \in tree.may[l])
  /\ Answerable
  /\ cancelled = FALSE
  /\ pc = [n \in Reducers |-> "idle"] /\ next = [n \in Reducers |-> 0]
  /\ handler = [n \in Nodes |-> IF n = tree.root THEN "running" ELSE "none"]
  /\ resp = [n \in Nodes |-> None]
  /\ out = [n \in Reducers |-> <<>>] /\ gone = {}
  /\ got = [n \in Reducers |-> 0]
  /\ seen = [n \in Reducers |-> [err |-> FALSE, cycle |-> FALSE]]

(* Mutant: a reducer that returns does not cancel its handlers. *)
ContextDoneOuter(n) == cancelled

(* The context node n was called with is done: a reducer above has         *)
(* returned, or the request is over.                                       *)
ContextDone(n) == cancelled \/ \E a \in tree.above[n] : pc[a] \in {"leaving", "done"}

Cancel ==
  /\ tree.mayCancel /\ ~cancelled /\ resp[tree.root] = None
  /\ cancelled' = TRUE
  /\ UNCHANGED <<tree, does, pc, next, handler, resp, out, gone, got, seen>>

----------------------------------------------------------------------------
Error == [err |-> TRUE, allowed |-> FALSE, cycle |-> FALSE]
Allowed == [err |-> FALSE, allowed |-> TRUE, cycle |-> FALSE]
Denied(cycle) == [err |-> FALSE, allowed |-> FALSE, cycle |-> cycle]

(* Handlers.                                                               *)

LeafResponses(l) ==
  (CASE does[l] = "yes" -> {Allowed} [] does[l] = "no" -> {Denied(FALSE)}
     [] does[l] = "cycle" -> {Denied(TRUE)} [] does[l] = "fail" -> {Error}
     [] OTHER -> {}) \cup (IF ContextDone(l) THEN {Error} ELSE {})

(* TrySendThroughChannel: when the context is done too, either case.       *)
TrySend(c) ==
  \/ /\ handler' = [handler EXCEPT ![c] = "sent"]
     /\ out' = [out EXCEPT ![Parent(c)] = Append(@, c)]
  \/ /\ ContextDone(c)
     /\ handler' = [handler EXCEPT ![c] = "dropped"] /\ UNCHANGED out

LeafReturns(l) ==
  /\ l \in Leaves /\ handler[l] = "running"
  /\ \E r \in LeafResponses(l) : resp' = [resp EXCEPT ![l] = r]
  /\ TrySend(l)
  /\ UNCHANGED <<tree, does, cancelled, pc, next, gone, got, seen>>

ReducerReturns(n) ==
  /\ n # tree.root /\ pc[n] = "done" /\ handler[n] = "running"
  /\ TrySend(n)
  /\ UNCHANGED <<tree, does, cancelled, pc, next, resp, gone, got, seen>>

Finished(c) == handler[c] \in {"sent", "dropped"}

----------------------------------------------------------------------------
(* Reducers.                                                               *)

(* Version 2 waits for its handlers once their context is cancelled.       *)
Leave(n, r) ==
  /\ resp' = [resp EXCEPT ![n] = r]
  /\ pc' = [pc EXCEPT ![n] = IF Version = 1 THEN "done" ELSE "leaving"]

Enter(n) ==
  /\ pc[n] = "idle" /\ handler[n] = "running"
  /\ IF Version = 1 /\ ContextDone(n)
       THEN Leave(n, Error)
       ELSE pc' = [pc EXCEPT ![n] = "start"] /\ UNCHANGED resp
  /\ UNCHANGED <<tree, does, cancelled, next, handler, out, gone, got, seen>>

Busy(n) == {c \in Kids(n) : handler[c] = "running"}

(* The next handler is started; the pool of a union or intersection blocks *)
(* when it is full.                                                        *)
Start(n) ==
  /\ pc[n] = "start"
  /\ Kind(n) = "exclusion" \/ Cardinality(Busy(n)) < tree.limit
  /\ handler' = [handler EXCEPT ![Operands(n)[next[n] + 1]] = "running"]
  /\ next' = [next EXCEPT ![n] = @ + 1]
  /\ pc' = [pc EXCEPT ![n] = IF next'[n] = Len(Operands(n)) THEN "loop" ELSE "start"]
  /\ UNCHANGED <<tree, does, cancelled, resp, out, gone, got, seen>>

Looping(n) == pc[n] = "loop" /\ got[n] < Len(Operands(n))

Interrupted(n) ==
  /\ Looping(n) /\ ContextDone(n) /\ Leave(n, Error)
  /\ UNCHANGED <<tree, does, cancelled, next, handler, out, gone, got, seen>>

NoSubtract(n) == Len(Operands(n)) = 1 \/ Operands(n)[2] \in gone
Subtracted(n, c) == Kind(n) = "exclusion" /\ c # Operands(n)[1]

(* Mutant: a cycle below the subtracted operand counts as a no. *)
DecisionNoCycle(n, c) ==
  LET r == resp[c] IN
  CASE r.err -> IF Version = 2 /\ Kind(n) # "union" THEN Error ELSE None
    [] ~r.err /\ Kind(n) = "union" -> IF r.allowed THEN r ELSE None
    [] ~r.err /\ Subtracted(n, c) -> IF r.allowed THEN Denied(r.cycle) ELSE None
    [] OTHER -> IF r.cycle \/ ~r.allowed THEN Denied(r.cycle)
                ELSE IF Version = 2 /\ Kind(n) = "exclusion" /\ NoSubtract(n) THEN r ELSE None

(* What the reducer returns at once for the outcome of operand c, or None. *)
Decision(n, c) ==
  LET r == resp[c] IN
  CASE r.err -> IF Version = 2 /\ Kind(n) # "union" THEN Error ELSE None
    [] ~r.err /\ Kind(n) = "union" -> IF r.allowed THEN r ELSE None
    [] ~r.err /\ Subtracted(n, c) -> IF r.cycle \/ r.allowed THEN Denied(r.cycle) ELSE None
    [] OTHER -> IF r.cycle \/ ~r.allowed THEN Denied(r.cycle)
                ELSE IF Version = 2 /\ Kind(n) = "exclusion" /\ NoSubtract(n) THEN r ELSE None

(* The outcomes left when the i-th is received.                            *)
Rest(s, i) == SubSeq(s, 1, i - 1) \o SubSeq(s, i + 1, Len(s))

(* An exclusion has a channel for each operand, the others one for all.    *)
Receive(n) ==
  /\ Looping(n)
  /\ \E i \in DOMAIN out[n] :
       LET c == out[n][i] IN
       /\ Kind(n) = "exclusion" \/ i = 1
       /\ out' = [out EXCEPT ![n] = Rest(@, i)]
       /\ got' = [got EXCEPT ![n] = @ + 1]
       /\ seen' = [seen EXCEPT ![n] = [err |-> @.err \/ resp[c].err, cycle |-> @.cycle \/ resp[c].cycle]]
       /\ IF Decision(n, c) # None THEN Leave(n, Decision(n, c)) ELSE UNCHANGED <<resp, pc>>
  /\ UNCHANGED <<tree, does, cancelled, next, handler, gone>>

(* Version 1 closes the channel of a union or intersection when its        *)
(* handlers are through; receiving from it takes an iteration.             *)
ReceiveClosed(n) ==
  /\ Looping(n) /\ Version = 1 /\ Kind(n) # "exclusion"
  /\ out[n] = <<>> /\ \A c \in Kids(n) : Finished(c)
  /\ got' = [got EXCEPT ![n] = @ + 1]
  /\ UNCHANGED <<tree, does, cancelled, pc, next, handler, resp, out, gone, seen>>

(* An exclusion stops selecting a closed channel.                          *)
DropClosed(n) ==
  /\ Looping(n) /\ Kind(n) = "exclusion"
  /\ \E c \in Kids(n) \ (gone \cup Range(out[n])) : Finished(c) /\ gone' = gone \cup {c}
  /\ UNCHANGED <<tree, does, cancelled, pc, next, handler, resp, out, got, seen>>

(* All outcomes were received and none decided.                            *)
Conclude(n) ==
  /\ pc[n] = "loop" /\ got[n] = Len(Operands(n))
  /\ Leave(n, IF seen[n].err \/ (Version = 2 /\ Kind(n) = "union" /\ ContextDone(n)) THEN Error
              ELSE IF Kind(n) = "union" THEN Denied(seen[n].cycle) ELSE Allowed)
  /\ UNCHANGED <<tree, does, cancelled, next, handler, out, gone, got, seen>>

WaitForHandlers(n) ==
  /\ pc[n] = "leaving" /\ Busy(n) = {}
  /\ pc' = [pc EXCEPT ![n] = "done"]
  /\ UNCHANGED <<tree, does, cancelled, next, handler, resp, out, gone, got, seen>>

Reducer(n) ==
  \/ Enter(n) \/ Start(n) \/ Interrupted(n) \/ Receive(n) \/ ReceiveClosed(n)
  \/ DropClosed(n) \/ Conclude(n) \/ WaitForHandlers(n) \/ ReducerReturns(n)

Next == Cancel \/ (\E n \in Reducers : Reducer(n)) \/ (\E l \in Leaves : LeafReturns(l))

Spec == Init /\ [][Next]_vars

(* Every step is progress of some goroutine, so that it is enough that     *)
(* some goroutine that can run does; the timeout of a request expires.     *)
FairSpec == Spec /\ WF_vars(Next)

----------------------------------------------------------------------------
(* A response without an error is the value of the rewrite whatever the    *)
(* leaves that failed, were too slow or found a cycle would have answered; *)
(* a denial that carries the cycle flag claims nothing.                    *)
Sound(n) ==
  resp[n] # None /\ ~resp[n].err =>
    IF resp[n].allowed THEN Decided(n, TRUE) ELSE resp[n].cycle \/ Decided(n, FALSE)

(* The answer to a request that was not cancelled is right, in whichever   *)
(* order outcomes arrive and operands are cut short.                       *)
AnswerSound == ~cancelled => Sound(tree.root)

(* A reducer, cancelled or not, returns an allowed or denied response only *)
(* when its operands have that value: an intersection "requires all of the *)
(* provided CheckHandlerFunc to resolve to an allowed outcome". The        *)
(* response of a relation is cached, also when its caller has gone.        *)
ReducerSound == \A n \in Reducers : Sound(n)

(* The request has returned and has left no goroutine behind: slow reads   *)
(* that do not matter to the answer are cancelled.                         *)
Ended == resp[tree.root] # None /\ \A n \in Nodes \ {tree.root} : handler[n] # "running"
=============================================================================
