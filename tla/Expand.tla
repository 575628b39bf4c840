------------------------------- MODULE Expand -------------------------------
(***************************************************************************)
(* Expand (pkg/server/commands/expand.go): one level of the users that     *)
(* have a relation with an object, as a tree.  A node is a leaf of users,  *)
(* the usersets a computed relation or a tuple-to-userset stands for (k =  *)
(* "computed", usersets), or an operator over nodes.  Conditions are not   *)
(* evaluated.  A read that fails fails the whole tree: "error".            *)
(***************************************************************************)
EXTENDS TupleReads

NodeError == [k |-> "error"]
Userset(o, r) == [type |-> o.type, id |-> o.id, rel |-> r]

\* Mutant: tuples the model no longer allows are shown.
resolveThisUnfiltered(q, o, r) ==
  IF r \in q.broken THEN NodeError
  ELSE [k |-> "users", users |-> {t.user : t \in CombinedRead(q.rd, Filter(o, r, NoUser, {}))}]

resolveThis(q, o, r) ==
  IF r \in q.broken THEN NodeError
  ELSE [k |-> "users",
        users |-> {t.user : t \in FilterInvalidTuples(q.ts, CombinedRead(q.rd, Filter(o, r, NoUser, {})))}]

resolveComputedUserset(o, rw) == [k |-> "computed", usersets |-> {Userset(o, rw.rel)}]

\* A user with a relation of its own keeps it.
resolveTupleToUserset(q, o, rw) ==
  IF rw.tupleset \in q.broken THEN NodeError
  ELSE [k |-> "computed",
        usersets |-> {Userset(t.user, IF t.user.rel = "" THEN rw.computed ELSE t.user.rel) :
                        t \in FilterInvalidTuples(q.ts,
                                CombinedRead(q.rd, Filter(o, rw.tupleset, NoUser, {})))}]

RECURSIVE resolveUserset(_, _, _, _)
\* resolveUsersets: the operands resolve concurrently, the first error wins.
resolveUsersets(q, o, r, rw) ==
  LET nodes == [i \in DOMAIN rw.kids |-> resolveUserset(q, o, r, rw.kids[i])]
  IN IF \E i \in DOMAIN nodes : nodes[i] = NodeError THEN NodeError
     ELSE [k |-> rw.k, nodes |-> nodes]

resolveUserset(q, o, r, rw) ==
  CASE rw.k = "this" -> resolveThis(q, o, r)
    [] rw.k = "computed" -> resolveComputedUserset(o, rw)
    [] rw.k = "ttu" -> resolveTupleToUserset(q, o, rw)
    [] OTHER -> resolveUsersets(q, o, r, rw)

ExpandQuery(q, o, r) ==
  IF /\ \A t \in q.rd.ctx : ValidateTupleForWrite(q.ts, t)
     /\ ValidateObject(q.ts, o)
     /\ ValidateRelation(q.ts, o, r)
  THEN resolveUserset(q, o, r, Rewrite(q.ts, o.type, r))
  ELSE [k |-> "invalid"]
=============================================================================
