--------------------------- MODULE Relationships ---------------------------
(***************************************************************************)
(* What a model and a set of tuples mean, stated without any of the        *)
(* traversals, pruning or caching of the resolvers: the reference the      *)
(* answers of Check, ListObjects, ListUsers and Expand are compared with.  *)
(***************************************************************************)
EXTENDS Typesystem

\* Relations some tuple could give a user, as a least fixpoint: the
\* reference for hasEntrypoints.
RECURSIVE ProductiveRewrite(_, _, _, _, _), ProductiveFrom(_, _)
ProductiveRewrite(ts, t, r, rw, known) ==
  CASE rw.k = "this" ->
         \E i \in DOMAIN ts.rels[t][r].types :
           LET ref == ts.rels[t][r].types[i]
           IN ref.rel \in {"", "*"} \/ <<ref.type, ref.rel>> \in known
    [] rw.k = "computed" -> <<t, rw.rel>> \in known
    [] rw.k = "ttu" -> \E i \in DOMAIN ComputedTargets(ts, t, rw) :
                         <<ComputedTargets(ts, t, rw)[i].type, rw.computed>> \in known
    [] rw.k = "union" -> \E i \in DOMAIN rw.kids : ProductiveRewrite(ts, t, r, rw.kids[i], known)
    [] OTHER -> \A i \in DOMAIN rw.kids : ProductiveRewrite(ts, t, r, rw.kids[i], known)

AllRelations(ts) == UNION {{t} \X DOMAIN ts.rels[t] : t \in DOMAIN ts.rels}

ProductiveFrom(ts, known) ==
  LET more == {tr \in AllRelations(ts) :
                 ProductiveRewrite(ts, tr[1], tr[2], Rewrite(ts, tr[1], tr[2]), known)}
  IN IF more = known THEN known ELSE ProductiveFrom(ts, more)

Productive(ts) == ProductiveFrom(ts, {})

(***************************************************************************)
(* Holds(ts, tuples, o, r, u): u has relation r with o, where tuples is    *)
(* the set of tuples that count (valid under the model, condition met).    *)
(* The path of usersets under evaluation is the only thing carried, so a   *)
(* userset that leads back to itself contributes nothing.                  *)
(***************************************************************************)
RECURSIVE HoldsOn(_, _, _, _, _, _), HoldsRewrite(_, _, _, _, _, _, _)
HoldsOn(ts, tuples, o, r, u, path) ==
  \/ u = [type |-> o.type, id |-> o.id, rel |-> r]
  \/ /\ <<o, r>> \notin path
     /\ HasRelation(ts, o.type, r)
     /\ HoldsRewrite(ts, tuples, o, r, u, Rewrite(ts, o.type, r), path \cup {<<o, r>>})

HoldsRewrite(ts, tuples, o, r, u, rw, path) ==
  CASE rw.k = "this" ->
         \E tk \in tuples :
           /\ tk.obj = o /\ tk.rel = r
           /\ \/ tk.user = u
              \/ IsTypedWildcard(tk.user) /\ ~IsObjectRelation(u) /\ tk.user.type = u.type
              \/ /\ IsObjectRelation(tk.user)
                 /\ HoldsOn(ts, tuples, [type |-> tk.user.type, id |-> tk.user.id], tk.user.rel, u, path)
    [] rw.k = "computed" -> HoldsOn(ts, tuples, o, rw.rel, u, path)
    [] rw.k = "ttu" ->
         \E tk \in tuples :
           /\ tk.obj = o /\ tk.rel = rw.tupleset
           /\ HoldsOn(ts, tuples, [type |-> tk.user.type, id |-> tk.user.id], rw.computed, u, path)
    [] rw.k = "union" -> \E i \in DOMAIN rw.kids : HoldsRewrite(ts, tuples, o, r, u, rw.kids[i], path)
    [] rw.k = "inter" -> \A i \in DOMAIN rw.kids : HoldsRewrite(ts, tuples, o, r, u, rw.kids[i], path)
    [] OTHER -> /\ HoldsRewrite(ts, tuples, o, r, u, rw.kids[1], path)
                /\ ~HoldsRewrite(ts, tuples, o, r, u, rw.kids[2], path)

Holds(ts, tuples, o, r, u) == HoldsOn(ts, tuples, o, r, u, {})
=============================================================================
