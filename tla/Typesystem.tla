----------------------------- MODULE Typesystem -----------------------------
(***************************************************************************)
(* Authorization models, as pkg/typesystem/typesystem.go reads and         *)
(* validates them, the validation of tuples against a model                *)
(* (internal/validation) and the relationship edges of internal/graph.     *)
(*                                                                         *)
(* A written model is [schema, types, conds]: a sequence of type           *)
(* definitions [name, rels], rels a function from relation names to        *)
(* [rw, types], and a set of conditions [key, name, compiles].  A type     *)
(* restriction is [type, rel, cond] with rel "" for `user', "*" for        *)
(* `user:*' and a relation for `group#member'.  A rewrite is a record with *)
(* a kind k: "this", "computed" (rel), "ttu" (tupleset, computed) or one   *)
(* of the operators "union", "inter", "diff" over the sequence kids.       *)
(*                                                                         *)
(* An object is [type, id], a user [type, id, rel] (rel "" unless it is a  *)
(* userset, id "*" for the typed wildcard), a tuple [obj, rel, user, cond].*)
(***************************************************************************)
EXTENDS Naturals, Sequences, FiniteSets, SequencesExt, TLC

Operators == {"union", "inter", "diff"}
SupportedSchemas == {"1.1", "1.2"}
ReservedNames == {"", "self", "this"}

(***************************************************************************)
(* Construction and lookups.  TS is the typesystem of a written model: its *)
(* relations by type and name, and its conditions.                         *)
(***************************************************************************)
NewWithoutGraphs(model) ==
  LET last(t) == CHOOSE i \in DOMAIN model.types :
                    /\ model.types[i].name = t
                    /\ \A j \in DOMAIN model.types : model.types[j].name = t => j <= i
  IN [ rels  |-> [t \in {model.types[i].name : i \in DOMAIN model.types} |->
                    model.types[last(t)].rels],
       conds |-> {c.key : c \in model.conds} ]

HasRelation(ts, t, r) == t \in DOMAIN ts.rels /\ r \in DOMAIN ts.rels[t]
Rewrite(ts, t, r) == ts.rels[t][r].rw

\* The type restrictions of t#r, none when the relation is undefined.
GetDirectlyRelatedUserTypes(ts, t, r) ==
  IF HasRelation(ts, t, r) THEN ts.rels[t][r].types ELSE <<>>

Usersets(refs) == SelectSeq(refs, LAMBDA x : x.rel \notin {"", "*"})
DirectlyRelatedUsersets(ts, t, r) == Usersets(GetDirectlyRelatedUserTypes(ts, t, r))

\* RelationEquals leaves the condition of the restriction out.
RelationEquals(a, b) == a.type = b.type /\ a.rel = b.rel
IsDirectlyRelated(ts, t, r, source) ==
  \E i \in DOMAIN GetDirectlyRelatedUserTypes(ts, t, r) :
    RelationEquals(source, ts.rels[t][r].types[i])
IsPubliclyAssignable(ts, t, r, userType) ==
  IsDirectlyRelated(ts, t, r, [type |-> userType, rel |-> "*"])

\* WalkUsersetRewrite: the nodes of a rewrite, from the root down.
RECURSIVE WalkUsersetRewrite(_)
WalkUsersetRewrite(rw) ==
  {rw} \cup IF rw.k \in Operators
            THEN UNION {WalkUsersetRewrite(rw.kids[i]) : i \in DOMAIN rw.kids}
            ELSE {}

RewriteContainsSelf(rw) == \E n \in WalkUsersetRewrite(rw) : n.k = "this"
flattenUserset(rw) == {n \in WalkUsersetRewrite(rw) : n.k = "ttu"}

IsTuplesetRelation(ts, t, r) ==
  /\ HasRelation(ts, t, r)
  /\ \E s \in DOMAIN ts.rels[t] :
       \E n \in flattenUserset(Rewrite(ts, t, s)) : n.tupleset = r

\* The relations `computed from tupleset' leads to, on the types that define it.
ComputedTargets(ts, t, rw) ==
  LET refs == SelectSeq(GetDirectlyRelatedUserTypes(ts, t, rw.tupleset),
                        LAMBDA x : HasRelation(ts, x.type, rw.computed))
  IN [i \in DOMAIN refs |-> [type |-> refs[i].type, rel |-> rw.computed]]

(***************************************************************************)
(* hasEntrypoints.  visited maps a type to a map of its relations; the     *)
(* outer map is cloned at every call, the inner maps are shared by         *)
(* reference, so v holds references into the heap h, and the heap is       *)
(* threaded through the calls.  The outcome is "entry", "none", "loop" or  *)
(* "malformed" (an operator with fewer than two operands).                 *)
(***************************************************************************)
Enter(v, h, t, r) ==
  IF t \in DOMAIN v
  THEN [v |-> v, h |-> [h EXCEPT ![v[t]] = (r :> FALSE) @@ @]]
  ELSE [v |-> (t :> Len(h) + 1) @@ v, h |-> Append(h, r :> FALSE)]

Visited(v, h, t, r) == t \in DOMAIN v /\ r \in DOMAIN h[v[t]]

RECURSIVE hasEntrypoints(_, _, _, _, _, _), AnyEntry(_, _, _, _, _), OperandEntries(_, _, _, _, _, _, _)

\* The loop over the relations a restriction list leads to: the first one
\* with an entrypoint decides.  A visited one is skipped, except that a
\* tuple-to-userset trusts a stored TRUE.
AnyEntry(ts, targets, v, h, trust) ==
  IF targets = <<>> THEN [res |-> "none", h |-> h]
  ELSE LET t == Head(targets).type
           r == Head(targets).rel
       IN IF Visited(v, h, t, r)
          THEN IF trust /\ h[v[t]][r] THEN [res |-> "entry", h |-> h]
               ELSE AnyEntry(ts, Tail(targets), v, h, trust)
          ELSE LET sub == hasEntrypoints(ts, t, r, Rewrite(ts, t, r), v, h)
               IN IF sub.res \in {"entry", "malformed"} THEN sub
                  ELSE AnyEntry(ts, Tail(targets), v, sub.h, trust)

\* The operands of a union, intersection or difference get the caller's map.
OperandEntries(ts, t, r, rw, v, h, seen) ==
  IF Len(seen) = Len(rw.kids)
  THEN [res |-> IF rw.k # "union" THEN "entry"
                ELSE IF \E i \in DOMAIN seen : seen[i] = "loop" THEN "loop" ELSE "none",
        h |-> h]
  ELSE LET sub == hasEntrypoints(ts, t, r, rw.kids[Len(seen) + 1], v, h)
           stop == IF rw.k = "union" THEN {"entry", "malformed"}
                                     ELSE {"none", "loop", "malformed"}
       IN IF sub.res \in stop THEN sub
          ELSE OperandEntries(ts, t, r, rw, v, sub.h, Append(seen, sub.res))

hasEntrypoints(ts, t, r, rw, visited, heap) ==
  LET e == Enter(visited, heap, t, r)
      refs == GetDirectlyRelatedUserTypes(ts, t, r)
      plain == {i \in DOMAIN refs : refs[i].rel \in {"", "*"}}
      first == CHOOSE i \in plain : \A j \in plain : i <= j
  IN CASE rw.k = "this" ->
            LET before == AnyEntry(ts, IF plain = {} THEN refs ELSE SubSeq(refs, 1, first - 1),
                                   e.v, e.h, FALSE)
            IN IF before.res # "none" \/ plain = {} THEN before
               ELSE [res |-> "entry", h |-> [before.h EXCEPT ![e.v[t]][r] = TRUE]]
       [] rw.k = "computed" ->
            IF Visited(e.v, e.h, t, rw.rel)
            THEN [res |-> IF e.h[e.v[t]][rw.rel] THEN "entry" ELSE "loop", h |-> e.h]
            ELSE hasEntrypoints(ts, t, rw.rel, Rewrite(ts, t, rw.rel), e.v, e.h)
       [] rw.k = "ttu" ->
            AnyEntry(ts, ComputedTargets(ts, t, rw), e.v, e.h, TRUE)
       [] OTHER ->
            IF Len(rw.kids) < 2 THEN [res |-> "malformed", h |-> e.h]
            ELSE OperandEntries(ts, t, r, rw, visited, e.h, <<>>)

(***************************************************************************)
(* Validation of a model.                                                  *)
(***************************************************************************)
RECURSIVE hasCycle(_, _, _, _)
\* Mutant: the rewrite of a computed relation, and operands, are not followed.
hasCycleAtOnce(ts, t, rw, visited) == rw.k = "computed" /\ rw.rel \in visited

\* A relation of t that reaches itself through computed relations; the
\* visited set is cloned on the way down, so it is the path.
hasCycle(ts, t, rw, visited) ==
  CASE rw.k \in {"this", "ttu"} -> FALSE
    [] rw.k = "computed" ->
         rw.rel \in visited \/ hasCycle(ts, t, Rewrite(ts, t, rw.rel), visited \cup {rw.rel})
    [] OTHER -> \E i \in DOMAIN rw.kids : hasCycle(ts, t, rw.kids[i], visited)

HasCycle(ts, t, r) == hasCycle(ts, t, Rewrite(ts, t, r), {r})

isUsersetRewriteValid(ts, t, r, rw) ==
  \A n \in WalkUsersetRewrite(rw) :
    CASE n.k = "computed" -> n.rel # r /\ HasRelation(ts, t, n.rel)
      [] n.k = "ttu" ->
           /\ HasRelation(ts, t, n.tupleset)
           /\ Rewrite(ts, t, n.tupleset).k = "this"
           /\ \E i \in DOMAIN ts.rels[t][n.tupleset].types :
                HasRelation(ts, ts.rels[t][n.tupleset].types[i].type, n.computed)
      [] OTHER -> TRUE

validateTypeRestrictions(ts, t, r) ==
  LET refs == ts.rels[t][r].types
  IN /\ RewriteContainsSelf(Rewrite(ts, t, r)) <=> refs # <<>>
     /\ \A i \in DOMAIN refs :
          /\ refs[i].type \in DOMAIN ts.rels
          /\ refs[i].rel # "" => ~IsTuplesetRelation(ts, t, r)
          /\ refs[i].rel \notin {"", "*"} => HasRelation(ts, refs[i].type, refs[i].rel)
          /\ refs[i].cond # "" => refs[i].cond \in ts.conds

\* The first rule the relation breaks, "ok" when it breaks none.
validateRelation(ts, t, r) ==
  IF ~isUsersetRewriteValid(ts, t, r, Rewrite(ts, t, r)) THEN "rewrite"
  ELSE IF ~validateTypeRestrictions(ts, t, r) THEN "restrictions"
  ELSE LET e == hasEntrypoints(ts, t, r, Rewrite(ts, t, r), << >>, << >>).res
       IN IF e # "entry" THEN e
          ELSE IF HasCycle(ts, t, r) THEN "cycle" ELSE "ok"

containsDuplicateType(model) ==
  \E i, j \in DOMAIN model.types : i # j /\ model.types[i].name = model.types[j].name

validateNames(ts) ==
  \A t \in DOMAIN ts.rels : t \notin ReservedNames /\ DOMAIN ts.rels[t] \cap ReservedNames = {}

validateConditions(model) == \A c \in model.conds : c.key = c.name /\ c.compiles

\* TRUE when the model is accepted.  The relations are validated in sorted
\* order only so that the same error is reported every time.
NewAndValidate(model) ==
  LET ts == NewWithoutGraphs(model)
  IN /\ model.schema \in SupportedSchemas
     /\ ~containsDuplicateType(model)
     /\ validateNames(ts)
     /\ \A t \in DOMAIN ts.rels : \A r \in DOMAIN ts.rels[t] : validateRelation(ts, t, r) = "ok"
     /\ validateConditions(model)

(***************************************************************************)
(* Validation of tuples and users against a model.                         *)
(***************************************************************************)
IsObjectRelation(u) == u.rel # ""
IsTypedWildcard(u) == u.id = "*"
Facet(u) == IF IsTypedWildcard(u) THEN "*" ELSE u.rel

validateTuplesetRestrictions(ts, tk) ==
  IsTuplesetRelation(ts, tk.obj.type, tk.rel) =>
    /\ Rewrite(ts, tk.obj.type, tk.rel).k = "this"
    /\ ~IsTypedWildcard(tk.user)
    /\ ~IsObjectRelation(tk.user)

TupleTypeAllowed(ts, tk) ==
  IsDirectlyRelated(ts, tk.obj.type, tk.rel, [type |-> tk.user.type, rel |-> Facet(tk.user)])

restrictionFacetMatches(ref, u) ==
  CASE ref.rel = "" -> ~IsTypedWildcard(u) /\ ~IsObjectRelation(u)
    [] ref.rel = "*" -> IsTypedWildcard(u)
    [] OTHER -> ref.rel = u.rel

\* Some restriction of the user's type and shape carries exactly the tuple's
\* condition, or none when the tuple has none.
validateCondition(ts, tk) ==
  /\ tk.cond # "" => tk.cond \in ts.conds
  /\ \E i \in DOMAIN GetDirectlyRelatedUserTypes(ts, tk.obj.type, tk.rel) :
       LET ref == ts.rels[tk.obj.type][tk.rel].types[i]
       IN ref.type = tk.user.type /\ ref.cond = tk.cond /\ restrictionFacetMatches(ref, tk.user)

ValidateTupleForRead(ts, tk) ==
  /\ HasRelation(ts, tk.obj.type, tk.rel)
  /\ validateTuplesetRestrictions(ts, tk)
  /\ TupleTypeAllowed(ts, tk)
  /\ validateCondition(ts, tk)

FilterInvalidTuples(ts, tuples) == {tk \in tuples : ValidateTupleForRead(ts, tk)}

ValidateUser(ts, u) ==
  u.type \in DOMAIN ts.rels /\ (IsObjectRelation(u) => HasRelation(ts, u.type, u.rel))
ValidateObject(ts, o) == o.id # "*" /\ o.type \in DOMAIN ts.rels
ValidateRelation(ts, o, r) == HasRelation(ts, o.type, r)

ValidateUserObjectRelation(ts, tk) ==
  ValidateUser(ts, tk.user) /\ ValidateObject(ts, tk.obj) /\ ValidateRelation(ts, tk.obj, tk.rel)

ValidateTupleForWrite(ts, tk) == ValidateUserObjectRelation(ts, tk) /\ ValidateTupleForRead(ts, tk)

(***************************************************************************)
(* relationInvolves: whether a relation is defined through an intersection *)
(* or an exclusion.  The visited set is shared by the whole walk; the      *)
(* handler answers for an operator node at once and so ends the walk, even *)
(* when the operator is the other one.                                     *)
(***************************************************************************)
RECURSIVE relationInvolves(_, _, _, _, _), InvolvesWalk(_, _, _, _, _), InvolvesAny(_, _, _, _)

InvolvesAny(ts, targets, visited, target) ==
  IF targets = <<>> THEN [res |-> "nil", visited |-> visited]
  ELSE LET sub == relationInvolves(ts, Head(targets).type, Head(targets).rel, visited, target)
       IN IF sub.res = "yes" THEN sub ELSE InvolvesAny(ts, Tail(targets), sub.visited, target)

InvolvesWalk(ts, t, rw, visited, target) ==
  CASE rw.k = "this" -> [res |-> "nil", visited |-> visited]
    [] rw.k = "computed" ->
         InvolvesAny(ts, <<[type |-> t, rel |-> rw.rel]>>, visited, target)
    [] rw.k = "ttu" -> InvolvesAny(ts, ComputedTargets(ts, t, rw), visited, target)
    [] rw.k \in {"inter", "diff"} ->
         [res |-> IF rw.k = target THEN "yes" ELSE "no", visited |-> visited]
    [] OTHER ->
         FoldLeft(LAMBDA acc, kid : IF acc.res # "nil" THEN acc
                                    ELSE InvolvesWalk(ts, t, kid, acc.visited, target),
                  [res |-> "nil", visited |-> visited], rw.kids)

relationInvolves(ts, t, r, visited, target) ==
  IF <<t, r>> \in visited THEN [res |-> "nil", visited |-> visited]
  ELSE LET walk == InvolvesWalk(ts, t, Rewrite(ts, t, r), visited \cup {<<t, r>>}, target)
       IN IF walk.res = "yes" THEN walk
          ELSE InvolvesAny(ts, DirectlyRelatedUsersets(ts, t, r), walk.visited, target)

InvolvesOperator(ts, t, r) ==
  \E target \in {"inter", "diff"} : relationInvolves(ts, t, r, {}, target).res = "yes"

(***************************************************************************)
(* GetPrunedRelationshipEdges: the edges at distance one from the source,  *)
(* on the paths from the source to t#r.  The visited relations are shared  *)
(* by the whole search.  Only the first operand of an intersection and the *)
(* base of an exclusion are followed, and their edges are flagged as       *)
(* needing a Check.                                                        *)
(***************************************************************************)
Edge(k, t, r, tupleset, flag) ==
  [k |-> k, type |-> t, rel |-> r, tupleset |-> tupleset, flag |-> flag]

RECURSIVE getRelationshipEdges(_, _, _, _, _), RewriteEdges(_, _, _, _, _, _)

\* Follow a sequence of relations, each after the edges of its own.
FollowEdges(ts, steps, source, start) ==
  FoldLeft(LAMBDA acc, step :
             LET sub == getRelationshipEdges(ts, step.type, step.rel, source, acc.visited)
             IN [edges |-> acc.edges \o step.own \o sub.edges, visited |-> sub.visited],
           start, steps)

RewriteEdges(ts, t, r, rw, source, visited) ==
  LET none == [edges |-> <<>>, visited |-> visited]
      step(own, ty, re) == [own |-> own, type |-> ty, rel |-> re]
  IN CASE rw.k = "this" ->
            LET direct == \/ IsDirectlyRelated(ts, t, r, source)
                          \/ IsPubliclyAssignable(ts, t, r, source.type)
                usersets == DirectlyRelatedUsersets(ts, t, r)
            IN FollowEdges(ts, [i \in DOMAIN usersets |-> step(<<>>, usersets[i].type, usersets[i].rel)],
                           source,
                           [none EXCEPT !.edges = IF direct THEN <<Edge("direct", t, r, "", FALSE)>>
                                                            ELSE <<>>])
       [] rw.k = "computed" ->
            LET own == IF source.type = t /\ source.rel = rw.rel
                       THEN <<Edge("computed", t, r, "", FALSE)>> ELSE <<>>
            IN FollowEdges(ts, <<step(own, t, rw.rel)>>, source, none)
       [] rw.k = "ttu" ->
            LET targets == ComputedTargets(ts, t, rw)
                own(x) == IF source.type = x.type /\ source.rel = x.rel
                          THEN <<Edge("ttu", t, r, rw.tupleset, InvolvesOperator(ts, x.type, x.rel))>>
                          ELSE <<>>
            IN FollowEdges(ts, [i \in DOMAIN targets |->
                                  step(own(targets[i]), targets[i].type, targets[i].rel)],
                           source, none)
       [] rw.k = "union" ->
            FoldLeft(LAMBDA acc, kid :
                       LET sub == RewriteEdges(ts, t, r, kid, source, acc.visited)
                       IN [edges |-> acc.edges \o sub.edges, visited |-> sub.visited],
                     none, rw.kids)
       [] OTHER ->
            LET first == RewriteEdges(ts, t, r, rw.kids[1], source, visited)
            IN [first EXCEPT !.edges = [i \in DOMAIN @ |-> [@[i] EXCEPT !.flag = TRUE]]]

getRelationshipEdges(ts, t, r, source, visited) ==
  IF <<t, r>> \in visited THEN [edges |-> <<>>, visited |-> visited]
  ELSE RewriteEdges(ts, t, r, Rewrite(ts, t, r), source, visited \cup {<<t, r>>})

GetPrunedRelationshipEdges(ts, t, r, source) == getRelationshipEdges(ts, t, r, source, {}).edges

(***************************************************************************)
(* PathExists, over the graph the language library builds of the model:    *)
(* whether a source label (a type, a typed wildcard or a userset) reaches  *)
(* t#r through any operand of any rewrite.                                 *)
(***************************************************************************)
RECURSIVE GraphReaches(_, _, _, _, _)
GraphReaches(ts, source, t, r, visited) ==
  LET via(ty, re) == <<ty, re>> \notin visited
                       /\ GraphReaches(ts, source, ty, re, visited \cup {<<ty, re>>})
      steps(n) == CASE n.k = "this" -> Usersets(ts.rels[t][r].types)
                    [] n.k = "computed" -> <<[type |-> t, rel |-> n.rel]>>
                    [] n.k = "ttu" -> ComputedTargets(ts, t, n)
                    [] OTHER -> <<>>
  IN \/ source.type = t /\ source.rel = r
     \/ \E n \in WalkUsersetRewrite(Rewrite(ts, t, r)) :
          \/ n.k = "this" /\ IsDirectlyRelated(ts, t, r, source)
          \/ \E i \in DOMAIN steps(n) : via(steps(n)[i].type, steps(n)[i].rel)

PathExists(ts, u, r, t) ==
  \/ GraphReaches(ts, [type |-> u.type, rel |-> u.rel], t, r, {<<t, r>>})
  \/ /\ ~IsObjectRelation(u)
     /\ GraphReaches(ts, [type |-> u.type, rel |-> "*"], t, r, {<<t, r>>})
=============================================================================
