-------------------------- MODULE CheckResolution --------------------------
(***************************************************************************)
(* Check as internal/graph resolves it with the default strategy: the      *)
(* LocalChecker and its dispatches, and the command in front of it.        *)
(*                                                                         *)
(* q is what the resolution reads: the typesystem ts, the reader rd, what  *)
(* each condition evaluates to (cond: "met", "unmet" or "error"), the      *)
(* relations whose reads fail (broken) and the depth limit (depth).  The   *)
(* handlers of a request run concurrently, so a request has a set of       *)
(* possible outcomes, each "allow", "deny", "cycle" (denied, with          *)
(* CycleDetected) or "error".                                              *)
(***************************************************************************)
EXTENDS TupleReads

Verdict(q, t) == IF t.cond = "" THEN "met" ELSE q.cond[t.cond]

\* The tuples of one iterator behind the validity and condition filters.  A
\* condition that cannot be evaluated counts as unmet; only an iterator that
\* yields nothing at all ends with the error.
FilteredTuples(q, tuples) ==
  LET valid == FilterInvalidTuples(q.ts, tuples)
      met == {t \in valid : Verdict(q, t) = "met"}
  IN [tuples |-> met, err |-> met = {} /\ \E t \in valid : Verdict(q, t) = "error"]

\* One outcome for each handler, in every combination.
Combinations(outcomes) ==
  FoldLeft(LAMBDA acc, S : {Append(a, s) : a \in acc, s \in S}, {<<>>}, outcomes)

(***************************************************************************)
(* The reducers.  union and consumeDispatches wait for an allowed outcome  *)
(* or for every handler; an intersection takes the first falsey outcome    *)
(* that arrives, and so do the two operands of an exclusion.               *)
(***************************************************************************)
union(outcomes) ==
  {LET o == Range(c)
   IN IF "allow" \in o THEN "allow"
      ELSE IF "error" \in o THEN "error"
      ELSE IF "cycle" \in o THEN "cycle" ELSE "deny" : c \in Combinations(outcomes)}

intersection(outcomes) ==
  UNION {LET o == Range(c)
         IN IF o \cap {"deny", "cycle"} # {} THEN o \cap {"deny", "cycle"}
            ELSE IF "error" \in o THEN {"error"} ELSE {"allow"} : c \in Combinations(outcomes)}

\* Mutant: a subtract that fails counts as one that denies.
exclusionLenient(outcomes) ==
  {IF c[1] # "allow" THEN c[1] ELSE IF c[2] = "allow" THEN "deny" ELSE "allow" : c \in Combinations(outcomes)}

exclusion(outcomes) ==
  UNION {LET falsey == (IF c[1] \in {"deny", "cycle"} THEN {c[1]} ELSE {})
                         \cup (IF c[2] = "allow" THEN {"deny"} ELSE {})
                         \cup (IF c[2] = "cycle" THEN {"cycle"} ELSE {})
         IN IF falsey # {} THEN falsey
            ELSE IF "error" \in Range(c) THEN {"error"} ELSE {"allow"} : c \in Combinations(outcomes)}

consumeDispatches(err, outcomes) == union(IF err THEN Append(outcomes, {"error"}) ELSE outcomes)

(***************************************************************************)
(* The handlers.  A request is an object, a relation and a user, with the  *)
(* requests on the way to it (path) and the number of dispatches (depth).  *)
(***************************************************************************)
RECURSIVE ResolveCheck(_, _, _, _, _, _), CheckRewrite(_, _, _, _, _, _, _)

checkDirectUserTuple(q, o, r, u) ==
  IF r \in q.broken THEN {"error"}
  ELSE LET found == FilterInvalidTuples(q.ts, CombinedReadUserTuple(q.rd, Filter(o, r, u, {})))
       IN {CASE found = {} -> "deny"
             [] \E t \in found : Verdict(q, t) = "error" -> "error"
             [] \E t \in found : Verdict(q, t) = "met" -> "allow"
             [] OTHER -> "deny"}

checkPublicAssignable(q, o, r, u) ==
  IF r \in q.broken THEN {"error"}
  ELSE LET found == FilteredTuples(q, CombinedReadUsersetTuples(q.rd, Filter(o, r, NoUser, {}),
                                                               {[type |-> u.type, rel |-> "*"]}))
       IN {IF found.tuples # {} THEN "allow" ELSE IF found.err THEN "error" ELSE "deny"}

\* produceUsersetDispatches: a wildcard of the user's type ends the search,
\* a userset is dispatched.
produceUsersetDispatches(q, u, tuples, path, depth) ==
  IF \E t \in tuples : IsTypedWildcard(t.user) /\ t.user.type = u.type THEN <<{"allow"}>>
  ELSE LET usersets == SetToSeq({t.user : t \in {x \in tuples : IsObjectRelation(x.user)}})
       IN [i \in DOMAIN usersets |->
             ResolveCheck(q, [type |-> usersets[i].type, id |-> usersets[i].id], usersets[i].rel,
                          u, path, depth + 1)]

defaultUserset(q, u, found, path, depth) ==
  consumeDispatches(found.err, produceUsersetDispatches(q, u, found.tuples, path, depth))

\* The relations of the same object t#r is computed from, itself included,
\* and the relations of other objects these lead to.
RECURSIVE SameObject(_, _, _)
SameObject(ts, t, rels) ==
  LET more == rels \cup UNION {{n.rel : n \in {x \in WalkUsersetRewrite(Rewrite(ts, t, s)) :
                                                x.k = "computed"}} : s \in rels}
  IN IF more = rels THEN rels ELSE SameObject(ts, t, more)

Hops(ts, t, r) ==
  UNION {UNION {ToSet(IF n.k = "this" THEN DirectlyRelatedUsersets(ts, t, s)
                      ELSE ComputedTargets(ts, t, n)) :
                  n \in {x \in WalkUsersetRewrite(Rewrite(ts, t, s)) : x.k \in {"this", "ttu"}}} :
           s \in SameObject(ts, t, {r})}

\* Whether the userset ref of t#r is one hop from the user's type: t#r does
\* not lead back to itself, and ref finds the users in tuples of its own object.
UsersetUseWeight2Resolver(ts, t, r, userType, ref) ==
  LET reaches(src, h) == GraphReaches(ts, src, h.type, h.rel, {<<h.type, h.rel>>})
      kinds == {[type |-> userType, rel |-> f] : f \in {"", "*"}}
  IN /\ \A h \in Hops(ts, t, r) : ~reaches([type |-> t, rel |-> r], h)
     /\ \E s \in SameObject(ts, ref.type, {ref.rel}), k \in kinds : IsDirectlyRelated(ts, ref.type, s, k)
     /\ \A h \in Hops(ts, ref.type, ref.rel), k \in kinds : ~reaches(k, h)

\* For a plain user each userset of weight one is read by an iterator of its
\* own and the others by one together, and each is resolved on its own.
checkDirectUsersetTuples(q, o, r, u, path, depth) ==
  LET refs == ToSet(DirectlyRelatedUsersets(q.ts, o.type, r))
      near == {x \in refs : ~IsObjectRelation(u) /\ UsersetUseWeight2Resolver(q.ts, o.type, r, u.type, x)}
      reads == SetToSeq({{x} : x \in near} \cup ({refs \ near} \ {{}}))
  IN IF r \in q.broken THEN {"error"}
     ELSE union([i \in DOMAIN reads |->
                   defaultUserset(q, u, FilteredTuples(q, CombinedReadUsersetTuples(q.rd,
                                           Filter(o, r, NoUser, {}), reads[i])), path, depth)])

shouldCheckDirectTuple(q, o, r, u) ==
  IsDirectlyRelated(q.ts, o.type, r, [type |-> u.type, rel |-> u.rel])

shouldCheckPublicAssignable(q, o, r, u) ==
  ~IsObjectRelation(u) /\ IsPubliclyAssignable(q.ts, o.type, r, u.type)

checkDirect(q, o, r, u, path, depth) ==
  union((IF shouldCheckDirectTuple(q, o, r, u) THEN <<checkDirectUserTuple(q, o, r, u)>> ELSE <<>>)
        \o (IF shouldCheckPublicAssignable(q, o, r, u) THEN <<checkPublicAssignable(q, o, r, u)>> ELSE <<>>)
        \o (IF DirectlyRelatedUsersets(q.ts, o.type, r) # <<>>
            THEN <<checkDirectUsersetTuples(q, o, r, u, path, depth)>> ELSE <<>>))

\* The rewritten relation is resolved at the same depth.
checkComputedUserset(q, o, rw, u, path, depth) == ResolveCheck(q, o, rw.rel, u, path, depth)

\* produceTTUDispatches: an object whose type does not define the computed
\* relation is skipped.
produceTTUDispatches(q, rw, u, tuples, path, depth) ==
  LET objects == SetToSeq({[type |-> t.user.type, id |-> t.user.id] :
                             t \in {x \in tuples : HasRelation(q.ts, x.user.type, rw.computed)}})
  IN [i \in DOMAIN objects |-> ResolveCheck(q, objects[i], rw.computed, u, path, depth + 1)]

defaultTTU(q, rw, u, found, path, depth) ==
  consumeDispatches(found.err, produceTTUDispatches(q, rw, u, found.tuples, path, depth))

checkTTU(q, o, rw, u, path, depth) ==
  IF rw.tupleset \in q.broken THEN {"error"}
  ELSE defaultTTU(q, rw, u, FilteredTuples(q, CombinedRead(q.rd, Filter(o, rw.tupleset, NoUser, {}))),
                  path, depth)

checkSetOperation(q, o, r, u, rw, path, depth) ==
  LET handlers == [i \in DOMAIN rw.kids |-> CheckRewrite(q, o, r, u, rw.kids[i], path, depth)]
  IN CASE rw.k = "union" -> union(handlers)
       [] rw.k = "inter" -> intersection(handlers)
       [] rw.k = "diff" -> exclusion(handlers)

CheckRewrite(q, o, r, u, rw, path, depth) ==
  CASE rw.k = "this" -> checkDirect(q, o, r, u, path, depth)
    [] rw.k = "computed" -> checkComputedUserset(q, o, rw, u, path, depth)
    [] rw.k = "ttu" -> checkTTU(q, o, rw, u, path, depth)
    [] OTHER -> checkSetOperation(q, o, r, u, rw, path, depth)

IsSelfDefining(o, r, u) == u = [type |-> o.type, id |-> o.id, rel |-> r]

ResolveCheck(q, o, r, u, path, depth) ==
  CASE depth = q.depth -> {"error"}
    [] <<o, r>> \in path -> {"cycle"}
    [] IsSelfDefining(o, r, u) -> {"allow"}
    [] ~HasRelation(q.ts, o.type, r) -> {"error"}
    [] ~PathExists(q.ts, u, r, o.type) -> {"deny"}
    [] OTHER -> CheckRewrite(q, o, r, u, Rewrite(q.ts, o.type, r), path \cup {<<o, r>>}, depth)

(***************************************************************************)
(* The command: a request that does not fit the model is refused.          *)
(***************************************************************************)
validateCheckRequest(q, o, r, u) ==
  /\ ValidateUserObjectRelation(q.ts, [obj |-> o, rel |-> r, user |-> u])
  /\ \A t \in q.rd.ctx : ValidateTupleForWrite(q.ts, t)

CheckCommand(q, o, r, u) ==
  IF ~validateCheckRequest(q, o, r, u) THEN {"invalid"}
  ELSE {IF a = "cycle" THEN "deny" ELSE a : a \in ResolveCheck(q, o, r, u, {}, 0)}
=============================================================================
