----------------------------- MODULE ListUsers -----------------------------
(***************************************************************************)
(* ListUsers (pkg/server/commands/listusers): the users of one type that   *)
(* have a relation with an object, found by expanding the relation's       *)
(* rewrite from the object down.                                           *)
(*                                                                         *)
(* An expansion sends messages through a channel: a user, whether it has   *)
(* the relation or is known not to have it (NoRelationship), and the users *)
(* known to be excluded.  The messages of an expansion are a bag, their    *)
(* order depends on the goroutines; a response is [msgs, err, cycle], and  *)
(* an expansion has a set of possible responses.  q is as in               *)
(* CheckResolution, f is the user filter [type, rel].                      *)
(***************************************************************************)
EXTENDS CheckResolution

foundUser(u, has, excl) == [user |-> u, has |-> has, excl |-> excl]
expandResponse(msgs, err, cycle) == [msgs |-> msgs, err |-> err, cycle |-> cycle]
One(m) == SetToBag({m})
Sum(bags) == FoldLeft(LAMBDA a, b : a (+) b, EmptyBag, bags)
wildcardKey(f) == [type |-> f.type, id |-> "*", rel |-> ""]

\* The responses of the tasks of one pool: the first error cancels the
\* others, whose sends may then be lost.
Pooled(tasks) ==
  UNION {IF Len(c) < 2 \/ \A i \in DOMAIN c : ~c[i].err THEN {c}
         ELSE Combinations([i \in DOMAIN c |->
                              {[c[i] EXCEPT !.msgs = m] : m \in SubBag(c[i].msgs)}]) :
           c \in Combinations(tasks)}

\* What a map keyed by the user holds once the channel is drained: the last
\* message of each user, whichever that was.
LastByUser(msgs) ==
  LET keys == {m.user : m \in BagToSet(msgs)}
  IN {g \in [keys -> BagToSet(msgs)] : \A k \in keys : g[k].user = k}

RECURSIVE expand(_, _, _, _, _, _), expandRewrite(_, _, _, _, _, _, _)

\* The valid tuples of o#r whose condition is met, and whether the condition
\* of one could not be evaluated.
Expandable(q, o, r) ==
  LET valid == FilterInvalidTuples(q.ts, CombinedRead(q.rd, Filter(o, r, NoUser, {})))
  IN [tuples |-> {t \in valid : Verdict(q, t) = "met"},
      err |-> \E t \in valid : Verdict(q, t) = "error"]

expandDirect(q, f, o, r, path, depth) ==
  LET read == Expandable(q, o, r)
      plain == {t.user : t \in {x \in read.tuples : x.user.rel = "" /\ x.user.type = f.type}}
      usersets == SetToSeq({t.user : t \in {x \in read.tuples : x.user.rel # ""}})
      tasks == [i \in DOMAIN usersets |->
                  expand(q, f, [type |-> usersets[i].type, id |-> usersets[i].id],
                         usersets[i].rel, path, depth)]
  IN IF r \in q.broken THEN {expandResponse(EmptyBag, TRUE, FALSE)}
     ELSE {expandResponse(SetToBag({foundUser(u, TRUE, {}) : u \in plain})
                            (+) Sum([i \in DOMAIN c |-> c[i].msgs]),
                          read.err \/ \E i \in DOMAIN c : c[i].err,
                          \E i \in DOMAIN c : c[i].cycle) : c \in Pooled(tasks)}

\* Mutant: an operand with the wildcard counts for its named users as well.
expandIntersectionTwice(f, operands) ==
  {LET found(i) == {m.user : m \in {x \in BagToSet(c[i].msgs) : x.has}}
       wild == {i \in DOMAIN c : wildcardKey(f) \in found(i)}
       excl == UNION {UNION {m.excl : m \in BagToSet(c[i].msgs)} : i \in DOMAIN c}
       count(u) == Cardinality({i \in DOMAIN c : u \in found(i)})
       all == {u \in UNION {found(i) : i \in DOMAIN c} \ excl :
                 count(u) + Cardinality(wild) >= Len(c)}
   IN expandResponse(SetToBag({foundUser(u, TRUE, excl) : u \in all}), \E i \in DOMAIN c : c[i].err, FALSE)
   : c \in Pooled(operands)}

\* A user is sent when the operands that found it and those that found the
\* wildcard are all of them, unless some operand excluded it.
expandIntersection(f, operands) ==
  {LET found(i) == {m.user : m \in {x \in BagToSet(c[i].msgs) : x.has}}
       wild == {i \in DOMAIN c : wildcardKey(f) \in found(i)}
       excl == UNION {UNION {m.excl : m \in BagToSet(c[i].msgs)} : i \in DOMAIN c}
       count(u) == Cardinality({i \in DOMAIN c \ wild : u \in found(i)})
       all == {u \in UNION {found(i) : i \in DOMAIN c} \ excl :
                 count(u) + Cardinality(wild) = Len(c)}
   IN expandResponse(SetToBag({foundUser(u, TRUE, excl) : u \in all}), \E i \in DOMAIN c : c[i].err, FALSE)
   : c \in Pooled(operands)}

\* A user is excluded when as many messages exclude it as there are operands.
expandUnion(operands) ==
  {LET msgs == Sum([i \in DOMAIN c |-> c[i].msgs])
       found == {m.user : m \in {x \in BagToSet(msgs) : x.has}}
       times(u) == BagCardinality([m \in {x \in BagToSet(msgs) : u \in x.excl} |-> msgs[m]])
       excl == {u \in UNION {m.excl : m \in BagToSet(msgs)} : times(u) = Len(c)}
   IN expandResponse(SetToBag({foundUser(u, TRUE, excl) : u \in found}), \E i \in DOMAIN c : c[i].err, FALSE)
   : c \in Pooled(operands)}

\* What an exclusion sends for the user k of its base.
SubtractFrom(f, base, subtract, k) ==
  LET wildcard == wildcardKey(f)
      subtracted == k \in DOMAIN subtract
      users == SetToSeq(DOMAIN subtract)
  IN CASE wildcard \in DOMAIN base ->
            (IF ~subtracted /\ wildcard \notin DOMAIN subtract
             THEN One(foundUser(k, base[k].has, base[k].excl)) ELSE EmptyBag)
            (+) Sum([i \in DOMAIN users |->
                       IF IsTypedWildcard(users[i])
                       THEN IF subtracted THEN EmptyBag ELSE One(foundUser(k, FALSE, {}))
                       ELSE IF subtract[users[i]].has
                       THEN One(foundUser(users[i], FALSE, {users[i]}))
                       ELSE One(foundUser(users[i], TRUE, {}))])
       [] wildcard \notin DOMAIN base /\ (subtracted \/ wildcard \in DOMAIN subtract) ->
            One(foundUser(k, subtracted /\ ~subtract[k].has, {}))
       [] OTHER -> One(foundUser(k, base[k].has, {}))

\* The operands do not share a pool.  A cycle under the subtracted operand
\* denies everything, and its error is not returned.
expandExclusion(f, operands) ==
  UNION {IF c[2].cycle THEN {expandResponse(EmptyBag, FALSE, FALSE)}
         ELSE {LET keys == SetToSeq(DOMAIN base)
               IN expandResponse(Sum([i \in DOMAIN keys |-> SubtractFrom(f, base, subtract, keys[i])]),
                                 c[1].err \/ c[2].err, FALSE) :
                 base \in LastByUser(c[1].msgs), subtract \in LastByUser(c[2].msgs)} :
           c \in Combinations(operands)}

expandTTU(q, f, o, rw, path, depth) ==
  LET read == Expandable(q, o, rw.tupleset)
      objects == SetToSeq({[type |-> t.user.type, id |-> t.user.id] : t \in read.tuples})
      tasks == [i \in DOMAIN objects |-> expand(q, f, objects[i], rw.computed, path, depth)]
  IN IF rw.tupleset \in q.broken THEN {expandResponse(EmptyBag, TRUE, FALSE)}
     ELSE {expandResponse(Sum([i \in DOMAIN c |-> c[i].msgs]),
                          read.err \/ \E i \in DOMAIN c : c[i].err, FALSE) : c \in Pooled(tasks)}

expandRewrite(q, f, o, r, rw, path, depth) ==
  LET operands == [i \in DOMAIN rw.kids |-> expandRewrite(q, f, o, r, rw.kids[i], path, depth)]
  IN CASE rw.k = "this" -> expandDirect(q, f, o, r, path, depth)
       [] rw.k = "computed" -> expand(q, f, o, rw.rel, path, depth)
       [] rw.k = "ttu" -> expandTTU(q, f, o, rw, path, depth)
       [] rw.k = "inter" -> expandIntersection(f, operands)
       [] rw.k = "diff" -> expandExclusion(f, operands)
       [] rw.k = "union" -> expandUnion(operands)

enteredCycle(path, o, r) == <<o, r>> \in path

expand(q, f, o, r, path, depth) ==
  IF depth >= q.depth THEN {expandResponse(EmptyBag, TRUE, FALSE)}
  ELSE IF enteredCycle(path, o, r) THEN {expandResponse(EmptyBag, FALSE, TRUE)}
  ELSE LET own == IF o.type = f.type /\ r = f.rel
                  THEN One(foundUser([type |-> o.type, id |-> o.id, rel |-> r], TRUE, {}))
                  ELSE EmptyBag
       IN IF ~HasRelation(q.ts, o.type, r) THEN {expandResponse(own, FALSE, FALSE)}
          ELSE {[x EXCEPT !.msgs = own (+) @] :
                  x \in expandRewrite(q, f, o, r, Rewrite(q.ts, o.type, r), path \cup {<<o, r>>}, depth + 1)}

(***************************************************************************)
(* The command.                                                            *)
(***************************************************************************)
ValidateListUsersRequest(q, f, o, r) ==
  /\ \A t \in q.rd.ctx : ValidateTupleForWrite(q.ts, t)
  /\ f.type \in DOMAIN q.ts.rels
  /\ f.rel # "" => HasRelation(q.ts, f.type, f.rel)
  /\ HasRelation(q.ts, o.type, r)

doesHavePossibleEdges(q, f, o, r) == GetPrunedRelationshipEdges(q.ts, o.type, r, f) # <<>>

Users(held) == [k |-> "users", users |-> {u \in DOMAIN held : held[u].has}]
Failed(k) == [k |-> k, users |-> {}]

\* The collector stops at max users, those without the relationship
\* included, and then the error of the expansion may not be there yet.
Collect(resp, max) ==
  LET msgs == BagToSet(resp.msgs)
      keys == {m.user : m \in msgs}
      from(K) == {Users(g) : g \in LastByUser(SetToBag({m \in msgs : m.user \in K}))}
      err == IF resp.err THEN {Failed("error")} ELSE {}
  IN IF max = 0 \/ Cardinality(keys) < max THEN IF resp.err THEN err ELSE from(keys)
     ELSE err \cup UNION {from(K) : K \in {S \in SUBSET keys : Cardinality(S) = max}}

ListUsersCommand(q, f, o, r, max) ==
  IF ~ValidateListUsersRequest(q, f, o, r) THEN {Failed("invalid")}
  ELSE IF ~(o.type = f.type /\ r = f.rel) /\ ~doesHavePossibleEdges(q, f, o, r)
  THEN {[k |-> "users", users |-> {}]}
  ELSE UNION {Collect(resp, max) : resp \in expand(q, f, o, r, {}, 0)}
=============================================================================
