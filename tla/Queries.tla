------------------------------ MODULE Queries ------------------------------
(***************************************************************************)
(* A store from the outside: models and tuples are written, each through   *)
(* the validation of its command, and Check, ListUsers, Expand and Read    *)
(* are asked in between.  It composes the typesystem, the backends' reads  *)
(* and the resolvers, and compares what they answer with what the model    *)
(* and the tuples mean (Relationships).                                    *)
(*                                                                         *)
(* A load is [models, tuples, ctx, b, cond, broken, depth, max, checks,    *)
(* lists, reads]: the models and the tuples that may be written, the       *)
(* contextual tuples of the queries, the backend, what the conditions      *)
(* evaluate to, the relations whose reads fail, the two limits, and the    *)
(* queries that are asked.                                                 *)
(***************************************************************************)
EXTENDS ListUsers, Expand, Relationships

CONSTANTS
  Loads,
  MaxTuplesPerWrite   \* the backend's limit on one write

VARIABLES
  load,
  tried,     \* how many of the load's models have been submitted
  accepted,  \* the indexes of those that were accepted
  rows,      \* the stored tuples
  call       \* the last call and its answer, a record of kind k

vars == <<load, tried, accepted, rows, call>>

Idle == [op |-> "idle"]

Start == tried = 0 /\ accepted = {} /\ rows = {} /\ call = Idle
Init == load \in Loads /\ Start

\* The typesystem of an accepted model, and what a query reads under it.
ts(m) == NewWithoutGraphs(load.models[m])
q(m) == [ts |-> ts(m), rd |-> [b |-> load.b, rows |-> rows, ctx |-> load.ctx],
         cond |-> load.cond, broken |-> load.broken, depth |-> load.depth]
Latest == CHOOSE m \in accepted : \A n \in accepted : n <= m

(***************************************************************************)
(* Writes.                                                                 *)
(***************************************************************************)
WriteAuthorizationModel ==
  /\ call = Idle /\ tried < Len(load.models)
  /\ tried' = tried + 1
  /\ accepted' = IF NewAndValidate(load.models[tried']) THEN accepted \cup {tried'} ELSE accepted
  /\ UNCHANGED <<load, rows, call>>

\* A tuple's key leaves the condition out: two tuples of one key are the
\* same row.
Key(t) == <<t.obj, t.rel, t.user>>
Keys(tuples) == {Key(t) : t \in tuples}

validateNotImplicit(t) == ~(t.user.rel = t.rel /\ t.user.type = t.obj.type /\ t.user.id = t.obj.id)

\* Deletes are not checked against a model.
validateWriteRequest(m, deletes, writes) ==
  /\ deletes \cup writes # {}
  /\ \A t \in writes : ValidateTupleForWrite(ts(m), t) /\ validateNotImplicit(t)
  /\ Keys(deletes) \cap Keys(writes) = {}
  /\ Cardinality(Keys(writes)) = Cardinality(writes)
  /\ Cardinality(deletes) + Cardinality(writes) <= MaxTuplesPerWrite

\* A delete of a row that is not there, and a write of one that is, fail the
\* whole request.
Write(m, deletes, writes) ==
  /\ call = Idle /\ m \in accepted
  /\ validateWriteRequest(m, deletes, writes)
  /\ Keys(deletes) \subseteq Keys(rows) /\ Keys(writes) \cap Keys(rows) = {}
  /\ rows' = {t \in rows : Key(t) \notin Keys(deletes)} \cup writes
  /\ UNCHANGED <<load, tried, accepted, call>>

(***************************************************************************)
(* Queries, under the latest model.                                        *)
(***************************************************************************)
Ask(op, args, answer) ==
  /\ call' = [op |-> op, args |-> args, answer |-> answer]
  /\ UNCHANGED <<load, tried, accepted, rows>>

Check(c) ==
  /\ call = Idle /\ accepted # {}
  /\ \E a \in CheckCommand(q(Latest), c.obj, c.rel, c.user) : Ask("check", c, [k |-> a])

ListUsersCall(l) ==
  /\ call = Idle /\ accepted # {}
  /\ \E a \in ListUsersCommand(q(Latest), l.filter, l.obj, l.rel, load.max) : Ask("listUsers", l, a)

ExpandCall(c) ==
  /\ call = Idle /\ accepted # {}
  /\ Ask("expand", c, ExpandQuery(q(Latest), c.obj, c.rel))

\* ReadQuery.Execute: a filter names an object type, and an id or a user.
ReadCall(f) ==
  /\ call = Idle /\ accepted # {}
  /\ f = Filter(NoObject, "", NoUser, {}) \/ (f.obj.type # "" /\ (f.obj.id # "" \/ f.user # NoUser))
  /\ Ask("read", f, [k |-> "rows", rows |-> Read(load.b, rows, f)])

Return == call # Idle /\ call' = Idle /\ UNCHANGED <<load, tried, accepted, rows>>

Next ==
  \/ WriteAuthorizationModel
  \/ \E m \in accepted, deletes, writes \in {S \in SUBSET load.tuples : Cardinality(S) <= MaxTuplesPerWrite} :
       Write(m, deletes, writes)
  \/ \E c \in load.checks : Check(c)
  \/ \E l \in load.lists : ListUsersCall(l)
  \/ \E c \in load.checks : ExpandCall(c)
  \/ \E f \in load.reads : ReadCall(f)
  \/ Return

Spec == Init /\ [][Next]_vars

(***************************************************************************)
(* Properties.                                                             *)
(***************************************************************************)
\* The tuples that count for a query: the valid ones whose condition is met.
Stored == FilterInvalidTuples(ts(Latest), rows \cup load.ctx)
Counting == {t \in Stored : Verdict(q(Latest), t) = "met"}
Has(o, r, u) == Holds(ts(Latest), Counting, o, r, u)

\* Relations of one object that are defined by each other: none of them has
\* a definition outside the set.
Circular(m, S) ==
  \A tr \in S : \E n \in WalkUsersetRewrite(Rewrite(ts(m), tr[1], tr[2])) :
    n.k = "computed" /\ <<tr[1], n.rel>> \in S

\* An accepted model has no relation that no user could ever have and none
\* defined by itself: hasEntrypoints and hasCycle, with their maps shared
\* between branches, agree with a least fixpoint (Productive) and with the
\* absence of circular sets of relations.
AcceptedModelsUsable ==
  \A m \in accepted : /\ AllRelations(ts(m)) = Productive(ts(m))
                      /\ \A S \in SUBSET AllRelations(ts(m)) \ {{}} : ~Circular(m, S)

\* Check says what the model and the stored tuples mean, on every backend,
\* whatever the order its handlers finish in, with tuples an older model
\* allowed still in the store, and fails only for a failing read, a condition
\* that cannot be evaluated or the depth limit.
CheckExact ==
  call.op = "check" =>
    LET c == call.args
    IN CASE call.answer.k = "allow" -> Has(c.obj, c.rel, c.user)
         [] call.answer.k = "deny" -> ~Has(c.obj, c.rel, c.user)
         [] call.answer.k = "invalid" -> ~ValidateUserObjectRelation(ts(Latest), c)
         [] OTHER -> load.broken # {} \/ load.depth <= Cardinality(Stored) \/ \E t \in Stored : Verdict(q(Latest), t) = "error"

\* A user nobody has written a tuple about: it has what everyone has.
Anyone(f) == [type |-> f.type, id |-> "anyone", rel |-> ""]
Named(f) == {u \in {t.user : t \in load.tuples \cup load.ctx} : u.type = f.type /\ ~IsUserSet(u)}

\* ListUsers and Check agree: a user it returns has the relation, a user that
\* has the relation is returned or covered by the wildcard, and the wildcard is
\* returned exactly when everyone has the relation; with a limit, only the
\* first half.  Counting operands against wildcards, carrying exclusions through
\* nested operators and the last message winning all have to come out right.
ListUsersExact ==
  (call.op = "listUsers" /\ call.answer.k = "users") =>
    LET l == call.args
        got == call.answer.users
        all == wildcardKey(l.filter)
    IN /\ \A u \in got \ {all} : Has(l.obj, l.rel, u)
       /\ all \in got => Has(l.obj, l.rel, Anyone(l.filter))
       /\ (load.max = 0 \/ Cardinality(got) < load.max) =>
            /\ Has(l.obj, l.rel, Anyone(l.filter)) => all \in got
            /\ \A u \in Named(l.filter) : Has(l.obj, l.rel, u) => u \in got \/ all \in got

\* What a tree of Expand says of a user, its usersets read as relationships.
RECURSIVE Denotes(_, _)
Denotes(node, u) ==
  LET has(x) == Holds(ts(Latest), Stored, [type |-> x.type, id |-> x.id], x.rel, u)
  IN CASE node.k = "users" -> \E x \in node.users : \/ x = u
                                                    \/ IsTypedWildcard(x) /\ x.type = u.type
                                                    \/ IsObjectRelation(x) /\ has(x)
       [] node.k = "computed" -> \E x \in node.usersets : has(x)
       [] node.k = "union" -> \E i \in DOMAIN node.nodes : Denotes(node.nodes[i], u)
       [] node.k = "inter" -> \A i \in DOMAIN node.nodes : Denotes(node.nodes[i], u)
       [] node.k = "diff" -> Denotes(node.nodes[1], u) /\ ~Denotes(node.nodes[2], u)

\* Expand's tree stands for the relation: unfolding its usersets gives the
\* users the model and the tuples give, conditions left out.
ExpandAgrees ==
  (call.op = "expand" /\ call.answer.k \notin {"error", "invalid"}) =>
    LET c == call.args
    IN Denotes(call.answer, c.user) = Holds(ts(Latest), Stored, c.obj, c.rel, c.user)

\* The rows of the usersets of a user, which a filter for the user alone does not match.
UsersetsOf(u) ==
  {t \in rows : /\ u.id # "" /\ u.rel = "" /\ t.user.rel # ""
                /\ t.user.type = u.type /\ t.user.id = u.id}

\* The backend the store runs on shows in one place only: every backend answers a
\* Read with the same rows, and SQLite, which compares the user by column, adds to
\* those of a user without a relation the rows of that user's usersets.
ReadsAgree ==
  call.op = "read" => \A b \in Backends :
    LET here == call.answer.rows
        there == Read(b, rows, call.args)
        extra == UsersetsOf(call.args.user)
    IN CASE load.b = "sqlite" /\ b # "sqlite" -> there \subseteq here /\ here \ there \subseteq extra
         [] load.b # "sqlite" /\ b = "sqlite" -> here \subseteq there /\ there \ here \subseteq extra
         [] OTHER -> here = there
=============================================================================
