----------------------------- MODULE MCQueries -----------------------------
(***************************************************************************)
(* The queries: a store whose models and tuples change between Checks,     *)
(* ListUsers, Expands and Reads; calls of ListObjects; and BatchCheck with *)
(* the AuthZEN endpoints.  One of the three is at work in a behaviour, the *)
(* others rest in an initial state.                                        *)
(***************************************************************************)
EXTENDS CheckResolution, Scenarios

CONSTANTS Parts, Stores, ListCalls, Nil, NoModel

VARIABLES
  part,
  store, tried, accepted, stored, call,
  load, tasks, visited, candidates, chan, expandErrs, expansion, consumer, checking, poolErr,
  cancelled, timedOut, found, sending, results, answer,
  request, now, asked, phase, model, batch, seen, outcomes, responses, under, gone, reply

storeVars == <<store, tried, accepted, stored, call>>
listVars == <<load, tasks, visited, candidates, chan, expandErrs, expansion, consumer, checking, poolErr,
              cancelled, timedOut, found, sending, results, answer>>
evaluationVars == <<request, now, asked, phase, model, batch, seen, outcomes, responses, under, gone, reply>>
vars == <<part, storeVars, listVars, evaluationVars>>

(***************************************************************************)
(* Stores: every subset of a scenario's tuples is reached.                 *)
(***************************************************************************)
Question(o, r, u) == [obj |-> o, rel |-> r, user |-> u]
UserFilter == [type |-> "user", rel |-> ""]
MemberFilter == [type |-> "group", rel |-> "member"]
By(o, r, u) == Filter(o, r, u, {})
AnyId(t) == [type |-> t, id |-> ""]

Store(s, b, users) ==
  [models |-> s.models, tuples |-> s.tuples, ctx |-> {}, b |-> b, cond |-> s.cond, broken |-> {},
   depth |-> 25, max |-> 0,
   checks |-> {Question(s.target, s.rel, u) : u \in users},
   lists |-> {[filter |-> UserFilter, obj |-> s.target, rel |-> s.rel]},
   reads |-> {}]

PlainStores == {Store(s, "postgres", {Alice, Bob}) :
                 s \in {Nested, Cyclic, Both, OverBoth, Conditional, Replaced, Banned, BannedAndActive}}

\* The other backends, with the filters of Read: a user, a userset on the same id, another
\* userset, all users of a type.
Filters(s) == {By(NoObject, "", NoUser), By(s.target, "", NoUser), By(s.target, s.rel, NoUser),
               By(AnyId("doc"), "", Alice), By(AnyId("doc"), s.rel, Members("1")),
               By(AnyId("doc"), "", Bob), By(AnyId("doc"), "", Set("user", "bob", "friend")),
               By(AnyId("doc"), "", [type |-> "user", id |-> "", rel |-> ""])}
BackendStores == {[Store(s, b, {Bob}) EXCEPT !.reads = Filters(s)] :
                   s \in {Replaced, Conditional, Friends}, b \in {"memory", "mysql", "sqlite"}}

\* Tuples that come with the request, usersets asked for and asked about.
Given == {Tuple(D1, "parent", Thing("folder", "1")), Tuple(G1, "member", Members("2"))}
ContextualStores ==
  {[Store(Nested, b, {Alice, Members("2")}) EXCEPT
      !.tuples = @ \ Given, !.ctx = Given,
      !.lists = {[filter |-> f, obj |-> D1, rel |-> "viewer"] : f \in {UserFilter, MemberFilter}}] :
     b \in {"memory", "postgres"}}

\* Conditions that cannot be evaluated, reads that fail, the limits.
FaultStores ==
  {[Store(Conditional, "postgres", {Alice, Bob}) EXCEPT !.cond = [c1 |-> "error", c2 |-> "met"]],
   [Store(Both, "postgres", {Alice}) EXCEPT !.broken = {"active"}],
   [Store(Banned, "postgres", {Alice}) EXCEPT !.broken = {"banned"}],
   [Store(Nested, "postgres", {Alice}) EXCEPT !.depth = 3],
   [Store(Both, "postgres", {}) EXCEPT !.max = 1]}

\* Every type doc with relations a, b and c over a parent p.
Operands(r) == {This} \cup {Comp(x) : x \in {"a", "b", "c"} \ {r}}
Rewrites(r) ==
  Operands(r) \cup {From(x, "p") : x \in {"a", r}}
    \cup UNION {{Or(<<x, y>>), And(<<x, y>>), ButNot(x, y)} :
                 x \in {Comp(CHOOSE z \in {"a", "b", "c"} : z # r)}, y \in Operands(r) \cup {From(r, "p")}}
Has3(rw) == IF RewriteContainsSelf(rw) THEN Rel(rw, <<UserRef>>) ELSE Derived(rw)
Candidate(a, b, c) ==
  Model(<<Type("doc", ("p" :> Direct(<<Ref("doc", "")>>)) @@ ("a" :> Has3(a)) @@ ("b" :> Has3(b)) @@ ("c" :> Has3(c)))>>)
ModelStores ==
  {[Store(Scenario(<<Candidate(a, b, c)>>, {}), "memory", {}) EXCEPT !.lists = {}] :
     a \in Rewrites("a"), b \in Rewrites("b"), c \in Rewrites("c")}

AllStores == PlainStores \cup BackendStores \cup ContextualStores \cup FaultStores \cup ModelStores
ExemptStores == {Store(Exempt, "memory", {Alice, Bob})}

(***************************************************************************)
(* Calls of ListObjects, over every subset of a scenario's tuples.         *)
(***************************************************************************)
Call(s, rows, b, user, max, deadline, changes) ==
  [q |-> changes @@ [ts |-> NewWithoutGraphs(s.models[Len(s.models)]), rd |-> [b |-> b, rows |-> rows, ctx |-> {}],
         cond |-> s.cond, broken |-> {}, depth |-> 25],
   type |-> "doc", rel |-> s.rel, user |-> user, max |-> max, deadline |-> deadline]

Calls(S, b, users, max) ==
  UNION {UNION {{Call(s, rows, b, u, max, FALSE, <<>>) : rows \in SUBSET s.tuples} : u \in users} : s \in S}

Every == {Nested, Cyclic, Both, OverBoth, Conditional, Replaced, Banned, BannedAndActive, Exempt}

\* A limit that is not reached, or none; users, usersets and the wildcard; each backend.
PlainCalls ==
  Calls(Every, "postgres", {Alice, Bob}, 10)
    \cup Calls({Nested, Cyclic}, "memory", {Members("1")}, 0)
    \cup Calls({Both, Banned}, "mysql", {Everyone}, 0)
    \cup Calls({Nested, Both}, "sqlite", {Alice}, 0)

\* More objects than are asked for, and a deadline.
Crowded(editors, banned) ==
  {Tuple(d, "editor", Alice) : d \in editors} \cup {Tuple(d, "banned", Alice) : d \in banned}
CutCalls ==
  {Call(Banned, Crowded({D1, D2, Obj("doc", "3")}, banned), "postgres", Alice, cut[1], cut[2], <<>>) :
     banned \in {{}, {D1}}, cut \in {<<1, FALSE>>, <<2, FALSE>>, <<2, TRUE>>}}

\* Conditions that cannot be evaluated, reads that fail, the depth limit.
FaultCalls ==
  {Call(Conditional, rows, "postgres", u, max, FALSE, "cond" :> [c1 |-> "error", c2 |-> "met"]) :
     rows \in SUBSET Conditional.tuples, u \in {Alice, Bob}, max \in {1, 10}}
    \cup {Call(Both, rows, "postgres", Alice, 10, FALSE, "broken" :> {r}) :
             rows \in SUBSET Both.tuples, r \in {"active", "member"}}
    \cup {Call(Nested, rows, "postgres", Alice, 10, FALSE, "depth" :> n) :
             rows \in SUBSET Nested.tuples, n \in {1, 3}}

\* Tuples that come with the request.
ContextualCalls ==
  UNION {{Call(sb[1], rows, sb[2], Alice, 10, FALSE,
               "rd" :> [b |-> sb[2], rows |-> rows, ctx |-> sb[1].tuples \ rows]) :
            rows \in {R \in SUBSET sb[1].tuples : Cardinality(R) = 3}} :
         sb \in {<<Nested, "memory">>, <<Both, "postgres">>}}

AllCalls == PlainCalls \cup CutCalls \cup FaultCalls \cup ContextualCalls
SqliteCalls == Calls({Friends}, "sqlite", {Alice, Bob}, 10)

(***************************************************************************)
(* Evaluations: requests of up to three items against a store that changes *)
(* once.                                                                   *)
(***************************************************************************)
B == INSTANCE Evaluations WITH Loads <- {}, Versions <- <<>>, MaxChecks <- 0, load <- request, cancelled <- gone, answer <- reply

Entity(id, props) == [id |-> id, props |-> props]
Sam == Entity("sam", B!Empty)
Doc == Entity("doc", B!Empty)
View == Entity("view", B!Empty)
Edit == Entity("edit", [sev |-> 1])
Fields4(s, r, a, c) == [subject |-> s, resource |-> r, action |-> a, context |-> c]
Top == Fields4(Sam, Doc, View, Nil)
NoAction == [Top EXCEPT !.action = Nil]
Clock == [n \in {<<"", "time">>} |-> 9]
\* An item that says nothing, one with an action, one with a context, and a
\* context that overrides a property.
Plain == Fields4(Nil, Nil, Nil, Nil)
Editing == [Plain EXCEPT !.action = Edit]
Timed == [Plain EXCEPT !.context = Clock]
Overriding == [Editing EXCEPT !.context = [n \in {<<"action", "sev">>} |-> 2]]

Build(item) == B!buildCheckRequest(B!resolveEvalFields(item, Top))
ActionChecks == {B!buildCheckRequest([Top EXCEPT !.action = Entity(a, B!Empty)]) : a \in {"view", "edit"}}
Checks == {Build(i) : i \in {Plain, Editing, Timed, Overriding}} \cup ActionChecks

\* Model 2 does not have the relation edit.
Relations == <<{"view", "edit"}, {"view"}>>
\* Viewers are the union of two operands, editors the first but not the second.
RewriteOf == [view |-> "union", edit |-> "exclusion"]
\* What the operands say under a model: view and edit have a pair each, and a context
\* gives an allowed Check for a denied one and the other way round.
Nobody == <<"deny", "deny">>
ByFirst == <<"allow", "deny">>
BySecond == <<"deny", "allow">>
Broken == <<"error", "deny">>
Turned(pair) == IF pair = Nobody THEN ByFirst ELSE Nobody
Operands2(view, edit) ==
  [c \in Checks |-> LET o == IF c.relation = "view" THEN view ELSE edit
                    IN IF \E n \in DOMAIN c.context : c.context[n] # 1 THEN Turned(o) ELSE o]
VersionOf(latest, one, two) ==
  [latest |-> latest, relations |-> Relations,
   reads |-> [mc \in (1..2) \X Checks |->
     IF mc[1] = 1 THEN one[mc[2]] ELSE IF mc[2].relation = "edit" THEN <<"error", "error">> ELSE two[mc[2]]]]

\* The tuple of a viewer (v: before, then under models 1 and 2) comes, goes or moves from
\* one operand to the other; the tuple of an editor (e) moves too, or the read of it begins
\* to fail; model 2 is written or not.
Viewers == <<<<ByFirst, BySecond, Nobody>>, <<Nobody, BySecond, BySecond>>, <<ByFirst, Nobody, BySecond>>>>
Editors == <<<<ByFirst, BySecond>>, <<Nobody, Broken>>>>
VersionNames == {"before", "after"} \X (DOMAIN Viewers) \X (DOMAIN Editors) \X (1..2)
Versions ==
  [n \in VersionNames |->
     LET v == Viewers[n[2]] e == Editors[n[3]]
     IN IF n[1] = "before" THEN VersionOf(1, Operands2(v[1], e[1]), Operands2(v[1], e[1]))
        ELSE VersionOf(n[4], Operands2(v[2], e[2]), Operands2(v[3], e[2]))]
Histories == {<<[n EXCEPT ![1] = "before"], n>> : n \in {m \in VersionNames : m[1] = "after"}}

Request(kind, items, top, semantic, pinned, leaves) ==
  [kind |-> kind, items |-> items, top |-> top, semantic |-> semantic, pinned |-> pinned, leaves |-> leaves]
Item(id, e) == [id |-> id, check |-> Build(e)]

Pairs == {<<Plain, Editing, Plain>>, <<Plain, Timed>>, <<Editing, Overriding>>}  \* two distinct checks
Three == <<Editing, Timed, Plain>>
Semantics == {"execute_all", "deny_on_first_deny", "permit_on_first_permit"}
Requests ==
  {Request("evaluations", l, Top, s, NoModel, TRUE) : l \in Pairs, s \in Semantics}
    \cup {Request("evaluations", Three, Top, s, NoModel, FALSE) : s \in Semantics}
    \cup {Request("evaluations", l, NoAction, s, p, FALSE) :
             l \in {<<>>, <<Editing, Plain, Editing>>}, s \in Semantics, p \in {NoModel, 1}}
    \cup {Request("evaluations", <<>>, Top, "execute_all", p, TRUE) : p \in {NoModel, 1}}
    \cup {Request("batch", l, Top, "execute_all", p, FALSE) : p \in {NoModel, 1},
             l \in {<<Item("a", Plain), Item("b", Plain), Item("c", Timed)>>, <<Item("a", Plain), Item("a", Timed)>>,
                     <<Item("", Plain)>>, <<>>, [i \in 1..4 |-> Item(ToString(i), Plain)]}}
    \cup {Request("actions", <<>>, Top, "execute_all", NoModel, g) : g \in BOOLEAN}

EvaluationLoads == [history : Histories, rewrite : {RewriteOf}, request : Requests]

(***************************************************************************)
(* The parts.                                                              *)
(***************************************************************************)
Q == INSTANCE Queries WITH Loads <- Stores, MaxTuplesPerWrite <- 1, load <- store, rows <- stored
L == INSTANCE ListObjects WITH Loads <- ListCalls
E == INSTANCE Evaluations WITH Loads <- EvaluationLoads, MaxChecks <- 3,
                               load <- request, cancelled <- gone, answer <- reply

Init ==
  /\ part \in Parts
  /\ IF part = "store" THEN store \in Stores ELSE store = Store(Banned, "memory", {})
  /\ IF part = "listObjects" THEN load \in ListCalls
     ELSE load = Call(Banned, {}, "memory", Alice, 1, FALSE, <<>>)
  /\ IF part = "evaluations" THEN request \in EvaluationLoads
     ELSE request = [history |-> <<>>, rewrite |-> RewriteOf, request |-> Request("batch", <<>>, Top, "execute_all", NoModel, FALSE)]
  /\ Q!Start /\ L!Start /\ E!Start

OfStore(step) == part = "store" /\ step /\ UNCHANGED <<part, listVars, evaluationVars>>
OfListObjects(step) == part = "listObjects" /\ step /\ UNCHANGED <<part, storeVars, evaluationVars>>
OfEvaluations(step) == part = "evaluations" /\ step /\ UNCHANGED <<part, storeVars, listVars>>

Next == OfStore(Q!Next) \/ OfListObjects(L!Next) \/ OfEvaluations(E!Next)

\* The fairness of ListObjects and of Evaluations.
Spec ==
  /\ Init /\ [][Next]_vars
  /\ WF_vars(OfListObjects(L!CallStep) \/ OfEvaluations(E!Step))
  /\ \/ []<>(tasks = {} /\ checking = {} /\ sending = {})
     \/ []<><<tasks' # tasks \/ checking' # checking \/ sending' # sending>>_vars

(***************************************************************************)
(* Properties.                                                             *)
(***************************************************************************)
\* An accepted model has no relation that no user could ever have and none defined by itself:
\* hasEntrypoints and hasCycle, with their maps shared between branches, agree with a least
\* fixpoint and with the absence of circular sets of relations.
AcceptedModelsUsable == part = "store" => Q!AcceptedModelsUsable

\* Check says what the model and the stored tuples mean, on every backend, whatever the order
\* its handlers finish in, with tuples an older model allowed still in the store, and fails
\* only for a failing read, a condition that cannot be evaluated or the depth limit.
CheckExact == part = "store" => Q!CheckExact

\* ListUsers and Check agree: a user it returns has the relation, a user that has the relation
\* is returned or covered by the wildcard, and the wildcard is returned exactly when everyone
\* has the relation; with a limit, only the first half.
ListUsersExact == part = "store" => Q!ListUsersExact

\* Expand's tree stands for the relation: unfolding its usersets gives the users the model and
\* the tuples give, conditions left out.
ExpandAgrees == part = "store" => Q!ExpandAgrees

\* The backend the store runs on shows in one place only in what Read answers to a filter: for
\* a user without a relation SQLite adds the rows of that user's usersets.
ReadsAgree == part = "store" => Q!ReadsAgree

\* Every object ListObjects returns has the relation, and none is missing unless the deadline
\* passed or max objects were found, however its tasks, candidates and Checks interleave.
ListObjectsExact == part = "listObjects" => L!ListObjectsExact

\* Every answer of a batch is what its own check makes of reads made during the request, although
\* equal checks share one run, runs finish in any order and the store changes between their reads;
\* and a sequence of evaluations that stops early has decided what was left out could not change.
EvaluationsExact == part = "evaluations" => E!AnswersOwnCheck /\ E!ShortCircuitDecides

\* Every ListObjects call and every batch is answered: the consumer leaves its loop and every
\* task and Check of the pool returns, whatever ends first, with the caller gone.
QueriesEnd ==
  <>[](CASE part = "store" -> TRUE
         [] part = "listObjects" -> L!Answered
         [] part = "evaluations" -> E!Answered)
=============================================================================
