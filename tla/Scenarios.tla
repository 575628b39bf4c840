----------------------------- MODULE Scenarios -----------------------------
(***************************************************************************)
(* Models, tuples and queries for the model-checking of Queries and        *)
(* ListObjects, written with a few abbreviations.  A scenario has a list   *)
(* of models (the later replace the earlier), the tuples that may be       *)
(* stored, and the queries asked of them.                                  *)
(***************************************************************************)
EXTENDS Naturals, Sequences, FiniteSets, TLC

This == [k |-> "this"]
Comp(r) == [k |-> "computed", rel |-> r]
From(computed, tupleset) == [k |-> "ttu", tupleset |-> tupleset, computed |-> computed]
Or(kids) == [k |-> "union", kids |-> kids]
And(kids) == [k |-> "inter", kids |-> kids]
ButNot(a, b) == [k |-> "diff", kids |-> <<a, b>>]

Ref(t, r) == [type |-> t, rel |-> r, cond |-> ""]
RefIf(t, r, c) == [type |-> t, rel |-> r, cond |-> c]
Rel(rw, types) == [rw |-> rw, types |-> types]
Direct(types) == Rel(This, types)
Derived(rw) == Rel(rw, <<>>)
Type(name, rels) == [name |-> name, rels |-> rels]
NoRels == [r \in {} |-> 0]
Model(types) == [schema |-> "1.1", types |-> <<Type("user", NoRels)>> \o types, conds |-> {}]
ModelIf(types, conds) ==
  [Model(types) EXCEPT !.conds = {[key |-> c, name |-> c, compiles |-> TRUE] : c \in conds}]

Obj(t, i) == [type |-> t, id |-> i]
User(i) == [type |-> "user", id |-> i, rel |-> ""]
Set(t, i, r) == [type |-> t, id |-> i, rel |-> r]
Thing(t, i) == Set(t, i, "")
TupleIf(o, r, u, c) == [obj |-> o, rel |-> r, user |-> u, cond |-> c]
Tuple(o, r, u) == TupleIf(o, r, u, "")

D1 == Obj("doc", "1")
D2 == Obj("doc", "2")
F1 == Obj("folder", "1")
F2 == Obj("folder", "2")
G1 == Obj("group", "1")
G2 == Obj("group", "2")
Alice == User("alice")
Bob == User("bob")
Everyone == User("*")
UserRef == Ref("user", "")
AnyRef == Ref("user", "*")
MemberRef == Ref("group", "member")
Members(i) == Set("group", i, "member")
Group == Type("group", ("member" :> Direct(<<UserRef, MemberRef>>)))

Scenario(models, tuples) == [models |-> models, tuples |-> tuples, cond |-> <<>>, target |-> D1, rel |-> "viewer"]

(***************************************************************************)
(* Models without exclusion.                                               *)
(***************************************************************************)
\* Nested groups and folders, everything by union.
Nested == Scenario(
  <<Model(<<Group,
            Type("folder", ("parent" :> Direct(<<Ref("folder", "")>>)) @@
                           ("viewer" :> Rel(Or(<<This, From("viewer", "parent")>>), <<UserRef, MemberRef>>))),
            Type("doc", ("parent" :> Direct(<<Ref("folder", "")>>)) @@
                        ("viewer" :> Rel(Or(<<This, From("viewer", "parent")>>), <<UserRef, AnyRef>>)))>>)>>,
  {Tuple(D1, "parent", Thing("folder", "1")), Tuple(F1, "parent", Thing("folder", "2")),
   Tuple(F2, "viewer", Members("1")), Tuple(G1, "member", Members("2")), Tuple(G2, "member", Alice),
   Tuple(D1, "viewer", Everyone)})

\* Groups that contain each other.
Cyclic == Scenario(
  <<Model(<<Group, Type("doc", ("viewer" :> Direct(<<UserRef, MemberRef>>)))>>)>>,
  {Tuple(D1, "viewer", Members("1")), Tuple(G1, "member", Members("2")), Tuple(G2, "member", Members("1")),
   Tuple(G2, "member", Bob), Tuple(D2, "viewer", Members("2")), Tuple(D2, "viewer", Alice)})

\* An intersection of an assignable relation and one through groups, with the
\* wildcard on either side.
Both == Scenario(
  <<Model(<<Group,
            Type("doc", ("allowed" :> Direct(<<UserRef, AnyRef>>)) @@
                        ("active" :> Direct(<<UserRef, AnyRef, MemberRef>>)) @@
                        ("viewer" :> Derived(And(<<Comp("allowed"), Comp("active")>>))))>>)>>,
  {Tuple(D1, "allowed", Alice), Tuple(D1, "allowed", Everyone), Tuple(D1, "active", Members("1")),
   Tuple(G1, "member", Alice), Tuple(D1, "active", Everyone), Tuple(D1, "active", Bob)})

\* A tuple-to-userset over a relation that is itself an intersection, beside a
\* plain path to the same object.
OverBoth == Scenario(
  <<Model(<<Type("folder", ("a" :> Direct(<<UserRef>>)) @@ ("b" :> Direct(<<UserRef>>)) @@
                           ("viewer" :> Derived(And(<<Comp("a"), Comp("b")>>)))),
            Type("doc", ("parent" :> Direct(<<Ref("folder", "")>>)) @@ ("owner" :> Direct(<<UserRef>>)) @@
                        ("viewer" :> Derived(Or(<<From("viewer", "parent"), Comp("owner")>>))))>>)>>,
  {Tuple(D1, "parent", Thing("folder", "1")), Tuple(F1, "a", Alice), Tuple(F1, "b", Alice),
   Tuple(D1, "owner", Alice), Tuple(D2, "parent", Thing("folder", "1")), Tuple(D2, "owner", Bob)})

\* Conditions on users and usersets.
Conditional == [Scenario(
  <<ModelIf(<<Type("group", ("member" :> Direct(<<UserRef, RefIf("user", "", "c1")>>))),
              Type("doc", ("viewer" :> Direct(<<UserRef, RefIf("user", "", "c1"), RefIf("user", "*", "c1"),
                                                RefIf("group", "member", "c2"), MemberRef>>)))>>, {"c1", "c2"})>>,
  {TupleIf(D1, "viewer", Alice, "c1"), TupleIf(D1, "viewer", Members("1"), "c2"),
   Tuple(D1, "viewer", Members("2")), TupleIf(G1, "member", Bob, "c1"), Tuple(G2, "member", Bob),
   TupleIf(D1, "viewer", Everyone, "c1")})
  EXCEPT !.cond = [c1 |-> "met", c2 |-> "unmet"]]

\* A model replaced by one that allows less: the wildcard, the group and the
\* condition are gone, the tuples stay.
Replaced == [Scenario(
  <<ModelIf(<<Group, Type("doc", ("viewer" :> Direct(<<UserRef, RefIf("user", "", "c1"), AnyRef, MemberRef>>)))>>, {"c1"}),
    Model(<<Group, Type("doc", ("editor" :> Direct(<<UserRef>>)) @@
                               ("viewer" :> Rel(Or(<<This, Comp("editor")>>), <<UserRef>>)))>>)>>,
  {Tuple(D1, "viewer", Everyone), Tuple(D1, "viewer", Members("1")), Tuple(G1, "member", Alice),
   Tuple(D1, "editor", Alice), TupleIf(D1, "viewer", Bob, "c1")})
  EXCEPT !.cond = [c1 |-> "met"]]

(***************************************************************************)
(* Models with exclusion.                                                  *)
(***************************************************************************)
Banned == Scenario(
  <<Model(<<Group,
            Type("doc", ("editor" :> Direct(<<UserRef, AnyRef, MemberRef>>)) @@
                        ("banned" :> Direct(<<UserRef, AnyRef>>)) @@
                        ("viewer" :> Derived(ButNot(Comp("editor"), Comp("banned")))))>>)>>,
  {Tuple(D1, "editor", Alice), Tuple(D1, "editor", Everyone), Tuple(D1, "editor", Members("1")),
   Tuple(G1, "member", Bob), Tuple(D1, "banned", Bob), Tuple(D1, "banned", Everyone)})

\* An exclusion as operand of an intersection, with groups below it.
BannedAndActive == Scenario(
  <<Model(<<Type("doc", ("editor" :> Direct(<<UserRef, AnyRef>>)) @@ ("banned" :> Direct(<<UserRef>>)) @@
                        ("active" :> Direct(<<UserRef, AnyRef>>)) @@
                        ("viewer" :> Derived(And(<<ButNot(Comp("editor"), Comp("banned")), Comp("active")>>))))>>)>>,
  {Tuple(D1, "editor", Alice), Tuple(D1, "editor", Everyone), Tuple(D1, "banned", Bob),
   Tuple(D1, "active", Bob), Tuple(D1, "active", Everyone), Tuple(D1, "banned", Alice)})

\* The two operands of an exclusion are exclusions.
Exempt == Scenario(
  <<Model(<<Type("doc", ("member" :> Direct(<<UserRef>>)) @@ ("banned" :> Direct(<<UserRef>>)) @@
                        ("blocked" :> Direct(<<UserRef>>)) @@ ("exempt" :> Direct(<<UserRef>>)) @@
                        ("allowed" :> Derived(ButNot(Comp("member"), Comp("banned")))) @@
                        ("hidden" :> Derived(ButNot(Comp("blocked"), Comp("exempt")))) @@
                        ("viewer" :> Derived(ButNot(Comp("allowed"), Comp("hidden")))))>>)>>,
  {Tuple(D1, r, Bob) : r \in {"member", "banned", "blocked", "exempt"}} \cup {Tuple(D1, "member", Alice)})

\* A user and a userset on the same object id.
Friends == Scenario(
  <<[Model(<<Type("doc", ("viewer" :> Direct(<<UserRef, Ref("user", "friend")>>)))>>)
      EXCEPT !.types = <<Type("user", ("friend" :> Direct(<<UserRef>>)))>> \o Tail(@)]>>,
  {Tuple(D1, "viewer", Set("user", "bob", "friend")), Tuple(Obj("user", "bob"), "friend", Alice),
   Tuple(D1, "viewer", Alice), Tuple(D2, "viewer", Bob)})
=============================================================================
