----------------------------- MODULE TupleReads -----------------------------
(***************************************************************************)
(* The four reads of a tuple store, as each backend implements them over   *)
(* the rows of one store, and the reader that puts the contextual tuples   *)
(* of a request in front of a backend.                                     *)
(*                                                                         *)
(* rows is the set of the stored tuples, and a read answers with a set:    *)
(* the order of the rows and the repetition of one are left out, as none   *)
(* of the callers modelled here depends on them.  A filter names an        *)
(* object, a relation and a user, "" for a part it leaves open (`doc:' has *)
(* a type and no id), and a set of conditions, empty for any.  A backend   *)
(* is "memory", "postgres", "mysql" or "sqlite": sqlite keeps the parts of *)
(* a user in columns of their own, the others its whole string.            *)
(***************************************************************************)
EXTENDS Typesystem

Backends == {"memory", "postgres", "mysql", "sqlite"}
NoObject == [type |-> "", id |-> ""]
NoUser == [type |-> "", id |-> "", rel |-> ""]
Filter(o, r, u, conds) == [obj |-> o, rel |-> r, user |-> u, conds |-> conds]

\* tuple.GetUserTypeFromUser: usersets and typed wildcards are stored alike.
IsUserSet(u) == IsObjectRelation(u) \/ IsTypedWildcard(u)
ConditionsMatch(conds, t) == conds = {} \/ t.cond \in conds

(***************************************************************************)
(* Read.                                                                   *)
(***************************************************************************)
\* match: a user without an id stands for every user of its type.
match(t, f) ==
  /\ f.obj # NoObject => t.obj.type = f.obj.type /\ f.obj.id \in {"", t.obj.id}
  /\ f.rel \in {"", t.rel}
  /\ f.user # NoUser => IF f.user.id # "" THEN t.user = f.user ELSE t.user.type = f.user.type

\* Without object, relation and user the whole store is copied, and the
\* conditions are not looked at.
memoryRead(rows, f) ==
  IF f.obj = NoObject /\ f.rel = "" /\ f.user = NoUser THEN rows
  ELSE {t \in rows : match(t, f) /\ ConditionsMatch(f.conds, t)}

postgresRead(rows, f) ==
  {t \in rows :
    /\ f.obj.type \in {"", t.obj.type} /\ f.obj.id \in {"", t.obj.id}
    /\ f.rel \in {"", t.rel}
    /\ f.user # NoUser => IF f.user.id # "" THEN t.user = f.user ELSE t.user.type = f.user.type
    /\ ConditionsMatch(f.conds, t)}

mysqlRead(rows, f) == postgresRead(rows, f)

\* Mutant: the id of the user is left out of the filter.
sqliteReadByUserType(rows, f) ==
  {t \in rows :
    /\ f.obj.type \in {"", t.obj.type} /\ f.obj.id \in {"", t.obj.id}
    /\ f.rel \in {"", t.rel}
    /\ f.user.type \in {"", t.user.type}
    /\ f.user.rel \in {"", t.user.rel}
    /\ ConditionsMatch(f.conds, t)}

\* The user by column: a part the filter leaves empty is not constrained.
sqliteRead(rows, f) ==
  {t \in rows :
    /\ f.obj.type \in {"", t.obj.type} /\ f.obj.id \in {"", t.obj.id}
    /\ f.rel \in {"", t.rel}
    /\ f.user.type \in {"", t.user.type}
    /\ f.user.id \in {"", t.user.id}
    /\ f.user.rel \in {"", t.user.rel}
    /\ ConditionsMatch(f.conds, t)}

Read(b, rows, f) ==
  CASE b = "memory" -> memoryRead(rows, f)
    [] b = "postgres" -> postgresRead(rows, f)
    [] b = "mysql" -> mysqlRead(rows, f)
    [] b = "sqlite" -> sqliteRead(rows, f)

(***************************************************************************)
(* ReadUserTuple: the set of the one tuple found, empty for ErrNotFound.   *)
(***************************************************************************)
memoryReadUserTuple(rows, f) == {t \in rows : match(t, f) /\ ConditionsMatch(f.conds, t)}

postgresReadUserTuple(rows, f) ==
  {t \in rows : /\ t.obj = f.obj /\ t.rel = f.rel /\ t.user = f.user
                /\ IsUserSet(t.user) = IsUserSet(f.user)
                /\ ConditionsMatch(f.conds, t)}

mysqlReadUserTuple(rows, f) == postgresReadUserTuple(rows, f)

sqliteReadUserTuple(rows, f) ==
  {t \in rows :
    /\ t.obj = f.obj /\ t.rel = f.rel
    /\ t.user.type = f.user.type /\ t.user.id = f.user.id /\ t.user.rel = f.user.rel
    /\ IsUserSet(t.user) = IsUserSet(f.user)
    /\ ConditionsMatch(f.conds, t)}

ReadUserTuple(b, rows, f) ==
  CASE b = "memory" -> memoryReadUserTuple(rows, f)
    [] b = "postgres" -> postgresReadUserTuple(rows, f)
    [] b = "mysql" -> mysqlReadUserTuple(rows, f)
    [] b = "sqlite" -> sqliteReadUserTuple(rows, f)

(***************************************************************************)
(* ReadUsersetTuples: the usersets and wildcards of the allowed types.     *)
(***************************************************************************)
\* A wildcard restriction has no relation, and the test of the conditions
\* comes after the tuple has been kept, so it drops nothing.
memoryReadUsersetTuples(rows, f, refs) ==
  {t \in rows :
    /\ match(t, f)
    /\ IsUserSet(t.user)
    /\ refs = {} \/ \E x \in refs : /\ x.type = t.user.type
                                    /\ (IF x.rel = "*" THEN "" ELSE x.rel) = t.user.rel}

\* _user LIKE 'type:%#relation', or = 'type:*'.
postgresReadUsersetTuples(rows, f, refs) ==
  {t \in postgresRead(rows, f) :
    /\ IsUserSet(t.user)
    /\ refs = {} \/ \E x \in refs :
         /\ x.type = t.user.type
         /\ IF x.rel = "*" THEN t.user.id = "*" /\ t.user.rel = "" ELSE t.user.rel = x.rel}

mysqlReadUsersetTuples(rows, f, refs) == postgresReadUsersetTuples(rows, f, refs)

sqliteReadUsersetTuples(rows, f, refs) ==
  {t \in sqliteRead(rows, f) :
    /\ IsUserSet(t.user)
    /\ refs = {} \/ \E x \in refs :
         x.type = t.user.type /\ IF x.rel = "*" THEN t.user.id = "*" ELSE t.user.rel = x.rel}

ReadUsersetTuples(b, rows, f, refs) ==
  CASE b = "memory" -> memoryReadUsersetTuples(rows, f, refs)
    [] b = "postgres" -> postgresReadUsersetTuples(rows, f, refs)
    [] b = "mysql" -> mysqlReadUsersetTuples(rows, f, refs)
    [] b = "sqlite" -> sqliteReadUsersetTuples(rows, f, refs)

(***************************************************************************)
(* ReadStartingWithUser: the tuples of a type and relation with one of the *)
(* users.  ids is [given, set]: the set of object ids, when there is one.  *)
(***************************************************************************)
StartFilter(t, r, users) ==
  [type |-> t, rel |-> r, users |-> users, ids |-> [given |-> FALSE, set |-> {}], conds |-> {}]

memoryReadStartingWithUser(rows, f) ==
  {t \in rows :
    /\ t.obj.type = f.type /\ t.rel = f.rel
    /\ f.ids.given => t.obj.id \in f.ids.set
    /\ ConditionsMatch(f.conds, t)
    /\ t.user \in f.users}

\* An empty set of ids constrains nothing.
postgresReadStartingWithUser(rows, f) ==
  {t \in rows :
    /\ t.obj.type = f.type /\ t.rel = f.rel /\ t.user \in f.users
    /\ f.ids.set # {} => t.obj.id \in f.ids.set
    /\ ConditionsMatch(f.conds, t)}

mysqlReadStartingWithUser(rows, f) == postgresReadStartingWithUser(rows, f)

\* By column again: a user without a relation constrains type and id only.
sqliteReadStartingWithUser(rows, f) ==
  {t \in rows :
    /\ t.obj.type = f.type /\ t.rel = f.rel
    /\ \E u \in f.users : /\ t.user.type = u.type /\ t.user.id = u.id
                          /\ u.rel \in {"", t.user.rel}
    /\ f.ids.set # {} => t.obj.id \in f.ids.set
    /\ ConditionsMatch(f.conds, t)}

ReadStartingWithUser(b, rows, f) ==
  CASE b = "memory" -> memoryReadStartingWithUser(rows, f)
    [] b = "postgres" -> postgresReadStartingWithUser(rows, f)
    [] b = "mysql" -> mysqlReadStartingWithUser(rows, f)
    [] b = "sqlite" -> sqliteReadStartingWithUser(rows, f)

(***************************************************************************)
(* CombinedTupleReader over a reader rd == [b, rows, ctx]: the contextual  *)
(* tuples come with those of the store, and in ReadUserTuple instead of    *)
(* them.                                                                   *)
(***************************************************************************)
filterTuples(ctx, o, r, users) ==
  {t \in ctx : o \in {NoObject, t.obj} /\ r \in {"", t.rel} /\ (users = {} \/ t.user \in users)}

\* The user of the filter is not looked at in the contextual tuples.
CombinedRead(rd, f) == filterTuples(rd.ctx, f.obj, f.rel, {}) \cup Read(rd.b, rd.rows, f)

CombinedReadUserTuple(rd, f) ==
  LET found == filterTuples(rd.ctx, f.obj, f.rel, {f.user})
  IN IF found # {} THEN {CHOOSE t \in found : TRUE} ELSE ReadUserTuple(rd.b, rd.rows, f)

tupleMatchesAllowedUserTypeRestrictions(t, refs) ==
  IsUserSet(t.user) /\ [type |-> t.user.type, rel |-> Facet(t.user)] \in
                         {[type |-> x.type, rel |-> x.rel] : x \in refs}

CombinedReadUsersetTuples(rd, f, refs) ==
  {t \in filterTuples(rd.ctx, f.obj, f.rel, {}) : tupleMatchesAllowedUserTypeRestrictions(t, refs)}
    \cup ReadUsersetTuples(rd.b, rd.rows, f, refs)

\* Neither the ids nor the conditions of the filter bind a contextual tuple.
CombinedReadStartingWithUser(rd, f) ==
  {t \in filterTuples(rd.ctx, NoObject, f.rel, f.users) : t.obj.type = f.type}
    \cup ReadStartingWithUser(rd.b, rd.rows, f)
=============================================================================
