----------------------------- MODULE TupleStore -----------------------------
(***************************************************************************)
(* What storage.RelationshipTupleWriter and ChangelogBackend promise       *)
(* (pkg/storage/storage.go): a Write takes effect at once and as a whole,  *)
(* deletes before writes, deletes only what exists, writes only what does  *)
(* not, and leaves one entry of the changelog for each of the two.         *)
(***************************************************************************)
EXTENDS Sequences, SequencesExt

CONSTANTS
  Keys,     \* the tuple keys of a store
  Conds,    \* the conditions a tuple may carry
  Absent    \* not a condition: there is no such tuple

VARIABLES
  tuples,   \* what the store holds: the condition of each key, or Absent
  changes   \* the changelog, in the order in which the changes took effect

Deletions(ds) == [i \in 1..Len(ds) |-> [op |-> "delete", key |-> ds[i], cond |-> Absent]]
Insertions(ws, c) == [i \in 1..Len(ws) |-> [op |-> "write", key |-> ws[i], cond |-> c[ws[i]]]]

Init == /\ tuples \in [Keys -> Conds \cup {Absent}]
        /\ changes = <<>>

Write ==
  \E D \in SUBSET {k \in Keys : tuples[k] # Absent},
     W \in SUBSET {k \in Keys : tuples[k] = Absent} :
    \E ds \in SetToSeqs(D), ws \in SetToSeqs(W), c \in [W -> Conds] :
      /\ tuples' = [k \in Keys |-> IF k \in D THEN Absent ELSE
                                   IF k \in W THEN c[k] ELSE tuples[k]]
      /\ changes' = changes \o Deletions(ds) \o Insertions(ws, c)

Spec == Init /\ [][Write]_<<tuples, changes>>
=============================================================================
