---------------------------- MODULE MCCheckCache ----------------------------
(* One tuple, an iterator over its object and one over its user.           *)
EXTENDS CheckCache

MCTuples ==
  {[object |-> "doc1", type |-> "doc", relation |-> "viewer", user |-> "team#member"]}
ByObject == [op |-> "object", object |-> "doc1", relation |-> "viewer"]
ByUser == [op |-> "user", type |-> "doc", relation |-> "viewer", users |-> {"team#member"}]
MCKeys == {ByObject, ByUser}

Setting(v2, queries, listObjects, key, preferences) ==
  [v2 |-> v2, queries |-> queries, iterators |-> TRUE, listObjects |-> listObjects,
   keys |-> {key}, preferences |-> preferences]

(* The iterator caches with invalidations at any time, and both caches     *)
(* with invalidations Check triggers.                                      *)
MCSettings ==
  { Setting(FALSE, FALSE, TRUE, ByUser, {FALSE}), Setting(TRUE, FALSE, FALSE, ByObject, {FALSE}),
    Setting(FALSE, TRUE, FALSE, ByUser, {FALSE, TRUE}) }
=============================================================================
