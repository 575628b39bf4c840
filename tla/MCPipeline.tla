----------------------------- MODULE MCPipeline -----------------------------
(* Small query graphs. Value 0 is the subject, 1 and 2 are objects, 3 is   *)
(* the wildcard of the subject's type.                                     *)
EXTENDS Pipeline, TLC

CONSTANTS U, W, A, D, R

Objects == 0..3
Same == [v \in Objects |-> {v}]
Reads(v, found) == [x \in Objects |-> IF x = v THEN found ELSE {}]
Nothing == [w \in {U, W, A, D, R} |-> {}]
Subject == <<0>>
SeedFirst(n) == [e \in 1..n |-> IF e = 1 THEN Subject ELSE <<>>]

Net(kind, src, dst, port, image, excluded, errors, cancel, stop) ==
  [workers |-> DOMAIN kind, kind |-> kind, edges |-> DOMAIN src, src |-> src, dst |-> dst,
   port |-> port, out |-> Len(src), image |-> image, label |-> [w \in DOMAIN kind |-> 3],
   excluded |-> [w \in DOMAIN kind |-> excluded[w]],
   seeds |-> SeedFirst(Len(src)), errors |-> errors, cancel |-> cancel, stop |-> stop]

(* "a but not b" and "a and b": the subject's type feeds both sides of a   *)
(* Difference or an Intersection; a holds objects 1 and 2, b only 2.       *)
Binary(kind, errors, cancel, stop) ==
  Net((U :> "terminal") @@ (D :> kind) @@ (R :> "basic"),
      <<None, U, U, D, R>>, <<U, D, D, R, None>>, <<0, 0, 1, 0, 0>>,
      <<Same, Reads(0, {1, 2}), Reads(0, {2}), Same, Same>>, Nothing, errors, cancel, stop)

(* "[user:*] or (x but not [user:*])": a wildcard, a direct subtract       *)
(* and a fan-in at a Basic worker that must not repeat an object.          *)
Or(errors, cancel, stop) ==
  Net((U :> "terminal") @@ (W :> "wildcard") @@ (D :> "direct") @@ (R :> "basic"),
      <<None, U, D, W, R>>, <<U, D, R, R, None>>, <<0, 0, 0, 1, 0>>,
      <<Same, Reads(0, {1, 2}), Same, Reads(3, {1}), Same>>,
      [Nothing EXCEPT ![D] = {2}], errors, cancel, stop)

(* "a but not b" where b is computed by a worker of its own and nothing in *)
(* the model leads from the subject to a: the base is a NoopMedium, and    *)
(* the Difference gives up while b is still being computed.                *)
NoBase(errors, cancel, stop) ==
  Net((U :> "terminal") @@ (A :> "basic") @@ (D :> "difference"),
      <<None, U, None, A, D>>, <<U, A, D, D, None>>, <<0, 0, 0, 1, 0>>,
      <<Same, Reads(0, {1, 2}), Same, Same, Same>>, Nothing, errors, cancel, stop)

(* "a but not b" at the end of the pipeline: with b empty, two objects go  *)
(* out over a channel of capacity one.                                     *)
LastExclusion(b, errors, cancel, stop) ==
  Net((U :> "terminal") @@ (D :> "difference"),
      <<None, U, U, D>>, <<U, D, D, None>>, <<0, 0, 1, 0>>,
      <<Same, Reads(0, {1, 2}), Reads(0, b), Same>>, Nothing, errors, cancel, stop)

(* One fault at a time: a read fails, the request is cancelled at any      *)
(* point, the caller stops at any point while a read may fail, a read      *)
(* fails while an operand has been given up.                               *)
MCGraphs ==
  { Binary("difference", 1, FALSE, FALSE), Binary("intersection", 1, FALSE, FALSE),
    Or(0, FALSE, FALSE), LastExclusion({2}, 0, TRUE, FALSE), LastExclusion({}, 1, FALSE, TRUE),
    NoBase(1, FALSE, FALSE) }

(* Two reads that fail.                                                    *)
MCTwoErrors == { Binary("difference", 2, FALSE, FALSE) }
=============================================================================
