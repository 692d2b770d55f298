---------------------------- MODULE MCCountSheet ----------------------------
(* Two warehouses that keep one product each: every product is off the     *)
(* sheet of the other warehouse.                                           *)
EXTENDS CountSheet, TLC

CONSTANTS w1, w2, r1, r2, d1, d2

MCOnHand == [w \in {w1, w2} |-> IF w = w1 THEN [r \in {r1} |-> 1] ELSE [r \in {r2} |-> 1]]

(* Documents are alike; so are the warehouses, each with its product.      *)
Exchanged == w1 :> w2 @@ w2 :> w1 @@ r1 :> r2 @@ r2 :> r1

Kept == [x \in {w1, w2, r1, r2} |-> x]

MCSymmetry == {d @@ x : d \in Permutations({d1, d2}), x \in {Kept, Exchanged}}
=============================================================================
