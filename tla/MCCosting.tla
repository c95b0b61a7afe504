-------------------------------- MODULE MCCosting --------------------------------
(* Small instances of Costing: a product with two lots in one warehouse and one *)
(* in another.                                                                  *)
EXTENDS Costing, TLC

CONSTANTS a1, a2, b1, a, b, p1, p2

Warehouse == [r \in Rows |-> IF r = b1 THEN b ELSE a]
CostingSymmetry == Permutations({a1, a2}) \cup Permutations(Posters)
=============================================================================
