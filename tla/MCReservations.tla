----------------------------- MODULE MCReservations -----------------------------
(* Small instances of Reservations. *)
EXTENDS Reservations

CONSTANTS a, b, bLot, r1, r2, s1, s2, l1, l2, l3, k1, k2, w1, w2, w3

(* a is not batch-tracked; b is, and its stock is on one lot row. *)
NilRow == [p \in Products |-> IF p = a THEN a ELSE b]
LotRows == [p \in Products |-> IF p = a THEN {} ELSE {bLot}]
OpeningStock == [g \in Grains |-> CASE g = a -> 3 [] g = b -> 0 [] g = bLot -> 2]

Line3(res, product, qty) == [res |-> res, product |-> product, qty |-> qty]
Item(product, qty, line) == [product |-> product, qty |-> qty, line |-> line]

(* r1 wants both products, r2 competes for a. *)
TwoReservations ==
    [l \in {l1, l2, l3} |-> CASE l = l1 -> Line3(r1, a, 1)
                              [] l = l2 -> Line3(r1, b, 1)
                              [] l = l3 -> Line3(r2, a, 2)]

(* The releases ask for more of l3 than there is between them. *)
ConsumingReleases ==
    [s \in Releases |-> IF s = s1 THEN << Item(a, 1, l1), Item(a, 1, l3) >>
                                  ELSE << Item(b, 1, l2), Item(a, 2, l3) >>]

(* s1 is so small that stock and reservations could bear posting it twice.    *)
SmallRelease ==
    [s \in Releases |-> IF s = s1 THEN << Item(a, 1, l1) >>
                                  ELSE << Item(b, 1, l2), Item(a, 2, l3) >>]

OneKeyEach == [s \in Releases |-> IF s = s1 THEN {k1} ELSE {k2}]

UserOps == {"confirm", "release", "cancel", "submit", "approve", "reject", "withdraw", "post"}
AllOps == UserOps \cup {"expire"}

(* Two users - one may trigger the expiry too - and the expiry timer. *)
UsersAndTimer ==
    [w \in {w1, w2, w3} |-> CASE w = w1 -> AllOps [] w = w2 -> UserOps [] w = w3 -> {"expire"}]

(* Two users who post the same releases, one of them also withdrawing them,   *)
(* the other cancelling reservations.                                         *)
PostersAndTimer ==
    [w \in {w1, w2, w3} |-> CASE w = w1 -> {"confirm", "post", "withdraw"}
                              [] w = w2 -> {"confirm", "cancel", "post"}
                              [] w = w3 -> {"expire"}]
=============================================================================
