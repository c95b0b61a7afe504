--------------------------- MODULE MCInventoryPosting ---------------------------
(* Small instances of InventoryPosting. *)
EXTENDS InventoryPosting, TLC

CONSTANTS g1, g2, k1, k2, k3, k4, d1, d2, d3

Plain(g, type, qty) ==
    [grain |-> g, type |-> type, qty |-> qty, deltas |-> NoDeltas, allowNegative |-> FALSE]
Explicit(g, type, qty, bucket, delta) ==
    [Plain(g, type, qty) EXCEPT !.deltas = [EmptyRow EXCEPT ![bucket] = delta]]
Overriding(l) == [l EXCEPT !.allowNegative = TRUE]
Cmd(key, ref, lines) == [key |-> key, ref |-> ref, lines |-> lines, reversalOf |-> 0]

(* A receipt that comes back to its first row, a release that locks the rows  *)
(* in the other order, the two halves of a transfer - the dispatch under an   *)
(* override, the arrival with explicit deltas - the latter without a key.     *)
Receipt == Cmd(k1, d1, << Plain(g1, "PURCHASE_RECEIPT", 1), Plain(g2, "PURCHASE_RECEIPT", 1),
                          Plain(g1, "PURCHASE_RECEIPT", 1) >>)
Release == Cmd(k2, d2, << Plain(g2, "SALES_RELEASE", 1), Plain(g1, "SALES_RELEASE", 1) >>)
Dispatch == Cmd(k3, d3, << Overriding(Plain(g1, "TRANSFER_OUT", 1)) >>)
Arrive == Cmd(NoKey, d3, << Explicit(g1, "TRANSFER_IN", 1, "inTransit", -1),
                            Explicit(g2, "TRANSFER_IN", 1, "onHand", 1) >>)

DocumentCommands == { Receipt, Release, Dispatch, Arrive }
=============================================================================
