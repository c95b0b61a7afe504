------------------------------ MODULE MCWarehouse ------------------------------
(* Small instances of Warehouse. *)
EXTENDS Warehouse

CONSTANTS a, b, x, y, u1, u2, u3, u4, t1, g1, j1, q1, c1, c2, c3, k1, k2, w1, w2, ann, ben

(* a and b are rows of a product in two warehouses, x and y of a serialized  *)
(* one.  u1 and u4 are in stock, u2 was issued, u3 is new.                   *)
Stock == [g \in Grains |-> IF g \in {a, x} THEN 2 ELSE 0]
Unit(s, g) == [status |-> s, at |-> g]
Registry ==
    [u \in Units |-> CASE u = u2 -> Unit("ISSUED", x)
                       [] u = u3 -> Unit("UNREGISTERED", Nowhere)
                       [] OTHER -> Unit("IN_STOCK", x)]

Kinds == [d \in Docs |-> CASE d = t1 -> "transfer" [] d = g1 -> "receipt"
                           [] d = j1 -> "adjustment" [] d = q1 -> "return"
                           [] d \in {c1, c2, c3} -> "count" [] d \in {k1, k2} -> "task"]

Goods(g, to, n, S) == [grain |-> g, to |-> to, qty |-> n, units |-> S]
Receipt(g, n, due, S) == [grain |-> g, qty |-> n, expected |-> due, units |-> S]
Change(g, type, S) == [grain |-> g, type |-> type, qty |-> 1, units |-> S]
Back(g, n, S) == [grain |-> g, qty |-> n, units |-> S]

Of(g) == [grain |-> g, units |-> {}]

Contents ==
    [d \in Docs |->
        CASE d = t1 -> << << Goods(a, b, 1, {}), Goods(x, y, 1, {u1}) >>, << Goods(a, b, 2, {}) >> >>
          [] d = g1 -> << << Receipt(a, 1, 1, {}), Receipt(x, 1, 1, {u3}) >>, << Receipt(a, 1, 2, {}) >> >>
          [] d = j1 -> << << Change(x, "DAMAGE", {u1}), Change(a, "STOCK_ADJUSTMENT_IN", {}) >>,
                          << Change(x, "STOCK_ADJUSTMENT_OUT", {u1}) >> >>
          [] d = q1 -> << << Back(a, 2, {}), Back(x, 1, {u2}) >> >>
          [] d = c1 -> << << Of(a), Of(x) >> >>
          [] d \in {c2, c3} -> << << Of(a) >> >>
          [] d \in {k1, k2} -> << << >> >>]

(* One more than the books say, and a unit that nobody knew of for another;  *)
(* what the books say; one short.                                            *)
Seen(n, S) == [qty |-> n, units |-> S]
Findings ==
    [c \in Counts |-> IF c = c1 THEN {<< Seen(3, {}), Seen(2, {u4, u3}) >>, << Seen(2, {}), Seen(2, {u1, u4}) >>}
                      ELSE {<< Seen(1, {}) >>}]

TaskCounts == [k \in Tasks |-> IF k = k1 THEN c2 ELSE c3]
OfTasks == {c2, c3}

(* Requests for one document come with the one key the service gives them.   *)
Ops == {"create", "edit", "submit", "approve", "secondApprove", "reject", "cancel", "dispatch", "receive",
        "post", "intake", "dispose", "enter", "assign", "start", "recount"}
OneKey == [d \in Docs |-> [op \in Ops |-> {<< op, d >>}]]
DocumentKeys == Docs \X Ops \cup Ops \X Docs
ClientKeys == [d \in Docs |-> [op \in Ops |-> IF op = "dispose" THEN {NoKey, << op, d >>} ELSE {<< op, d >>}]]

Quantities == [r \in Returns |-> {<< 2, 1 >>}]
Disposal(i, out, n, S) == [line |-> i, outcome |-> out, qty |-> n, units |-> S]
SomeDisposals ==
    {Disposal(1, "RESTOCK", 1, {}), Disposal(1, "DISPOSE", 2, {}), Disposal(2, "DAMAGED", 1, {u2}),
     Disposal(2, "RETURN_TO_SUPPLIER", 1, {u2})}

NothingOn == [d \in Docs |-> {}]

(* Which documents there are, and how far they have come. *)
InPlay(f) == [d \in Docs |-> IF d \in DOMAIN f THEN f[d] ELSE "NONE"]
Scenarios ==
    {InPlay([d \in {t1, j1} |-> "APPROVED"]), InPlay(t1 :> "APPROVED" @@ g1 :> "DRAFT"),
     InPlay(t1 :> "APPROVED" @@ c1 :> "COUNTING"), InPlay(<< >>)}

(* The two tasks are alike, each with its count. *)
OtherTask == k1 :> k2 @@ k2 :> k1 @@ c2 :> c3 @@ c3 :> c2

Symmetry == Permutations(Workers) \cup Permutations(Users) \cup {OtherTask}

(* Two users who ask for anything; documents are not edited, adjustments not *)
(* submitted, and returns not received or cancelled, twice at a time.        *)
AnyOp == [w \in Workers |-> Ops]
Races ==
    [transfer |-> {"submit", "approve", "reject", "cancel", "dispatch", "receive"},
     receipt |-> {"cancel", "post"},
     adjustment |-> {"approve", "secondApprove", "reject", "cancel", "post"},
     return |-> {"dispose"},
     count |-> {"approve", "post", "cancel"},
     task |-> {"assign", "start", "cancel", "recount"}]
=============================================================================
