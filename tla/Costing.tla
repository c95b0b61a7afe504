--------------------------------- MODULE Costing ---------------------------------
(***************************************************************************)
(* What stock is worth: the moving average of each balance row, and under  *)
(* FIFO the cost layers of each scope (a product in a warehouse), opened   *)
(* by inflows and consumed by outflows oldest first, in the transaction    *)
(* that posts the movement.  The transaction has the lock of its row when  *)
(* it reads the strategy; the number sequence and the locks on layers let  *)
(* what follows happen as one step.  Costs are whole numbers of the        *)
(* smallest unit that is kept.                                             *)
(***************************************************************************)
EXTENDS Integers, Sequences, FiniteSets, SequencesExt, FiniteSetsExt

CONSTANTS
    Rows,            \* the balance rows of one product: a warehouse and a lot
    ScopeOf,         \* the scope that a row belongs to: its warehouse
    Prices,          \* unit costs goods are bought at
    MaxQty,          \* bound: units of one movement
    NoCost,          \* an inflow that comes without a cost
    Posters,         \* requests that may be under way
    Switchers,       \* users that may change the strategy
    Reversible,      \* types of movements that are reversed
    SwitchUnderWay,  \* whether the strategy may change while postings are under way
    MaxMovements     \* bound: length of the journal

ASSUME CostingAssumption ==
    /\ Prices \subseteq Nat \ {0} /\ Prices # {}
    /\ MaxQty \in Nat \ {0} /\ MaxMovements \in Nat
    /\ IsFiniteSet(Rows)
    /\ NoCost \notin Int
    /\ SwitchUnderWay \in BOOLEAN

VARIABLES
    policy,          \* the strategy of the product
    onHand,          \* of each row
    avgCost,
    layers,          \* of each scope, in order of received_at: [left, got, cost, source]
    journal,         \* movements: [type, row, delta, unit, spent, of, priced]
    posting,         \* what each poster is at
    switching        \* the strategy that a switcher has found it may write, or "none"

vars == << policy, onHand, avgCost, layers, journal, posting, switching >>

Scopes == { ScopeOf[r] : r \in Rows }
Strategies == {"WAC", "FIFO"}

ExplicitCostInflow == {"OPENING_BALANCE", "PURCHASE_RECEIPT", "STOCK_ADJUSTMENT_IN", "PRODUCTION_OUTPUT"}
FifoValueOutflow ==
    {"SALES_RELEASE", "TRANSFER_OUT", "SUPPLIER_RETURN", "STOCK_ADJUSTMENT_OUT", "DAMAGE", "EXPIRY",
     "PRODUCTION_CONSUMPTION", "PROJECT_ISSUE", "INTERNAL_CONSUMPTION", "RETURN_DISPOSE"}

Nothing == [type |-> "none"]

(* Half up. *)
Rounded(n, d) == (2 * n + d) \div (2 * d)

-----------------------------------------------------------------------------
(* Sums *)

Total(f, S) == MapThenSumSet(LAMBDA x : f[x], S)

LeftOf(ls) == [i \in DOMAIN ls |-> ls[i].left]
CostOf(ls) == [i \in DOMAIN ls |-> ls[i].got * ls[i].cost]

Left(ls) == Total(LeftOf(ls), DOMAIN ls)
Value(parts) == Total([i \in DOMAIN parts |-> parts[i].qty * parts[i].cost], DOMAIN parts)
StockOf(s) == Total(onHand, { r \in Rows : ScopeOf[r] = s })

-----------------------------------------------------------------------------
(* Layers *)

(* Fault: the newest layers are consumed first. *)
TakenNewest(ls, need, i) ==
    LET after == Total(LeftOf(ls), { j \in DOMAIN ls : j > i })
    IN  Min({ls[i].left, Max({0, need - after})})

(* What an outflow of need units takes from the i-th layer: what the older   *)
(* ones leave to take.                                                       *)
Taken(ls, need, i) ==
    LET before == Total(LeftOf(ls), { j \in DOMAIN ls : j < i })
    IN  Min({ls[i].left, Max({0, need - before})})

Consumed(ls, need) == [i \in DOMAIN ls |-> [ls[i] EXCEPT !.left = @ - Taken(ls, need, i)]]

(* The consumptions of an outflow, in the order of the layers. *)
Allocations(ls, need) ==
    LET upTo[n \in 0 .. Len(ls)] ==
            IF n = 0 THEN << >>
            ELSE IF Taken(ls, need, n) > 0
            THEN Append(upTo[n - 1], [qty |-> Taken(ls, need, n), cost |-> ls[n].cost])
            ELSE upTo[n - 1]
    IN  upTo[Len(ls)]

(* basisFromMovement, but for the joining of neighbours with the same cost. *)
Basis(m) == journal[m].spent

(* A layer for each part of a basis. *)
Opened(basis, source) ==
    [i \in DOMAIN basis |->
        [left |-> basis[i].qty, got |-> basis[i].qty, cost |-> basis[i].cost, source |-> source]]

-----------------------------------------------------------------------------
(* Requests: [type, row, delta, unit, basis, of]; of is the movement that    *)
(* one goes back to, or 0.                                                   *)

Request(type, r, delta, unit, basis, of) ==
    [type |-> type, row |-> r, delta |-> delta, unit |-> unit, basis |-> basis, of |-> of]

Quantities == 1 .. MaxQty
Of(type) == { m \in DOMAIN journal : journal[m].type = type /\ journal[m].of = 0 }

(* Goods are bought, or found without a cost. *)
Inflows ==
    { Request("PURCHASE_RECEIPT", r, MaxQty, c, << >>, 0) : r \in Rows, c \in Prices }
    \cup { Request("STOCK_ADJUSTMENT_IN", r, 1, NoCost, << >>, 0) : r \in Rows }

(* .. sold, or sent to another warehouse. *)
Outflows ==
    { Request(type, r, -q, NoCost, << >>, 0) :
        type \in {"SALES_RELEASE", "TRANSFER_OUT"}, r \in Rows, q \in Quantities }

(* Fault: what arrives is worth what it was on average where it left. *)
ArrivalAtAverage(m, r) ==
    Request("TRANSFER_IN", r, -journal[m].delta, journal[m].unit,
            << [qty |-> -journal[m].delta, cost |-> journal[m].unit] >>, m)

(* The receipt of a transfer, at the cost that its dispatch has consumed. *)
Arrival(m, r) == Request("TRANSFER_IN", r, -journal[m].delta, journal[m].unit, Basis(m), m)

Arrivals ==
    { Arrival(m, r) : m \in Of("TRANSFER_OUT"), r \in Rows }

(* Units of an issue come back: under FIFO each unit at the cost of the first *)
(* that the issue took; an issue without consumptions is refused.             *)
Returned(m) == Total([k \in DOMAIN journal |-> journal[k].delta],
                     { k \in DOMAIN journal : journal[k].type = "RETURN_RECEIPT" /\ journal[k].of = m })
FirstCost(m, q) ==
    IF policy = "FIFO" THEN [i \in 1 .. q |-> [qty |-> 1, cost |-> Basis(m)[1].cost]] ELSE << >>

SerialReturns ==
    { Request("RETURN_RECEIPT", r, q, NoCost, FirstCost(m, q), m) :
        r \in Rows, q \in Quantities,
        m \in { k \in Of("SALES_RELEASE") : policy = "FIFO" => Basis(k) # << >> } }

(* A return that nothing is known of. *)
PlainReturns ==
    { Request("RETURN_RECEIPT", r, 1, NoCost, << >>, 0) : r \in Rows }

(* reverseMovement: the same type, the opposite delta, the same unit cost. *)
Reversals ==
    { Request(journal[m].type, journal[m].row, -journal[m].delta, journal[m].unit, << >>, m) :
        m \in { k \in DOMAIN journal : journal[k].of = 0 /\ journal[k].type \in Reversible } }

IsReversal(j) == j.of # 0 /\ journal[j.of].type = j.type

-----------------------------------------------------------------------------
(* A request locks its row and reads the strategy. *)
Begin(p) ==
    /\ posting[p] = Nothing
    /\ Len(journal) < MaxMovements
    /\ SwitchUnderWay \/ \A u \in Switchers : switching[u] = "none"
    /\ \E j \in Inflows \cup Outflows \cup Arrivals \cup SerialReturns \cup PlainReturns \cup Reversals :
          /\ \A o \in Posters : posting[o] # Nothing => posting[o].row # j.row
          /\ j.type = "TRANSFER_IN" => ScopeOf[j.row] # ScopeOf[journal[j.of].row]
          /\ posting' = [posting EXCEPT
                ![p] = [type |-> j.type, row |-> j.row, delta |-> j.delta, unit |-> j.unit,
                        basis |-> j.basis, of |-> j.of, strategy |-> policy]]
    /\ UNCHANGED << policy, onHand, avgCost, layers, journal, switching >>

(* A transfer arrives once, and no more units come back than went.           *)
FirstTime(j) ==
    /\ j.type = "TRANSFER_IN" => \A m \in DOMAIN journal : journal[m].of # j.of
    /\ j.type = "RETURN_RECEIPT" /\ j.of # 0 => Returned(j.of) + j.delta <= -journal[j.of].delta

Consumes(j) == j.strategy = "FIFO" /\ j.delta < 0 /\ j.type \in FifoValueOutflow

(* Under FIFO an inflow has a basis or comes with a cost, and what flows out *)
(* is covered by layers.                                                     *)
Valued(j) ==
    /\ j.strategy = "FIFO" /\ j.delta > 0 /\ j.basis = << >> =>
          j.type \in ExplicitCostInflow /\ j.unit # NoCost
    /\ Consumes(j) => Left(layers[ScopeOf[j.row]]) >= -j.delta

Admitted(j) == FirstTime(j) /\ Valued(j) /\ (onHand[j.row] + j.delta >= 0 \/ IsReversal(j))

(* Fault: the value is spread over the stock that was there before. *)
BlendedOverOld(j) ==
    LET old == onHand[j.row]
        unit == IF j.unit = NoCost THEN avgCost[j.row] ELSE j.unit
    IN  IF j.delta > 0 /\ old > 0
        THEN Rounded(old * avgCost[j.row] + j.delta * unit, old)
        ELSE IF j.delta > 0 THEN unit ELSE avgCost[j.row]

(* computeCost: an inflow is blended into the average, at the average if it  *)
(* has no cost of its own; an outflow leaves the average alone.              *)
UnitCost(j) == IF j.delta > 0 /\ j.unit # NoCost THEN j.unit ELSE avgCost[j.row]

Blended(j) ==
    LET new == onHand[j.row] + j.delta
    IN  IF j.delta > 0 /\ new > 0
        THEN Rounded(onHand[j.row] * avgCost[j.row] + j.delta * UnitCost(j), new)
        ELSE avgCost[j.row]

Opens(j) == j.strategy = "FIFO" /\ j.delta > 0

(* The rest of the transaction. *)
Commit(p) ==
    LET j == posting[p]
        s == ScopeOf[j.row]
        spent == IF Consumes(j) THEN Allocations(layers[s], -j.delta) ELSE << >>
        unit == IF Consumes(j) THEN Rounded(Value(spent), -j.delta) ELSE UnitCost(j)
        basis == IF j.basis # << >> THEN j.basis ELSE << [qty |-> j.delta, cost |-> unit] >>
    IN  /\ j # Nothing
        /\ Admitted(j)
        /\ onHand' = [onHand EXCEPT ![j.row] = @ + j.delta]
        /\ avgCost' = [avgCost EXCEPT ![j.row] = Blended(j)]
        /\ layers' = [layers EXCEPT ![s] =
              IF Consumes(j) THEN Consumed(@, -j.delta)
              ELSE IF Opens(j) THEN @ \o Opened(basis, Len(journal) + 1)
              ELSE @]
        /\ journal' = Append(journal,
              [type |-> j.type, row |-> j.row, delta |-> j.delta, unit |-> unit, spent |-> spent,
               of |-> j.of, priced |-> j.unit # NoCost])
        /\ posting' = [posting EXCEPT ![p] = Nothing]
        /\ UNCHANGED << policy, switching >>

Refuse(p) ==
    /\ posting[p] # Nothing
    /\ ~Admitted(posting[p])
    /\ posting' = [posting EXCEPT ![p] = Nothing]
    /\ UNCHANGED << policy, onHand, avgCost, layers, journal, switching >>

-----------------------------------------------------------------------------
(* Fault: nobody looks whether there is stock. *)
MaySwitchAnyTime(to) == TRUE

(* Another strategy wants the stock to be zero .. *)
MaySwitch(to) == policy # to => Total(onHand, Rows) <= 0

(* upsertPolicy: the stock is looked at ..                                   *)
CheckSwitch(u, to) ==
    /\ switching[u] = "none"
    /\ SwitchUnderWay \/ \A p \in Posters : posting[p] = Nothing
    /\ MaySwitch(to)
    /\ switching' = [switching EXCEPT ![u] = to]
    /\ UNCHANGED << policy, onHand, avgCost, layers, journal, posting >>

(* .. and the strategy written. *)
WriteSwitch(u) ==
    /\ switching[u] # "none"
    /\ policy' = switching[u]
    /\ switching' = [switching EXCEPT ![u] = "none"]
    /\ UNCHANGED << onHand, avgCost, layers, journal, posting >>

-----------------------------------------------------------------------------
Init ==
    /\ policy = "WAC"
    /\ onHand = [r \in Rows |-> 0]
    /\ avgCost = [r \in Rows |-> 0]
    /\ layers = [s \in Scopes |-> << >>]
    /\ journal = << >>
    /\ posting = [p \in Posters |-> Nothing]
    /\ switching = [u \in Switchers |-> "none"]

Next ==
    \/ \E p \in Posters : Begin(p) \/ Commit(p) \/ Refuse(p)
    \/ \E u \in Switchers : WriteSwitch(u) \/ \E to \in Strategies : CheckSwitch(u, to)

Spec == Init /\ [][Next]_vars

-----------------------------------------------------------------------------
(* Properties *)

(* "Remaining quantities reconcile to on-hand": under FIFO the layers of a   *)
(* scope are exactly its stock, of whatever lots, through switches of the    *)
(* strategy and returns, so that what is sold next can be costed.            *)
LayersCoverStock ==
    policy = "FIFO" => \A s \in Scopes : Left(layers[s]) = StockOf(s)

(* A layer is not touched while an older one of its scope has units left. *)
OldestFirst ==
    \A s \in Scopes : \A i, k \in DOMAIN layers[s] :
        i < k /\ layers[s][k].left < layers[s][k].got => layers[s][i].left = 0

(* A transfer moves cost: the layers it opens at its destination are worth   *)
(* what it has consumed at its source.                                       *)
TransferKeepsCost ==
    \A s \in Scopes : \A i \in DOMAIN layers[s] :
        LET m == layers[s][i].source
        IN  journal[m].type = "TRANSFER_IN" =>
                Total(CostOf(layers[s]), { k \in DOMAIN layers[s] : layers[s][k].source = m })
                = Value(journal[journal[m].of].spent)

(* The average of a row whose goods all came with a cost lies between the     *)
(* lowest and the highest of these, whatever came, went and was rounded.     *)
AverageWithinCosts ==
    \A r \in Rows :
        LET came == { m \in DOMAIN journal : journal[m].row = r /\ journal[m].delta > 0 }
        IN  came # {} /\ (\A m \in came : journal[m].priced) =>
                /\ \E m \in came : journal[m].unit <= avgCost[r]
                /\ \E m \in came : journal[m].unit >= avgCost[r]
=============================================================================
