------------------------------- MODULE Serials -------------------------------
(***************************************************************************)
(* SerialsService: the registry of the units of serialized products.       *)
(* Documents read it before they post (validation) and change it in the    *)
(* transaction that records what was posted.  The change is a look at the  *)
(* units and then an update that asks for nothing: no row is locked in     *)
(* between, so callers take the two in steps of their own.                 *)
(***************************************************************************)
EXTENDS StockLedger, FiniteSets, FiniteSetsExt

CONSTANTS
    Units,        \* serial numbers
    Nowhere,      \* the place of a unit that has no row
    Serialized    \* the rows of serialized products

ASSUME UnitsAssumption == IsFiniteSet(Units)

VARIABLE units    \* inventory_serials: [status, at], at being a row of the balance

UnitStatus ==
    {"UNREGISTERED", "IN_STOCK", "IN_TRANSIT", "QUARANTINED", "DAMAGED", "ISSUED", "DISPOSED"}

(* Fault: the state a unit is expected in is not looked at. *)
MayMoveFromAny(S, from, places) == \A u \in S : units[u].at \in places

(* The checks of transitionExistingInTx: every unit is in the state, and at  *)
(* one of the places, it is expected to leave.                               *)
MayMove(S, from, places) ==
    \A u \in S : units[u].status = from /\ units[u].at \in places

(* .. and its update. *)
Moved(S, to, g) ==
    [u \in Units |-> IF u \in S THEN [status |-> to, at |-> g] ELSE units[u]]

(* The units of every line, each to the place of its line. *)
LinesMoved(lines, to, place) ==
    [u \in Units |->
        IF \E i \in DOMAIN lines : u \in lines[i].units
        THEN [status |-> to, at |-> place[CHOOSE i \in DOMAIN lines : u \in lines[i].units]]
        ELSE units[u]]

(* No unit of S has a row yet: what receipts and positive adjustments check, *)
(* and the unique index once more.                                           *)
Unregistered(S) == \A u \in S : units[u].status = "UNREGISTERED"

-----------------------------------------------------------------------------
(* reconcile() *)

(* What of row g the units in a state should add up to. *)
Held(g) ==
    [IN_STOCK |-> balance[g]["onHand"] - balance[g]["quarantined"],
     IN_TRANSIT |-> balance[g]["inTransit"],
     QUARANTINED |-> balance[g]["quarantined"],
     DAMAGED |-> balance[g]["damaged"]]

(* The rows of serialized stock where they do not. *)
Drift ==
    { g \in Serialized :
        \E s \in DOMAIN Held(g) :
            Cardinality({ u \in Units : units[u] = [status |-> s, at |-> g] }) # Held(g)[s] }
=============================================================================
