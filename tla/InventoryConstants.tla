---------------------------- MODULE InventoryConstants ----------------------------
(***************************************************************************)
(* The data of the inventory ledger: the buckets of a balance row, the     *)
(* direction table of the movement types, the lines a caller asks to post  *)
(* and the movements they become (inventory.constants.ts and the types of  *)
(* inventory-posting.service.ts).  A grain stands for one balance row's    *)
(* key: product, variant, warehouse and lot.                               *)
(***************************************************************************)
EXTENDS Integers, Sequences

CONSTANTS
    Grains,      \* the balance rows
    Keys,        \* idempotency keys callers send
    Refs,        \* (referenceType, referenceId) pairs: the documents behind postings
    NoKey,       \* a request without an idempotency key
    NoRef,       \* a request, or a reversal, that names no document
    NoDeltas     \* a line that leaves its effect to its movement type

Buckets == {"onHand", "reserved", "inTransit", "quarantined", "damaged"}

Row == [Buckets -> Int]
EmptyRow == [b \in Buckets |-> 0]

MovementTypes ==
    {"OPENING_BALANCE", "PURCHASE_RECEIPT", "STOCK_ADJUSTMENT_IN", "PRODUCTION_OUTPUT",
     "SALES_RELEASE", "SUPPLIER_RETURN", "STOCK_ADJUSTMENT_OUT", "PRODUCTION_CONSUMPTION",
     "PROJECT_ISSUE", "INTERNAL_CONSUMPTION", "TRANSFER_OUT", "TRANSFER_IN",
     "CUSTOMER_RETURN", "RETURN_RECEIPT", "RETURN_RESTOCK", "RETURN_DISPOSE",
     "DAMAGE", "EXPIRY", "LOT_MIGRATION"}

(* The direction table: the types that raise and that lower each bucket.     *)
(* LOT_MIGRATION is in neither: it always comes with explicit deltas.        *)
Raising ==
    [onHand |-> {"OPENING_BALANCE", "PURCHASE_RECEIPT", "STOCK_ADJUSTMENT_IN",
                 "PRODUCTION_OUTPUT", "TRANSFER_IN", "CUSTOMER_RETURN", "RETURN_RECEIPT"},
     reserved |-> {},
     inTransit |-> {"TRANSFER_OUT"},
     quarantined |-> {"CUSTOMER_RETURN", "RETURN_RECEIPT"},
     damaged |-> {"DAMAGE", "EXPIRY"}]

Lowering ==
    [onHand |-> {"SALES_RELEASE", "SUPPLIER_RETURN", "STOCK_ADJUSTMENT_OUT",
                 "PRODUCTION_CONSUMPTION", "PROJECT_ISSUE", "INTERNAL_CONSUMPTION",
                 "TRANSFER_OUT", "RETURN_DISPOSE", "DAMAGE", "EXPIRY"},
     reserved |-> {},
     inTransit |-> {"TRANSFER_IN"},
     quarantined |-> {"RETURN_RESTOCK", "RETURN_DISPOSE"},
     damaged |-> {}]

BucketDeltasFor(type, qty) ==
    [b \in Buckets |-> (IF type \in Raising[b] THEN qty ELSE 0)
                     - (IF type \in Lowering[b] THEN qty ELSE 0)]

NegateDeltas(delta) == [b \in Buckets |-> -delta[b]]

AddDeltas(row, delta) == [b \in Buckets |-> row[b] + delta[b]]

(* allowNegative: the override of the command, the product or the caller's  *)
(* permission, whichever grants it.                                         *)
Line == [grain: Grains, type: MovementTypes, qty: Int,
         deltas: Row \cup {NoDeltas}, allowNegative: BOOLEAN]

LineDeltas(line) ==
    IF line.deltas = NoDeltas THEN BucketDeltasFor(line.type, line.qty) ELSE line.deltas

(* reversalOf is the number of the movement that the command reverses, or 0. *)
Command == [key: Keys \cup {NoKey}, ref: Refs \cup {NoRef},
            lines: Seq(Line), reversalOf: Nat]

(* Fault: the on-hand guard is missing. *)
AdmissibleOnHandUnchecked(row, line) ==
    /\ line.qty > 0
    /\ \A b \in Buckets \ {"onHand"} : AddDeltas(row, LineDeltas(line))[b] >= 0

(* The guards of one movement: a positive quantity, no bucket driven below  *)
(* zero, and on-hand below zero only under an override.                     *)
Admissible(row, line) ==
    LET after == AddDeltas(row, LineDeltas(line))
    IN  /\ line.qty > 0
        /\ after["onHand"] < 0 => line.allowNegative
        /\ \A b \in Buckets \ {"onHand"} : after[b] >= 0

(* A journal entry.  override is not a column: it is what the audit trail   *)
(* keeps of the permission under which the movement was posted.             *)
Movement == [no: Nat, grain: Grains, type: MovementTypes, qty: Int, delta: Row,
             ref: Refs \cup {NoRef}, key: Keys \cup {NoKey},
             reversalOf: Nat, override: BOOLEAN]

(* The entry for the i-th line of cmd: only the first carries the key. *)
MovementFor(cmd, i, no, ref) ==
    LET line == cmd.lines[i]
    IN  [no |-> no, grain |-> line.grain, type |-> line.type, qty |-> line.qty,
         delta |-> LineDeltas(line), ref |-> ref,
         key |-> IF i = 1 THEN cmd.key ELSE NoKey,
         reversalOf |-> cmd.reversalOf, override |-> line.allowNegative]

(* The command that restores what movement m did, whatever the balance. *)
ReversalOf(m, key) ==
    [key |-> key, ref |-> NoRef, reversalOf |-> m.no,
     lines |-> << [grain |-> m.grain, type |-> m.type, qty |-> m.qty,
                   deltas |-> NegateDeltas(m.delta), allowNegative |-> TRUE] >>]

(* Fault: the lookup by key finds nothing. *)
KeyedByNothing(journal, key) == {}

(* The entries of a journal that carry a key. *)
KeyedBy(journal, key) == { i \in DOMAIN journal : key # NoKey /\ journal[i].key = key }
=============================================================================
