------------------------------- MODULE StockLedger -------------------------------
(***************************************************************************)
(* What the inventory ledger promises its callers: commands take effect    *)
(* whole, one after the other, at most once per idempotency key, on a      *)
(* balance that never shows a partial command.  No transactions, no locks, *)
(* no failures: those are the business of InventoryPosting, which is shown *)
(* to implement this module.                                               *)
(***************************************************************************)
EXTENDS InventoryConstants, SequencesExt

CONSTANT Commands    \* the postings callers may ask for

VARIABLES
    balance,         \* inventory_balances: a row per grain
    movements        \* inventory_movements in the order of their numbers

ledgerVars == << balance, movements >>

(* The balances after the lines of a command, as long as all are admissible. *)
PostLine(acc, line) ==
    IF acc.ok /\ Admissible(acc.bal[line.grain], line)
    THEN [acc EXCEPT !.bal[line.grain] = AddDeltas(@, LineDeltas(line))]
    ELSE [acc EXCEPT !.ok = FALSE]

Posted(lines) == FoldLeft(PostLine, [ok |-> TRUE, bal |-> balance], lines)

LedgerInit ==
    /\ balance = [g \in Grains |-> EmptyRow]
    /\ movements = << >>

Post(cmd, ref) ==
    /\ KeyedBy(movements, cmd.key) = {}
    /\ Posted(cmd.lines).ok
    /\ balance' = Posted(cmd.lines).bal
    /\ movements' = movements \o
           [i \in DOMAIN cmd.lines |-> MovementFor(cmd, i, Len(movements) + i, ref)]

LedgerNext ==
    \/ \E cmd \in Commands, ref \in Refs : Post(cmd, ref)
    \/ \E i \in DOMAIN movements, key \in Keys \cup {NoKey} :
          /\ movements[i].reversalOf = 0
          /\ Post(ReversalOf(movements[i], key), NoRef)

LedgerSpec == LedgerInit /\ [][LedgerNext]_ledgerVars
=============================================================================
