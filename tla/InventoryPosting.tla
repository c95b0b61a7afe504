----------------------------- MODULE InventoryPosting -----------------------------
(***************************************************************************)
(* InventoryPostingService: the one door through which stock quantities    *)
(* change.  Every call is an HTTP request of its own; its work is one      *)
(* READ COMMITTED Postgres transaction that handles the command's lines in *)
(* the order given.  For each line the transaction locks the balance row   *)
(* (INSERT .. ON CONFLICT DO NOTHING, SELECT .. FOR UPDATE), checks the    *)
(* guards, writes the row, draws the next number of the organisation's     *)
(* number sequence - an upsert, so the sequence row stays locked until the *)
(* transaction ends - and inserts the movement, whose idempotency key is   *)
(* unique.  What a transaction has written is its draft: others see        *)
(* balance, movements and sequence as last committed.                      *)
(*                                                                         *)
(* Costing is left to another module: average cost and cost layers hang on *)
(* the same locks and change no quantity.                                  *)
(***************************************************************************)
EXTENDS InventoryConstants, FiniteSets, FiniteSetsExt

CONSTANTS
    Calls,       \* requests in flight
    Commands,    \* the postings callers may ask for
    ReversalKeys,\* keys sent with requests for a reversal
    NoCall,      \* an unlocked row
    NoCommand,   \* a call that has not begun
    MaxReversals \* bound: reversals that are requested in a run


(* A command posts at least one line; reversals have an entry point of their *)
(* own.  A call that names no document draws a UUID: its own name stands for *)
(* it, so no document has it.                                                *)
ASSUME CommandsAssumption ==
    /\ Commands \subseteq Command
    /\ \A c \in Commands : c.lines # << >> /\ c.reversalOf = 0 /\ c.ref \notin Calls
    /\ Calls \subseteq Refs
    /\ ReversalKeys \subseteq Keys

ASSUME NullsAssumption ==
    /\ NoCall \notin Calls
    /\ NoKey \notin Keys
    /\ NoRef \notin Refs
    /\ NoDeltas \notin Row
    /\ NoCommand \notin Command
    /\ MaxReversals \in Nat

VARIABLES
    balance,     \* inventory_balances, as committed
    movements,   \* inventory_movements, as committed, in insertion order
    sequence,    \* number_sequences.value of key 'movement', as committed
    rowLock,     \* the call whose transaction holds each balance row
    seqLock,     \* the call whose transaction holds the sequence row
    pc,          \* where each call is
    cmd,         \* the command of each call
    line,        \* the line its transaction is at
    draft,       \* the rows its transaction has locked, as it sees them
    out,         \* the movements its transaction has inserted
    answer       \* the entries of the journal the call answers with

dbVars == << balance, movements, sequence >>
lockVars == << rowLock, seqLock >>
vars == << balance, movements, sequence, rowLock, seqLock, pc, cmd, line, draft, out, answer >>

InTransaction == {"lock", "insert", "commit"}
Ended == {"posted", "replayed", "refused", "conflict", "failed"}
PCs == {"idle", "lost"} \cup InTransaction \cup Ended

-----------------------------------------------------------------------------
(* Helpers *)

CurrentLine(c) == cmd[c].lines[line[c]]

RefOf(c) == IF cmd[c].reversalOf # 0 THEN NoRef
            ELSE IF cmd[c].ref = NoRef THEN c ELSE cmd[c].ref

(* What a lookup by referenceType and referenceId finds.  No command posts  *)
(* under the reference type of reversals.                                   *)
(* Fault: only the keyed movement of the document is found. *)
GroupByKey(ref) == { i \in DOMAIN movements : movements[i].ref = ref /\ movements[i].key # NoKey }
Group(ref) == { i \in DOMAIN movements : ref # NoRef /\ movements[i].ref = ref }

(* SELECT .. FOR UPDATE and the upsert of the number sequence wait for the   *)
(* transaction that holds the row.                                           *)
(* Fault: the row is read without FOR UPDATE. *)
RowUnlocked(c, g) == TRUE
RowFree(c, g) == rowLock[g] \in {c, NoCall}

(* Fault: the number is read and written in two statements. *)
SequenceUnlocked(c) == TRUE
SequenceFree(c) == seqLock \in {c, NoCall}

(* The row as the transaction sees it once it has the lock: as an earlier    *)
(* line left it, otherwise as last committed.                                *)
(* Fault: a transaction does not see its own earlier lines. *)
RowAsCommitted(c, g) == balance[g]
RowSeen(c, g) == IF rowLock[g] = c THEN draft[c][g] ELSE balance[g]

(* The unique index on the key, which only the first movement carries. *)
(* Fault: the idempotency key has no unique index. *)
KeyUnchecked(c) == TRUE
KeyFree(c) == line[c] = 1 => KeyedBy(movements, cmd[c].key) = {}

(* Fault: the loop over the lines ends one too late. *)
LineBeyondLast(c) == line[c] > Len(cmd[c].lines)
LastLine(c) == line[c] = Len(cmd[c].lines)

CanInsert(c) == Admissible(draft[c][CurrentLine(c).grain], CurrentLine(c))

(* Fault: the sequence row stays locked when the transaction ends. *)
EndWithoutSequence(c) ==
    /\ rowLock' = [g \in Grains |-> IF rowLock[g] = c THEN NoCall ELSE rowLock[g]]
    /\ UNCHANGED << seqLock, cmd >>
    /\ draft' = [draft EXCEPT ![c] = [g \in Grains |-> EmptyRow]]
    /\ out' = [out EXCEPT ![c] = << >>]
    /\ line' = [line EXCEPT ![c] = 1]

(* The transaction of c ends: its locks go and its draft is forgotten. *)
EndTransaction(c) ==
    /\ rowLock' = [g \in Grains |-> IF rowLock[g] = c THEN NoCall ELSE rowLock[g]]
    /\ seqLock' = IF seqLock = c THEN NoCall ELSE seqLock
    /\ draft' = [draft EXCEPT ![c] = [g \in Grains |-> EmptyRow]]
    /\ out' = [out EXCEPT ![c] = << >>]
    /\ line' = [line EXCEPT ![c] = 1]
    /\ UNCHANGED cmd

Rollback(c, outcome) ==
    /\ pc' = [pc EXCEPT ![c] = outcome]
    /\ EndTransaction(c)
    /\ UNCHANGED << dbVars, answer >>

-----------------------------------------------------------------------------
(* Actions *)

Init ==
    /\ balance = [g \in Grains |-> EmptyRow]
    /\ movements = << >>
    /\ sequence = 0
    /\ rowLock = [g \in Grains |-> NoCall]
    /\ seqLock = NoCall
    /\ pc = [c \in Calls |-> "idle"]
    /\ cmd = [c \in Calls |-> NoCommand]
    /\ line = [c \in Calls |-> 1]
    /\ draft = [c \in Calls |-> [g \in Grains |-> EmptyRow]]
    /\ out = [c \in Calls |-> << >>]
    /\ answer = [c \in Calls |-> {}]

(* postLines and postSpecs up to the transaction: a key that has posted is   *)
(* answered with the movements of the document that it posted.               *)
Submit(c, command) ==
    /\ pc[c] = "idle"
    /\ cmd' = [cmd EXCEPT ![c] = command]
    /\ LET prior == KeyedBy(movements, command.key)
       IN  IF prior = {}
           THEN /\ pc' = [pc EXCEPT ![c] = "lock"]
                /\ UNCHANGED answer
           ELSE /\ pc' = [pc EXCEPT ![c] = "replayed"]
                /\ answer' = [answer EXCEPT ![c] =
                                 UNION { Group(movements[i].ref) : i \in prior }]
    /\ UNCHANGED << dbVars, lockVars, line, draft, out >>

(* reverseMovement reads the original, which must not be a reversal, outside *)
(* the transaction; it has no lookup by key.                                 *)
Reverse(c, i, key) ==
    /\ pc[c] = "idle"
    /\ movements[i].reversalOf = 0
    /\ Cardinality({ d \in Calls : pc[d] # "idle" /\ cmd[d].reversalOf # 0 }) < MaxReversals
    /\ cmd' = [cmd EXCEPT ![c] = ReversalOf(movements[i], key)]
    /\ pc' = [pc EXCEPT ![c] = "lock"]
    /\ UNCHANGED << dbVars, lockVars, line, draft, out, answer >>

(* lockOrCreateBalance. *)
LockRow(c) ==
    LET g == CurrentLine(c).grain
    IN  /\ pc[c] = "lock"
        /\ RowFree(c, g)
        /\ rowLock' = [rowLock EXCEPT ![g] = c]
        /\ draft' = [draft EXCEPT ![c][g] = RowSeen(c, g)]
        /\ pc' = [pc EXCEPT ![c] = "insert"]
        /\ UNCHANGED << dbVars, seqLock, cmd, line, out, answer >>

(* The guards come before the key: the movement is refused. *)
Refuse(c) ==
    /\ pc[c] = "insert"
    /\ ~CanInsert(c)
    /\ Rollback(c, "refused")

(* The rest of applyMovement: the row is written, the number drawn, and the  *)
(* movement inserted under a key that no committed movement has.             *)
Insert(c) ==
    /\ pc[c] = "insert"
    /\ CanInsert(c)
    /\ SequenceFree(c)
    /\ KeyFree(c)
    /\ seqLock' = c
    /\ draft' = [draft EXCEPT ![c][CurrentLine(c).grain] =
                     AddDeltas(@, LineDeltas(CurrentLine(c)))]
    /\ out' = [out EXCEPT ![c] =
                   Append(@, MovementFor(cmd[c], line[c], sequence + Len(out[c]) + 1, RefOf(c)))]
    /\ line' = [line EXCEPT ![c] = IF LastLine(c) THEN @ ELSE @ + 1]
    /\ pc' = [pc EXCEPT ![c] = IF LastLine(c) THEN "commit" ELSE "lock"]
    /\ UNCHANGED << dbVars, rowLock, cmd, answer >>

(* The unique key was taken since the lookup: the transaction is lost.       *)
(* postSpecs goes on to read the winner; a reversal only has the error.      *)
LoseKey(c) ==
    /\ pc[c] = "insert"
    /\ CanInsert(c)
    /\ SequenceFree(c)
    /\ ~KeyFree(c)
    /\ Rollback(c, IF cmd[c].reversalOf # 0 THEN "conflict" ELSE "lost")

(* Everything the transaction wrote becomes visible at once. *)
Commit(c) ==
    /\ pc[c] = "commit"
    /\ balance' = [g \in Grains |-> IF rowLock[g] = c THEN draft[c][g] ELSE balance[g]]
    /\ movements' = movements \o out[c]
    /\ sequence' = sequence + Len(out[c])
    /\ answer' = [answer EXCEPT ![c] = Len(movements) + 1 .. Len(movements) + Len(out[c])]
    /\ pc' = [pc EXCEPT ![c] = "posted"]
    /\ EndTransaction(c)

(* priorFor: the movements of this call's own reference. *)
ReadWinner(c) ==
    /\ pc[c] = "lost"
    /\ answer' = [answer EXCEPT ![c] = Group(RefOf(c))]
    /\ pc' = [pc EXCEPT ![c] = "replayed"]
    /\ UNCHANGED << dbVars, lockVars, cmd, line, draft, out >>

(* The call whose transaction c is waiting for. *)
Blocker(c) ==
    CASE pc[c] = "lock" /\ ~RowFree(c, CurrentLine(c).grain) -> rowLock[CurrentLine(c).grain]
      [] pc[c] = "insert" /\ CanInsert(c) /\ ~SequenceFree(c) -> seqLock
      [] OTHER -> NoCall

(* Postgres aborts a transaction of a cycle of waits. *)
DeadlockVictim(c) ==
    /\ \E D \in SUBSET Calls : c \in D /\ { Blocker(d) : d \in D } = D
    /\ Rollback(c, "failed")

(* A catalogue check of the line fails (product, warehouse, variant, lot), the *)
(* transaction times out, the connection is lost or the process dies.          *)
Fail(c) ==
    /\ pc[c] \in InTransaction
    /\ Rollback(c, "failed")

(* The run is over when every request is. *)
Finished ==
    /\ \A c \in Calls : pc[c] \in Ended
    /\ UNCHANGED vars

Work(c) ==
    \/ LockRow(c) \/ Refuse(c) \/ Insert(c) \/ LoseKey(c) \/ Commit(c) \/ ReadWinner(c)
    \/ DeadlockVictim(c)

Next ==
    \/ \E c \in Calls, command \in Commands : Submit(c, command)
    \/ \E c \in Calls, i \in DOMAIN movements, key \in ReversalKeys \cup {NoKey} :
          Reverse(c, i, key)
    \/ \E c \in Calls : Work(c) \/ Fail(c)
    \/ Finished

Spec == Init /\ [][Next]_vars

(* A transaction that is not blocked goes on, and Postgres looks for cycles. *)
FairSpec == Spec /\ \A c \in Calls : WF_vars(Work(c))

-----------------------------------------------------------------------------
(* Properties *)

(* Every variable holds a value of its kind; a draft only speaks of rows the *)
(* call has locked.                                                          *)
TypeOK ==
    /\ balance \in [Grains -> Row]
    /\ movements \in Seq(Movement)
    /\ sequence \in Nat
    /\ rowLock \in [Grains -> Calls \cup {NoCall}]
    /\ seqLock \in Calls \cup {NoCall}
    /\ pc \in [Calls -> PCs]
    /\ cmd \in [Calls -> Command \cup {NoCommand}]
    /\ line \in [Calls -> Nat \ {0}]
    /\ \A c \in Calls : pc[c] \in InTransaction => line[c] \in DOMAIN cmd[c].lines
    /\ draft \in [Calls -> [Grains -> Row]]
    /\ out \in [Calls -> Seq(Movement)]
    /\ answer \in [Calls -> SUBSET Nat]

(* reconcile(): every bucket the ledger owns - reserved is compared with the *)
(* reservations instead - equals the sum of the journal's signed deltas,     *)
(* whatever postings are under way, rolled back or killed.                   *)
LedgerSum(g, b) ==
    SumFunctionOnSet([i \in DOMAIN movements |-> movements[i].delta[b]],
                     { i \in DOMAIN movements : movements[i].grain = g })

LedgerBuckets == Buckets \ {"reserved"}

Reconciled == \A g \in Grains, b \in LedgerBuckets : balance[g][b] = LedgerSum(g, b)

(* The lock-and-check of the posting transaction never lets a hold bucket go *)
(* below zero, nor on-hand on a row that no override was ever posted on, no  *)
(* matter how many calls compete for the last unit.                          *)
NoOversell ==
    \A g \in Grains :
        /\ \A b \in Buckets \ {"onHand"} : balance[g][b] >= 0
        /\ balance[g]["onHand"] < 0 =>
               \E i \in DOMAIN movements : movements[i].grain = g /\ movements[i].override

(* An idempotency key names at most one movement of the journal, so the      *)
(* command behind it has had its effect at most once.                        *)
OncePerKey ==
    \A i, j \in DOMAIN movements :
        movements[i].key # NoKey /\ movements[i].key = movements[j].key => i = j

(* The numbers MV-1, MV-2, .. leave no gap and repeat nothing, although      *)
(* transactions draw them before they know that they will commit.            *)
NumbersDense ==
    /\ sequence = Len(movements)
    /\ \A i \in DOMAIN movements : movements[i].no = i

(* A duplicate of a posting is answered with what the first one was answered *)
(* with: all of its movements and no others.                                 *)
AnswersAsFirst(c) ==
    pc[c] = "replayed" =>
        \E d \in Calls : /\ pc[d] = "posted"
                         /\ cmd[d].key = cmd[c].key
                         /\ answer[d] = answer[c]

(* .. for a command whose document is posted under no other key. *)
ReplayAnswersAsFirst ==
    \A c \in Calls :
        (/\ cmd[c] # NoCommand
         /\ cmd[c].ref # NoRef
         /\ \A other \in Commands : other.ref = cmd[c].ref => other.key = cmd[c].key)
        => AnswersAsFirst(c)

(* Every request is answered, although transactions lock rows in the order   *)
(* of their lines and all of them queue for the one sequence row.            *)
EveryCallEnds == \A c \in Calls : pc[c] # "idle" ~> pc[c] \in Ended

(* The balance and the journal are the ledger's; the rest is hidden. *)
Ledger == INSTANCE StockLedger WITH balance <- balance, movements <- movements

(* Committed postings look as if they had been applied one at a time, each    *)
(* whole and each key once: transactions, locks and failures do not show.     *)
ImplementsLedger == Ledger!LedgerSpec
=============================================================================
