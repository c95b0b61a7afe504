-------------------------- MODULE InventoryPostingProofs --------------------------
(***************************************************************************)
(* Safety of InventoryPosting for any number of calls, rows, commands and  *)
(* lines.                                                                  *)
(***************************************************************************)
EXTENDS InventoryPosting, Sums, SequenceTheorems, TLAPS

-----------------------------------------------------------------------------
(* Data *)

(* The direction table and the explicit deltas give a row of integers. *)
LEMMA LineDeltasType ==
    ASSUME NEW l \in Line
    PROVE  LineDeltas(l) \in Row
  <1>1. BucketDeltasFor(l.type, l.qty) \in Row
    BY DEF BucketDeltasFor, Row, Line
  <1>2. QED
    BY <1>1 DEF LineDeltas, Line

(* A row stays a row of integers when deltas are applied to it. *)
LEMMA AddDeltasType ==
    ASSUME NEW r \in Row, NEW d \in Row
    PROVE  AddDeltas(r, d) \in Row
  BY DEF AddDeltas, Row

(* Each line of a command becomes a movement. *)
LEMMA MovementForType ==
    ASSUME NEW command \in Command, NEW i \in DOMAIN command.lines,
           NEW no \in Nat, NEW ref \in Refs \cup {NoRef}
    PROVE  MovementFor(command, i, no, ref) \in Movement
  <1>1. command.lines[i] \in Line
    BY DEF Command
  <1>2. LineDeltas(command.lines[i]) \in Row
    BY <1>1, LineDeltasType
  <1>3. QED
    BY <1>1, <1>2 DEF MovementFor, Movement, Command, Line

(* What reverses a movement is a command of one line. *)
LEMMA ReversalOfType ==
    ASSUME NEW m \in Movement, NEW key \in Keys \cup {NoKey}
    PROVE  /\ ReversalOf(m, key) \in Command
           /\ ReversalOf(m, key).lines # << >>
  <1> DEFINE l == [grain |-> m.grain, type |-> m.type, qty |-> m.qty,
                   deltas |-> NegateDeltas(m.delta), allowNegative |-> TRUE]
  <1>1. NegateDeltas(m.delta) \in Row
    BY DEF NegateDeltas, Row, Movement
  <1>2. l \in Line
    BY <1>1 DEF Line, Movement
  <1>3. << l >> \in Seq(Line) /\ << l >> # << >>
    BY <1>2
  <1>4. QED
    BY <1>3 DEF ReversalOf, Command, Movement

-----------------------------------------------------------------------------
(* The inductive invariant *)

(* A transaction is at a line of its command, holds the row of the line it is *)
(* about to insert, has inserted the lines before it and, once it has         *)
(* inserted anything, holds the sequence row.                                 *)
TransactionInv ==
    \A c \in Calls :
        /\ pc[c] # "idle" => cmd[c] \in Command
        /\ pc[c] \notin InTransaction => line[c] = 1 /\ out[c] = << >>
        /\ pc[c] \in {"lock", "insert"} => Len(out[c]) = line[c] - 1
        /\ pc[c] = "insert" => rowLock[CurrentLine(c).grain] = c
        /\ out[c] # << >> => seqLock = c

(* Inserted movements bear the numbers after the committed ones, and only the *)
(* first has a key, one that no committed movement has.                       *)
InsertedInv ==
    \A c \in Calls : \A k \in DOMAIN out[c] :
        /\ out[c][k].no = sequence + k
        /\ k > 1 => out[c][k].key = NoKey
        /\ KeyedBy(movements, out[c][k].key) = {}

(* A row as a transaction sees it satisfies what NoOversell asks of it. *)
DraftInv ==
    \A c \in Calls, g \in Grains :
        rowLock[g] = c =>
            /\ \A b \in Buckets \ {"onHand"} : draft[c][g][b] >= 0
            /\ draft[c][g]["onHand"] < 0 =>
                   \/ \E i \in DOMAIN movements : movements[i].grain = g /\ movements[i].override
                   \/ \E k \in DOMAIN out[c] : out[c][k].grain = g /\ out[c][k].override

IndInv ==
    /\ TypeOK
    /\ TransactionInv
    /\ InsertedInv
    /\ NumbersDense
    /\ OncePerKey
    /\ DraftInv
    /\ NoOversell

(* The empty ledger, with every call idle, satisfies the invariant. *)
LEMMA InitIndInv == Init => IndInv
  <1> SUFFICES ASSUME Init PROVE IndInv
    OBVIOUS
  <1> USE DEF Init
  <1>1. TypeOK
    BY DEF TypeOK, Row, EmptyRow, PCs, InTransaction
  <1>2. TransactionInv
    BY DEF TransactionInv, InTransaction
  <1>3. InsertedInv /\ NumbersDense /\ OncePerKey
    BY DEF InsertedInv, NumbersDense, OncePerKey
  <1>4. DraftInv /\ NoOversell
    BY NullsAssumption DEF DraftInv, NoOversell, EmptyRow, Buckets
  <1>5. QED
    BY <1>1, <1>2, <1>3, <1>4 DEF IndInv

-----------------------------------------------------------------------------
(* One lemma per group of actions *)

(* In a transaction there is a current line, of a row of the ledger. *)
LEMMA CurrentLineType ==
    ASSUME IndInv, NEW c \in Calls, pc[c] \in InTransaction
    PROVE  /\ cmd[c] \in Command
           /\ line[c] \in DOMAIN cmd[c].lines
           /\ CurrentLine(c) \in Line
           /\ CurrentLine(c).grain \in Grains
  <1>1. cmd[c] \in Command /\ line[c] \in DOMAIN cmd[c].lines
    BY DEF IndInv, TypeOK, TransactionInv, InTransaction
  <1>2. CurrentLine(c) \in Line
    BY <1>1 DEF CurrentLine, Command
  <1>3. QED
    BY <1>1, <1>2 DEF Line

(* A request begins: its command is one, and it starts at the first line. *)
LEMMA SubmitStep ==
    ASSUME IndInv, NEW c \in Calls, NEW command \in Command,
           command.lines # << >>, pc[c] = "idle",
           NEW target \in {"lock", "replayed"},
           pc' = [pc EXCEPT ![c] = target],
           cmd' = [cmd EXCEPT ![c] = command],
           answer' \in [Calls -> SUBSET Nat],
           UNCHANGED << dbVars, lockVars, line, draft, out >>
    PROVE  IndInv'
  <1> USE DEF dbVars, lockVars
  <1>1. TypeOK'
    <2>1. 1 \in DOMAIN command.lines
      BY DEF Command
    <2>2. ASSUME NEW d \in Calls, (pc[d] \in InTransaction)'
          PROVE  (line[d] \in DOMAIN cmd[d].lines)'
      <3>1. CASE d = c
        BY <3>1, <2>1 DEF IndInv, TypeOK, TransactionInv, InTransaction
      <3>2. CASE d # c
        BY <3>2, <2>2 DEF IndInv, TypeOK
      <3>3. QED
        BY <3>1, <3>2
    <2>3. QED
      BY <2>2 DEF IndInv, TypeOK, PCs, Ended, InTransaction
  <1>2. TransactionInv'
    <2> SUFFICES ASSUME NEW d \in Calls
                 PROVE  /\ (pc[d] # "idle" => cmd[d] \in Command)'
                        /\ (pc[d] \notin InTransaction => line[d] = 1 /\ out[d] = << >>)'
                        /\ (pc[d] \in {"lock", "insert"} => Len(out[d]) = line[d] - 1)'
                        /\ (pc[d] = "insert" => rowLock[CurrentLine(d).grain] = d)'
                        /\ (out[d] # << >> => seqLock = d)'
      BY DEF TransactionInv
    <2>1. CASE d = c
      BY <2>1 DEF IndInv, TypeOK, TransactionInv, InTransaction
    <2>2. CASE d # c
      BY <2>2 DEF IndInv, TypeOK, TransactionInv, InTransaction, CurrentLine
    <2>3. QED
      BY <2>1, <2>2
  <1>3. InsertedInv' /\ NumbersDense' /\ OncePerKey' /\ DraftInv' /\ NoOversell'
    BY DEF IndInv, InsertedInv, NumbersDense, OncePerKey, DraftInv, NoOversell, KeyedBy
  <1>4. QED
    BY <1>1, <1>2, <1>3 DEF IndInv

(* A rollback leaves nothing behind. *)
LEMMA RollbackStep ==
    ASSUME IndInv, NEW c \in Calls, pc[c] \in InTransaction,
           NEW outcome \in {"lost"} \cup Ended, Rollback(c, outcome)
    PROVE  IndInv'
  <1> USE DEF Rollback, EndTransaction, dbVars
  <1>0. outcome \notin InTransaction /\ outcome # "idle" /\ outcome \in PCs
    BY DEF Ended, InTransaction, PCs
  <1>1. TypeOK'
    BY <1>0 DEF IndInv, TypeOK, Row, EmptyRow
  <1>2. TransactionInv'
    <2> SUFFICES ASSUME NEW d \in Calls
                 PROVE  /\ (pc[d] # "idle" => cmd[d] \in Command)'
                        /\ (pc[d] \notin InTransaction => line[d] = 1 /\ out[d] = << >>)'
                        /\ (pc[d] \in {"lock", "insert"} => Len(out[d]) = line[d] - 1)'
                        /\ (pc[d] = "insert" => rowLock[CurrentLine(d).grain] = d)'
                        /\ (out[d] # << >> => seqLock = d)'
      BY DEF TransactionInv
    <2>1. CASE d = c
      BY <1>0, <2>1 DEF IndInv, TypeOK, TransactionInv, InTransaction
    <2>2. CASE d # c
      <3>1. pc'[d] = pc[d] /\ cmd'[d] = cmd[d] /\ line'[d] = line[d] /\ out'[d] = out[d]
        BY <2>2 DEF IndInv, TypeOK
      <3>2. seqLock = d => seqLock' = d
        BY <2>2
      <3>3. pc[d] = "insert" => rowLock'[CurrentLine(d).grain] = d
        <4> SUFFICES ASSUME pc[d] = "insert" PROVE rowLock'[CurrentLine(d).grain] = d
          OBVIOUS
        <4>1. rowLock[CurrentLine(d).grain] = d
          BY DEF IndInv, TransactionInv
        <4>2. CurrentLine(d).grain \in Grains
          BY CurrentLineType DEF InTransaction
        <4>3. QED
          BY <2>2, <4>1, <4>2
      <3>4. QED
        BY <3>1, <3>2, <3>3 DEF IndInv, TransactionInv, CurrentLine
    <2>3. QED
      BY <2>1, <2>2
  <1>3. InsertedInv'
    BY DEF IndInv, TypeOK, InsertedInv, KeyedBy
  <1>4. NumbersDense' /\ OncePerKey' /\ NoOversell'
    BY DEF IndInv, NumbersDense, OncePerKey, NoOversell
  <1>5. DraftInv'
    <2> SUFFICES ASSUME NEW d \in Calls, NEW g \in Grains, rowLock'[g] = d
                 PROVE  /\ rowLock[g] = d
                        /\ draft'[d] = draft[d]
                        /\ out'[d] = out[d]
      BY DEF IndInv, DraftInv
    <2>1. d # c
      BY NullsAssumption DEF IndInv, TypeOK
    <2>2. QED
      BY <2>1, NullsAssumption DEF IndInv, TypeOK
  <1>6. QED
    BY <1>1, <1>2, <1>3, <1>4, <1>5 DEF IndInv

(* A locked row is seen as last committed, or as an earlier line left it. *)
LEMMA LockRowStep ==
    ASSUME IndInv, NEW c \in Calls, LockRow(c)
    PROVE  IndInv'
  <1> DEFINE g == CurrentLine(c).grain
  <1>0. g \in Grains /\ pc[c] \in InTransaction /\ cmd[c] \in Command
    BY CurrentLineType DEF LockRow, InTransaction
  <1>g. /\ pc[c] = "lock"
        /\ RowFree(c, g)
        /\ rowLock' = [rowLock EXCEPT ![g] = c]
        /\ draft' = [draft EXCEPT ![c][g] = RowSeen(c, g)]
        /\ pc' = [pc EXCEPT ![c] = "insert"]
        /\ UNCHANGED << balance, movements, sequence, seqLock, cmd, line, out, answer >>
    BY DEF LockRow, dbVars
  <1>d. g = CurrentLine(c).grain
    OBVIOUS
  <1> HIDE DEF g
  <1>s. RowSeen(c, g) \in Row
    BY <1>0 DEF RowSeen, IndInv, TypeOK
  <1>1. TypeOK'
    <2>1. draft' \in [Calls -> [Grains -> Row]]
      BY <1>0, <1>g, <1>s DEF IndInv, TypeOK
    <2>2. rowLock' \in [Grains -> Calls \cup {NoCall}]
      BY <1>0, <1>g DEF IndInv, TypeOK
    <2>3. /\ pc' \in [Calls -> PCs]
          /\ \A d \in Calls : pc'[d] \in InTransaction => line'[d] \in DOMAIN cmd'[d].lines
      BY <1>0, <1>g DEF IndInv, TypeOK, PCs, InTransaction
    <2>4. QED
      BY <1>g, <2>1, <2>2, <2>3 DEF IndInv, TypeOK
  <1>2. TransactionInv'
    <2> SUFFICES ASSUME NEW d \in Calls
                 PROVE  /\ (pc[d] # "idle" => cmd[d] \in Command)'
                        /\ (pc[d] \notin InTransaction => line[d] = 1 /\ out[d] = << >>)'
                        /\ (pc[d] \in {"lock", "insert"} => Len(out[d]) = line[d] - 1)'
                        /\ (pc[d] = "insert" => rowLock[CurrentLine(d).grain] = d)'
                        /\ (out[d] # << >> => seqLock = d)'
      BY DEF TransactionInv
    <2>1. CASE d = c
      <3>1. CurrentLine(c)' = CurrentLine(c)
        BY <1>g DEF CurrentLine
      <3>2. rowLock'[CurrentLine(c).grain] = c
        BY <1>0, <1>g, <1>d DEF IndInv, TypeOK
      <3>3. QED
        BY <1>0, <1>g, <2>1, <3>1, <3>2 DEF IndInv, TypeOK, TransactionInv, InTransaction
    <2>2. CASE d # c
      <3>1. pc'[d] = pc[d] /\ CurrentLine(d)' = CurrentLine(d)
        BY <1>g, <2>2 DEF CurrentLine
      <3>2. ASSUME pc[d] = "insert" PROVE rowLock'[CurrentLine(d).grain] = d
        <4>1. rowLock[CurrentLine(d).grain] = d /\ CurrentLine(d).grain \in Grains
          BY <3>2, CurrentLineType DEF IndInv, TransactionInv, InTransaction
        <4>2. CurrentLine(d).grain # g
          BY <2>2, <4>1, <1>g, NullsAssumption DEF RowFree
        <4>3. QED
          BY <4>1, <4>2, <1>g
      <3>3. QED
        BY <1>g, <3>1, <3>2 DEF IndInv, TransactionInv
    <2>3. QED
      BY <2>1, <2>2
  <1>3. InsertedInv' /\ NumbersDense' /\ OncePerKey' /\ NoOversell'
    BY <1>g DEF IndInv, InsertedInv, NumbersDense, OncePerKey, NoOversell, KeyedBy
  <1>4. DraftInv'
    <2> SUFFICES ASSUME NEW d \in Calls, NEW h \in Grains, rowLock'[h] = d
                 PROVE  /\ \A b \in Buckets \ {"onHand"} : draft'[d][h][b] >= 0
                        /\ draft'[d][h]["onHand"] < 0 =>
                             \/ \E i \in DOMAIN movements : movements[i].grain = h /\ movements[i].override
                             \/ \E k \in DOMAIN out[d] : out[d][k].grain = h /\ out[d][k].override
      BY <1>g DEF DraftInv
    <2>1. CASE h = g
      <3>1. d = c /\ draft'[d][h] = RowSeen(c, g)
        BY <1>0, <1>g, <2>1 DEF IndInv, TypeOK
      <3>2. CASE rowLock[g] = c
        BY <1>0, <1>g, <2>1, <3>1, <3>2 DEF RowSeen, IndInv, DraftInv
      <3>3. CASE rowLock[g] # c
        BY <1>0, <1>g, <2>1, <3>1, <3>3 DEF RowSeen, IndInv, NoOversell
      <3>4. QED
        BY <3>2, <3>3
    <2>2. CASE h # g
      <3>1. rowLock[h] = d /\ draft'[d][h] = draft[d][h]
        BY <1>0, <1>g, <2>2 DEF IndInv, TypeOK
      <3>2. QED
        BY <1>g, <3>1 DEF IndInv, DraftInv
    <2>3. QED
      BY <2>1, <2>2
  <1>5. QED
    BY <1>1, <1>2, <1>3, <1>4 DEF IndInv

(* The current line joins the draft: the guards are on the row as the         *)
(* transaction sees it, and the key and the number on what is committed.      *)
LEMMA InsertStep ==
    ASSUME IndInv, NEW c \in Calls, Insert(c)
    PROVE  IndInv'
  <1> DEFINE l == CurrentLine(c)
             g == l.grain
             m == MovementFor(cmd[c], line[c], sequence + Len(out[c]) + 1, RefOf(c))
             row == AddDeltas(draft[c][g], LineDeltas(l))
  <1>0. /\ cmd[c] \in Command
        /\ line[c] \in DOMAIN cmd[c].lines
        /\ l \in Line
        /\ g \in Grains
    BY CurrentLineType DEF Insert, InTransaction
  <1>1. /\ pc[c] = "insert"
        /\ Admissible(draft[c][g], l)
        /\ SequenceFree(c)
        /\ KeyFree(c)
        /\ seqLock' = c
        /\ draft' = [draft EXCEPT ![c][g] = row]
        /\ out' = [out EXCEPT ![c] = Append(out[c], m)]
        /\ line' = [line EXCEPT ![c] = IF LastLine(c) THEN line[c] ELSE line[c] + 1]
        /\ pc' = [pc EXCEPT ![c] = IF LastLine(c) THEN "commit" ELSE "lock"]
        /\ UNCHANGED << balance, movements, sequence, rowLock, cmd, answer >>
    <2>1. draft' = [draft EXCEPT ![c][g] = row]
      BY <1>0 DEF Insert, IndInv, TypeOK
    <2>2. QED
      BY <2>1 DEF Insert, CanInsert, dbVars
  <1>2. row \in Row
    BY <1>0, LineDeltasType, AddDeltasType DEF IndInv, TypeOK
  <1>3. m \in Movement
    <2>1. sequence + Len(out[c]) + 1 \in Nat
      BY DEF IndInv, TypeOK
    <2>2. RefOf(c) \in Refs \cup {NoRef}
      BY <1>0, CommandsAssumption DEF RefOf, Command
    <2>3. QED
      BY <1>0, <2>1, <2>2, MovementForType
  <1>4. /\ m.no = sequence + Len(out[c]) + 1
        /\ m.grain = g
        /\ m.override = l.allowNegative
        /\ m.key = IF line[c] = 1 THEN cmd[c].key ELSE NoKey
    BY DEF MovementFor, CurrentLine
  <1>5. /\ \A b \in Buckets \ {"onHand"} : row[b] >= 0
        /\ row["onHand"] < 0 => l.allowNegative
    BY <1>1 DEF Admissible
  <1>6. line[c] \in Nat \ {0} /\ Len(out[c]) = line[c] - 1 /\ out[c] \in Seq(Movement)
    BY <1>1 DEF IndInv, TypeOK, TransactionInv
  <1>7. /\ Append(out[c], m) \in Seq(Movement)
        /\ Len(Append(out[c], m)) = Len(out[c]) + 1
        /\ \A k \in DOMAIN out[c] : k \in DOMAIN Append(out[c], m) /\ Append(out[c], m)[k] = out[c][k]
        /\ line[c] \in DOMAIN Append(out[c], m) /\ Append(out[c], m)[line[c]] = m
        /\ \A k \in DOMAIN Append(out[c], m) : k \in DOMAIN out[c] \/ k = line[c]
    BY <1>3, <1>6
  <1>8. /\ out'[c] = Append(out[c], m)
        /\ \A d \in Calls \ {c} : out'[d] = out[d] /\ draft'[d] = draft[d] /\ pc'[d] = pc[d]
                                  /\ line'[d] = line[d]
        /\ draft'[c][g] = row
        /\ \A h \in Grains \ {g} : draft'[c][h] = draft[c][h]
    BY <1>0, <1>1 DEF IndInv, TypeOK
  <1>l. l = CurrentLine(c) /\ g = CurrentLine(c).grain
    OBVIOUS
  <1> HIDE DEF l, g, m, row
  <1>9. TypeOK'
    <2>1. draft' \in [Calls -> [Grains -> Row]]
      BY <1>0, <1>1, <1>2 DEF IndInv, TypeOK
    <2>2. out' \in [Calls -> Seq(Movement)]
      BY <1>1, <1>7 DEF IndInv, TypeOK
    <2>3. pc' \in [Calls -> PCs] /\ line' \in [Calls -> Nat \ {0}]
      BY <1>1, <1>6 DEF IndInv, TypeOK, PCs, InTransaction
    <2>4. line'[c] \in DOMAIN cmd[c].lines
      BY <1>0, <1>1, <1>6 DEF IndInv, TypeOK, LastLine, Command
    <2>5. \A d \in Calls : pc'[d] \in InTransaction => line'[d] \in DOMAIN cmd'[d].lines
      BY <1>1, <1>8, <2>4 DEF IndInv, TypeOK
    <2>6. QED
      BY <1>1, <2>1, <2>2, <2>3, <2>5 DEF IndInv, TypeOK
  <1>10. TransactionInv'
    <2> SUFFICES ASSUME NEW d \in Calls
                 PROVE  /\ (pc[d] # "idle" => cmd[d] \in Command)'
                        /\ (pc[d] \notin InTransaction => line[d] = 1 /\ out[d] = << >>)'
                        /\ (pc[d] \in {"lock", "insert"} => Len(out[d]) = line[d] - 1)'
                        /\ (pc[d] = "insert" => rowLock[CurrentLine(d).grain] = d)'
                        /\ (out[d] # << >> => seqLock = d)'
      BY DEF TransactionInv
    <2>1. CASE d = c
      <3>1. pc'[c] = IF LastLine(c) THEN "commit" ELSE "lock"
        BY <1>1 DEF IndInv, TypeOK
      <3>2. line'[c] = IF LastLine(c) THEN line[c] ELSE line[c] + 1
        BY <1>1 DEF IndInv, TypeOK
      <3>3. QED
        BY <1>0, <1>1, <1>6, <1>7, <1>8, <2>1, <3>1, <3>2 DEF InTransaction
    <2>2. CASE d # c
      <3>1. out[d] = << >>
        BY <1>1, <2>2, NullsAssumption DEF IndInv, TransactionInv, SequenceFree
      <3>2. CurrentLine(d)' = CurrentLine(d)
        BY <1>1, <1>8, <2>2 DEF CurrentLine
      <3>3. QED
        BY <1>1, <1>8, <2>2, <3>1, <3>2 DEF IndInv, TransactionInv
    <2>3. QED
      BY <2>1, <2>2
  <1>11. InsertedInv'
    <2>1. KeyedBy(movements, m.key) = {}
      BY <1>1, <1>4 DEF KeyFree, KeyedBy
    <2> SUFFICES ASSUME NEW d \in Calls, NEW k \in DOMAIN out'[d]
                 PROVE  /\ out'[d][k].no = sequence + k
                        /\ k > 1 => out'[d][k].key = NoKey
                        /\ KeyedBy(movements, out'[d][k].key) = {}
      BY <1>1 DEF InsertedInv, KeyedBy
    <2>2. CASE d = c /\ k = line[c]
      BY <1>4, <1>6, <1>7, <1>8, <2>1, <2>2 DEF IndInv, TypeOK
    <2>3. CASE d # c \/ k # line[c]
      <3>1. k \in DOMAIN out[d] /\ out'[d][k] = out[d][k]
        BY <1>7, <1>8, <2>3
      <3>2. QED
        BY <3>1 DEF IndInv, InsertedInv
    <2>4. QED
      BY <2>2, <2>3
  <1>12. NumbersDense' /\ OncePerKey' /\ NoOversell'
    BY <1>1 DEF IndInv, NumbersDense, OncePerKey, NoOversell
  <1>13. DraftInv'
    <2> SUFFICES ASSUME NEW d \in Calls, NEW h \in Grains, rowLock[h] = d
                 PROVE  /\ \A b \in Buckets \ {"onHand"} : draft'[d][h][b] >= 0
                        /\ draft'[d][h]["onHand"] < 0 =>
                             \/ \E i \in DOMAIN movements : movements[i].grain = h /\ movements[i].override
                             \/ \E k \in DOMAIN out'[d] : out'[d][k].grain = h /\ out'[d][k].override
      BY <1>1 DEF DraftInv
    <2>1. CASE d = c /\ h = g
      BY <1>4, <1>5, <1>7, <1>8, <2>1
    <2>2. CASE ~(d = c /\ h = g)
      <3>1. /\ draft'[d][h] = draft[d][h]
            /\ \A k \in DOMAIN out[d] : k \in DOMAIN out'[d] /\ out'[d][k] = out[d][k]
        BY <1>7, <1>8, <2>2
      <3>2. QED
        BY <3>1 DEF IndInv, DraftInv
    <2>3. QED
      BY <2>1, <2>2
  <1>14. QED
    BY <1>9, <1>10, <1>11, <1>12, <1>13 DEF IndInv

(* What was committed stays, and what the call inserted follows it. *)
LEMMA CommittedJournal ==
    ASSUME IndInv, NEW c \in Calls, Commit(c)
    PROVE  /\ movements' \in Seq(Movement)
           /\ Len(movements') = Len(movements) + Len(out[c])
           /\ \A i \in DOMAIN movements : i \in DOMAIN movements' /\ movements'[i] = movements[i]
           /\ \A k \in DOMAIN out[c] : /\ Len(movements) + k \in DOMAIN movements'
                                       /\ movements'[Len(movements) + k] = out[c][k]
           /\ \A i \in DOMAIN movements' :
                  \/ i \in DOMAIN movements
                  \/ i - Len(movements) \in DOMAIN out[c]
  <1>1. movements \in Seq(Movement) /\ out[c] \in Seq(Movement)
    BY DEF IndInv, TypeOK
  <1>2. movements' = movements \o out[c]
    BY DEF Commit
  <1>3. QED
    BY <1>1, <1>2, ConcatProperties

(* The draft becomes the committed state. *)
LEMMA CommitStep ==
    ASSUME IndInv, NEW c \in Calls, Commit(c)
    PROVE  IndInv'
  <1>1. /\ pc[c] = "commit"
        /\ balance' = [g \in Grains |-> IF rowLock[g] = c THEN draft[c][g] ELSE balance[g]]
        /\ sequence' = sequence + Len(out[c])
        /\ answer' = [answer EXCEPT ![c] = Len(movements) + 1 .. Len(movements) + Len(out[c])]
        /\ pc' = [pc EXCEPT ![c] = "posted"]
        /\ rowLock' = [g \in Grains |-> IF rowLock[g] = c THEN NoCall ELSE rowLock[g]]
        /\ seqLock' = IF seqLock = c THEN NoCall ELSE seqLock
        /\ draft' = [draft EXCEPT ![c] = [g \in Grains |-> EmptyRow]]
        /\ out' = [out EXCEPT ![c] = << >>]
        /\ line' = [line EXCEPT ![c] = 1]
        /\ cmd' = cmd
    BY DEF Commit, EndTransaction
  <1>2. /\ movements \in Seq(Movement)
        /\ out[c] \in Seq(Movement)
        /\ sequence = Len(movements)
    BY DEF IndInv, TypeOK, NumbersDense
  <1>3. /\ movements' \in Seq(Movement)
        /\ Len(movements') = Len(movements) + Len(out[c])
        /\ \A i \in DOMAIN movements : i \in DOMAIN movements' /\ movements'[i] = movements[i]
        /\ \A k \in DOMAIN out[c] : /\ Len(movements) + k \in DOMAIN movements'
                                    /\ movements'[Len(movements) + k] = out[c][k]
        /\ \A i \in DOMAIN movements' :
               \/ i \in DOMAIN movements
               \/ i - Len(movements) \in DOMAIN out[c]
    BY CommittedJournal
  <1>4. \A d \in Calls \ {c} : /\ out'[d] = out[d] /\ draft'[d] = draft[d]
                               /\ pc'[d] = pc[d] /\ line'[d] = line[d]
    BY <1>1 DEF IndInv, TypeOK
  <1>5. out'[c] = << >> /\ line'[c] = 1 /\ pc'[c] = "posted"
    BY <1>1 DEF IndInv, TypeOK
  <1>6. \A d \in Calls \ {c} : out[c] # << >> => out[d] = << >>
    BY DEF IndInv, TransactionInv
  <1>7. TypeOK'
    <2>1. balance' \in [Grains -> Row]
      BY <1>1 DEF IndInv, TypeOK
    <2>2. /\ draft' \in [Calls -> [Grains -> Row]]
          /\ out' \in [Calls -> Seq(Movement)]
          /\ line' \in [Calls -> Nat \ {0}]
          /\ rowLock' \in [Grains -> Calls \cup {NoCall}]
          /\ seqLock' \in Calls \cup {NoCall}
      BY <1>1 DEF IndInv, TypeOK, Row, EmptyRow
    <2>3. answer' \in [Calls -> SUBSET Nat] /\ sequence' \in Nat
      BY <1>1, <1>2 DEF IndInv, TypeOK
    <2>4. pc' \in [Calls -> PCs]
      BY <1>1 DEF IndInv, TypeOK, PCs, Ended
    <2>5. \A d \in Calls : pc'[d] \in InTransaction => line'[d] \in DOMAIN cmd'[d].lines
      BY <1>1, <1>4, <1>5 DEF IndInv, TypeOK, InTransaction
    <2>6. QED
      BY <1>1, <1>3, <2>1, <2>2, <2>3, <2>4, <2>5 DEF IndInv, TypeOK
  <1>8. TransactionInv'
    <2> SUFFICES ASSUME NEW d \in Calls
                 PROVE  /\ (pc[d] # "idle" => cmd[d] \in Command)'
                        /\ (pc[d] \notin InTransaction => line[d] = 1 /\ out[d] = << >>)'
                        /\ (pc[d] \in {"lock", "insert"} => Len(out[d]) = line[d] - 1)'
                        /\ (pc[d] = "insert" => rowLock[CurrentLine(d).grain] = d)'
                        /\ (out[d] # << >> => seqLock = d)'
      BY DEF TransactionInv
    <2>1. CASE d = c
      BY <1>1, <1>5, <2>1 DEF IndInv, TransactionInv
    <2>2. CASE d # c
      <3>1. seqLock = d => seqLock' = d
        BY <1>1, <2>2
      <3>2. ASSUME pc[d] = "insert" PROVE rowLock'[CurrentLine(d).grain] = d
        <4>1. rowLock[CurrentLine(d).grain] = d /\ CurrentLine(d).grain \in Grains
          BY <3>2, CurrentLineType DEF IndInv, TransactionInv, InTransaction
        <4>2. QED
          BY <1>1, <2>2, <4>1
      <3>3. CurrentLine(d)' = CurrentLine(d)
        BY <1>1, <1>4, <2>2 DEF CurrentLine
      <3>4. QED
        BY <1>1, <1>4, <2>2, <3>1, <3>2, <3>3 DEF IndInv, TransactionInv
    <2>3. QED
      BY <2>1, <2>2
  <1>9. InsertedInv'
    <2> SUFFICES ASSUME NEW d \in Calls, NEW k \in DOMAIN out'[d]
                 PROVE  /\ out'[d][k].no = sequence' + k
                        /\ k > 1 => out'[d][k].key = NoKey
                        /\ KeyedBy(movements', out'[d][k].key) = {}
      BY DEF InsertedInv
    <2>1. d # c /\ out[d] # << >> /\ out'[d] = out[d]
      BY <1>4, <1>5
    <2>2. out[c] = << >>
      BY <1>6, <2>1
    <2>3. sequence' = sequence
      BY <1>1, <1>2, <2>2
    <2>4. KeyedBy(movements', out[d][k].key) \subseteq KeyedBy(movements, out[d][k].key)
      BY <1>3, <2>2 DEF KeyedBy
    <2>5. QED
      BY <2>1, <2>3, <2>4 DEF IndInv, InsertedInv
  <1>10. NumbersDense'
    <2>1. sequence' = Len(movements')
      BY <1>1, <1>2, <1>3
    <2>2. ASSUME NEW i \in DOMAIN movements' PROVE movements'[i].no = i
      <3>1. CASE i \in DOMAIN movements
        BY <1>3, <3>1 DEF IndInv, NumbersDense
      <3>2. CASE i - Len(movements) \in DOMAIN out[c]
        <4> DEFINE k == i - Len(movements)
        <4>1. out[c][k].no = sequence + k
          BY <3>2 DEF IndInv, InsertedInv
        <4>2. movements'[Len(movements) + k] = out[c][k]
          BY <1>3, <3>2
        <4>3. i \in Int /\ Len(movements) \in Int /\ Len(movements) + k = i /\ sequence + k = i
          BY <1>2, <1>3
        <4>4. QED
          BY <4>1, <4>2, <4>3
      <3>3. QED
        BY <1>3, <3>1, <3>2
    <2>3. QED
      BY <2>1, <2>2 DEF NumbersDense
  <1>11. OncePerKey'
    <2>1. ASSUME NEW i \in DOMAIN movements', i \notin DOMAIN movements, movements'[i].key # NoKey
          PROVE  /\ i = Len(movements) + 1
                 /\ KeyedBy(movements, movements'[i].key) = {}
      <3> DEFINE k == i - Len(movements)
      <3>1. k \in DOMAIN out[c]
        BY <1>3, <2>1
      <3>2. i \in Int /\ Len(movements) \in Int /\ Len(movements) + k = i /\ k \in Nat \ {0}
        BY <1>2, <1>3, <3>1
      <3>3. movements'[i] = out[c][k]
        BY <1>3, <3>1, <3>2
      <3> HIDE DEF k
      <3>4. /\ k > 1 => out[c][k].key = NoKey
            /\ KeyedBy(movements, out[c][k].key) = {}
        BY <3>1 DEF IndInv, InsertedInv
      <3>5. k = 1
        BY <2>1, <3>2, <3>3, <3>4
      <3>6. QED
        BY <3>2, <3>3, <3>4, <3>5
    <2> SUFFICES ASSUME NEW i \in DOMAIN movements', NEW j \in DOMAIN movements',
                        movements'[i].key # NoKey, movements'[i].key = movements'[j].key
                 PROVE  i = j
      BY DEF OncePerKey
    <2>2. CASE i \in DOMAIN movements /\ j \in DOMAIN movements
      BY <1>3, <2>2 DEF IndInv, OncePerKey
    <2>3. CASE i \in DOMAIN movements /\ j \notin DOMAIN movements
      BY <1>3, <2>1, <2>3 DEF KeyedBy
    <2>4. CASE i \notin DOMAIN movements /\ j \in DOMAIN movements
      BY <1>3, <2>1, <2>4 DEF KeyedBy
    <2>5. CASE i \notin DOMAIN movements /\ j \notin DOMAIN movements
      BY <2>1, <2>5
    <2>6. QED
      BY <2>2, <2>3, <2>4, <2>5
  <1>12. NoOversell'
    <2> SUFFICES ASSUME NEW g \in Grains
                 PROVE  /\ \A b \in Buckets \ {"onHand"} : balance'[g][b] >= 0
                        /\ balance'[g]["onHand"] < 0 =>
                             \E i \in DOMAIN movements' : movements'[i].grain = g /\ movements'[i].override
      BY DEF NoOversell
    <2>1. CASE rowLock[g] = c
      <3>1. balance'[g] = draft[c][g]
        BY <1>1, <2>1
      <3>2. QED
        BY <1>3, <2>1, <3>1 DEF IndInv, DraftInv
    <2>2. CASE rowLock[g] # c
      <3>1. balance'[g] = balance[g]
        BY <1>1, <2>2
      <3>2. QED
        BY <1>3, <3>1 DEF IndInv, NoOversell
    <2>3. QED
      BY <2>1, <2>2
  <1>13. DraftInv'
    <2> SUFFICES ASSUME NEW d \in Calls, NEW g \in Grains, rowLock'[g] = d
                 PROVE  /\ \A b \in Buckets \ {"onHand"} : draft'[d][g][b] >= 0
                        /\ draft'[d][g]["onHand"] < 0 =>
                             \/ \E i \in DOMAIN movements' : movements'[i].grain = g /\ movements'[i].override
                             \/ \E k \in DOMAIN out'[d] : out'[d][k].grain = g /\ out'[d][k].override
      BY DEF DraftInv
    <2>1. d # c /\ rowLock[g] = d
      BY <1>1, NullsAssumption
    <2>2. draft'[d] = draft[d] /\ out'[d] = out[d]
      BY <1>4, <2>1
    <2>3. QED
      BY <1>3, <2>1, <2>2 DEF IndInv, DraftInv
  <1>14. QED
    BY <1>7, <1>8, <1>9, <1>10, <1>11, <1>12, <1>13 DEF IndInv

(* The committed journal has no part in what a late reader does. *)
LEMMA ReadWinnerStep ==
    ASSUME IndInv, NEW c \in Calls, ReadWinner(c)
    PROVE  IndInv'
  <1> USE DEF ReadWinner, dbVars, lockVars
  <1>1. TypeOK'
    <2>1. Group(RefOf(c)) \in SUBSET Nat
      BY DEF IndInv, TypeOK, Group
    <2>2. answer' \in [Calls -> SUBSET Nat]
      BY <2>1 DEF IndInv, TypeOK
    <2>3. QED
      BY <2>2 DEF IndInv, TypeOK, PCs, Ended, InTransaction
  <1>2. TransactionInv'
    BY DEF IndInv, TypeOK, TransactionInv, InTransaction, CurrentLine
  <1>3. InsertedInv' /\ NumbersDense' /\ OncePerKey' /\ DraftInv' /\ NoOversell'
    BY DEF IndInv, InsertedInv, NumbersDense, OncePerKey, DraftInv, NoOversell, KeyedBy
  <1>4. QED
    BY <1>1, <1>2, <1>3 DEF IndInv

(* No step of a call that has begun breaks the invariant: one case per action. *)
LEMMA WorkStep ==
    ASSUME IndInv, NEW c \in Calls, Work(c) \/ Fail(c)
    PROVE  IndInv'
  <1>1. CASE LockRow(c)
    BY <1>1, LockRowStep
  <1>2. CASE Refuse(c)
    BY <1>2, RollbackStep DEF Refuse, InTransaction, Ended
  <1>3. CASE Insert(c)
    BY <1>3, InsertStep
  <1>4. CASE LoseKey(c)
    BY <1>4, RollbackStep DEF LoseKey, InTransaction, Ended
  <1>5. CASE Commit(c)
    BY <1>5, CommitStep
  <1>6. CASE ReadWinner(c)
    BY <1>6, ReadWinnerStep
  <1>7. CASE DeadlockVictim(c)
    <2>1. Blocker(c) # NoCall
      BY <1>7, NullsAssumption DEF DeadlockVictim
    <2>2. pc[c] \in InTransaction
      BY <2>1 DEF Blocker, InTransaction
    <2>3. QED
      BY <1>7, <2>2, RollbackStep DEF DeadlockVictim, Ended
  <1>8. CASE Fail(c)
    BY <1>8, RollbackStep DEF Fail, Ended
  <1>9. QED
    BY <1>1, <1>2, <1>3, <1>4, <1>5, <1>6, <1>7, <1>8 DEF Work

(* Nor does any step: requests for postings and reversals begin, or go on. *)
LEMMA NextStep ==
    ASSUME IndInv, [Next]_vars
    PROVE  IndInv'
  <1>1. ASSUME NEW c \in Calls, NEW command \in Commands, Submit(c, command)
        PROVE  IndInv'
    <2> DEFINE prior == KeyedBy(movements, command.key)
               groups == UNION { Group(movements[i].ref) : i \in prior }
    <2>1. command \in Command /\ command.lines # << >>
      BY CommandsAssumption
    <2>2. groups \in SUBSET Nat
      BY DEF IndInv, TypeOK, Group
    <2>3. \E target \in {"lock", "replayed"} :
              /\ pc' = [pc EXCEPT ![c] = target]
              /\ answer' \in [Calls -> SUBSET Nat]
      <3>1. CASE prior = {}
        BY <1>1, <3>1 DEF Submit, IndInv, TypeOK
      <3>2. CASE prior # {}
        BY <1>1, <2>2, <3>2 DEF Submit, IndInv, TypeOK
      <3>3. QED
        BY <3>1, <3>2
    <2>4. QED
      BY <1>1, <2>1, <2>3, SubmitStep DEF Submit
  <1>2. ASSUME NEW c \in Calls, NEW i \in DOMAIN movements, NEW key \in ReversalKeys \cup {NoKey},
               Reverse(c, i, key)
        PROVE  IndInv'
    <2>1. movements[i] \in Movement
      BY DEF IndInv, TypeOK
    <2>2. key \in Keys \cup {NoKey}
      BY CommandsAssumption
    <2>3. ReversalOf(movements[i], key) \in Command /\ ReversalOf(movements[i], key).lines # << >>
      BY <2>1, <2>2, ReversalOfType
    <2>4. answer' \in [Calls -> SUBSET Nat]
      BY <1>2 DEF Reverse, IndInv, TypeOK
    <2>5. QED
      BY <1>2, <2>3, <2>4, SubmitStep DEF Reverse
  <1>3. CASE UNCHANGED vars
    BY <1>3 DEF vars, IndInv, TypeOK, TransactionInv, CurrentLine, InsertedInv, NumbersDense,
                OncePerKey, DraftInv, NoOversell, KeyedBy
  <1>4. QED
    BY <1>1, <1>2, <1>3, WorkStep DEF Next, Finished

-----------------------------------------------------------------------------
(* Theorems *)

(* The inductive invariant holds: the journal, the rows and the keys are safe *)
(* because of who holds which lock while a transaction is under way.          *)
THEOREM IndInvariant == Spec => []IndInv
  <1>1. Init => IndInv
    BY InitIndInv
  <1>2. IndInv /\ [Next]_vars => IndInv'
    BY NextStep
  <1>3. QED
    BY <1>1, <1>2, PTL DEF Spec

(* Every variable of the posting service keeps its type: in particular a     *)
(* transaction is always at a line of its command and the committed balance  *)
(* is a whole row of numbers for every product, warehouse and lot.           *)
THEOREM TypeCorrect == Spec => []TypeOK
  <1>1. IndInv => TypeOK
    BY DEF IndInv
  <1>2. QED
    BY <1>1, IndInvariant, PTL

(* The guards that applyMovement checks under the row lock keep every hold   *)
(* bucket, and on-hand without an override, from going below zero, for any   *)
(* number of concurrent calls and lines.                                     *)
THEOREM NeverOversold == Spec => []NoOversell
  <1>1. IndInv => NoOversell
    BY DEF IndInv
  <1>2. QED
    BY <1>1, IndInvariant, PTL

(* However many duplicates race past the lookup of postSpecs, at most one of *)
(* them commits: the key is on the first movement only, and the sequence row *)
(* is held from the check of the unique index to the commit.                 *)
THEOREM KeyPostsOnce == Spec => []OncePerKey
  <1>1. IndInv => OncePerKey
    BY DEF IndInv
  <1>2. QED
    BY <1>1, IndInvariant, PTL

(* Movement numbers leave no gap although transactions that roll back have   *)
(* drawn some: the sequence row is locked until its transaction ends.        *)
THEOREM NumbersLeaveNoGap == Spec => []NumbersDense
  <1>1. IndInv => NumbersDense
    BY DEF IndInv
  <1>2. QED
    BY <1>1, IndInvariant, PTL

-----------------------------------------------------------------------------
(* The refinement: a committed transaction is one posting of the ledger *)

(* What is proved of the ledger, of these balances and movements. *)
LedgerFacts == INSTANCE StockLedgerProofs

(* The ledger that the transactions implement makes the same of lines as the *)
(* one that StockLedgerProofs is about ..                                    *)
LEMMA SamePosting ==
    ASSUME NEW lines
    PROVE  Ledger!Posted(lines) = LedgerFacts!Posted(lines)
BY DEF Ledger!Posted, LedgerFacts!Posted, Ledger!FoldLeft, LedgerFacts!FoldLeft,
       Ledger!MapThenFoldSet, LedgerFacts!MapThenFoldSet, Ledger!PostLine, LedgerFacts!PostLine,
       Ledger!Admissible, LedgerFacts!Admissible, Ledger!AddDeltas, LedgerFacts!AddDeltas,
       Ledger!LineDeltas, LedgerFacts!LineDeltas, Ledger!BucketDeltasFor,
       LedgerFacts!BucketDeltasFor, Ledger!Raising, LedgerFacts!Raising, Ledger!Lowering,
       LedgerFacts!Lowering, Ledger!Buckets, LedgerFacts!Buckets, Ledger!Max, LedgerFacts!Max

(* .. and its data are those of the transactions. *)
LEMMA SameData ==
    /\ \A l : Ledger!LineDeltas(l) = LineDeltas(l) /\ LedgerFacts!LineDeltas(l) = LineDeltas(l)
    /\ \A row, l : Ledger!Admissible(row, l) <=> Admissible(row, l)
    /\ \A row, l : LedgerFacts!Admissible(row, l) <=> Admissible(row, l)
    /\ \A row, d : LedgerFacts!AddDeltas(row, d) = AddDeltas(row, d)
    /\ \A journal, key : Ledger!KeyedBy(journal, key) = KeyedBy(journal, key)
    /\ \A cm, i, no, ref : Ledger!MovementFor(cm, i, no, ref) = MovementFor(cm, i, no, ref)
    /\ \A m, key : Ledger!ReversalOf(m, key) = ReversalOf(m, key)
    /\ Ledger!EmptyRow = EmptyRow /\ LedgerFacts!Buckets = Buckets
    /\ LedgerFacts!Row = Row
<1>1. Ledger!Buckets = Buckets /\ LedgerFacts!Buckets = Buckets
  BY DEF Ledger!Buckets, LedgerFacts!Buckets, Buckets
<1>2. /\ Ledger!Raising = Raising /\ LedgerFacts!Raising = Raising
      /\ Ledger!Lowering = Lowering /\ LedgerFacts!Lowering = Lowering
  BY DEF Ledger!Raising, Raising, LedgerFacts!Raising, Ledger!Lowering, Lowering, LedgerFacts!Lowering
<1>3. /\ \A l : Ledger!LineDeltas(l) = LineDeltas(l)
      /\ \A l : LedgerFacts!LineDeltas(l) = LineDeltas(l)
  BY <1>1, <1>2 DEF Ledger!LineDeltas, LedgerFacts!LineDeltas, LineDeltas,
       Ledger!BucketDeltasFor, LedgerFacts!BucketDeltasFor, BucketDeltasFor
<1>4. /\ \A row, d : Ledger!AddDeltas(row, d) = AddDeltas(row, d)
      /\ \A row, d : LedgerFacts!AddDeltas(row, d) = AddDeltas(row, d)
  BY <1>1 DEF Ledger!AddDeltas, LedgerFacts!AddDeltas, AddDeltas
<1>5. /\ \A row, l : Ledger!Admissible(row, l) <=> Admissible(row, l)
      /\ \A row, l : LedgerFacts!Admissible(row, l) <=> Admissible(row, l)
  BY <1>1, <1>3, <1>4 DEF Ledger!Admissible, LedgerFacts!Admissible, Admissible
<1>6. /\ \A journal, key : Ledger!KeyedBy(journal, key) = KeyedBy(journal, key)
      /\ \A cm, i, no, ref : Ledger!MovementFor(cm, i, no, ref) = MovementFor(cm, i, no, ref)
  BY <1>3 DEF Ledger!KeyedBy, KeyedBy, Ledger!MovementFor, MovementFor
<1>7. \A m, key : Ledger!ReversalOf(m, key) = ReversalOf(m, key)
  BY <1>1 DEF Ledger!ReversalOf, ReversalOf, Ledger!NegateDeltas, NegateDeltas
<1>8. Ledger!EmptyRow = EmptyRow /\ LedgerFacts!Row = Row
  BY <1>1 DEF Ledger!EmptyRow, EmptyRow, LedgerFacts!Row, Row
<1> QED BY <1>1, <1>3, <1>4, <1>5, <1>6, <1>7, <1>8

(* A command under way is one that callers may ask for, or reverses a        *)
(* committed movement.                                                       *)
Asked(c) ==
    pc[c] # "idle" =>
        \/ cmd[c] \in Commands
        \/ \E i \in DOMAIN movements, key \in ReversalKeys \cup {NoKey} :
              movements[i].reversalOf = 0 /\ cmd[c] = ReversalOf(movements[i], key)

(* Rows are locked by transactions. *)
Locks(c) == \A g \in Grains : rowLock[g] = c => pc[c] \in InTransaction

(* What a transaction has inserted are the movements of its first lines, and *)
(* all of them when it is about to commit.                                   *)
Inserted(c) ==
    /\ \A k \in DOMAIN out[c] : out[c][k] = MovementFor(cmd[c], k, sequence + k, RefOf(c))
    /\ pc[c] = "commit" => Len(out[c]) = Len(cmd[c].lines)

(* The balances as the transaction of c sees them. *)
View(c) == [g \in Grains |-> IF rowLock[g] = c THEN draft[c][g] ELSE balance[g]]

(* b[n] is what the first n of lines make of bal, each of them admissible. *)
Walks(b, bal, lines, n) ==
    /\ b[0] = bal
    /\ \A i \in 0 .. n : b[i] \in [Grains -> Row]
    /\ \A i \in 1 .. n :
          /\ Admissible(b[i - 1][lines[i].grain], lines[i])
          /\ b[i] = [b[i - 1] EXCEPT ![lines[i].grain] =
                        AddDeltas(b[i - 1][lines[i].grain], LineDeltas(lines[i]))]

(* A transaction has locked the rows of the lines it has inserted, and what  *)
(* it sees is what these lines make of the committed balance, whatever       *)
(* others have committed to other rows since it began.                       *)
Sees(c) ==
    pc[c] \in InTransaction =>
        /\ \A i \in 1 .. Len(out[c]) : rowLock[cmd[c].lines[i].grain] = c
        /\ \E b : Walks(b, balance, cmd[c].lines, Len(out[c])) /\ b[Len(out[c])] = View(c)

(* A transaction has inserted no more lines than there are, lines of rows.   *)
LEMMA InsertedLine ==
    ASSUME IndInv, NEW c \in Calls, pc[c] \in InTransaction, Inserted(c)
    PROVE  /\ Len(out[c]) \in Nat /\ DOMAIN out[c] = 1 .. Len(out[c])
           /\ Len(cmd[c].lines) \in Nat /\ DOMAIN cmd[c].lines = 1 .. Len(cmd[c].lines)
           /\ Len(out[c]) <= Len(cmd[c].lines)
           /\ \A i \in 1 .. Len(cmd[c].lines) : /\ cmd[c].lines[i] \in Line
                                                /\ cmd[c].lines[i].grain \in Grains
                                                /\ LineDeltas(cmd[c].lines[i]) \in Row
<1>1. /\ out[c] \in Seq(Movement) /\ cmd[c] \in Command /\ line[c] \in DOMAIN cmd[c].lines
      /\ line[c] \in Nat
  BY DEF IndInv, TypeOK, TransactionInv, InTransaction
<1>2. cmd[c].lines \in Seq(Line)
  BY <1>1 DEF Command
<1>3. Len(out[c]) <= Len(cmd[c].lines)
  <2>1. CASE pc[c] \in {"lock", "insert"}
    <3>1. Len(out[c]) = line[c] - 1
      BY <2>1 DEF IndInv, TransactionInv
    <3>2. line[c] <= Len(cmd[c].lines) /\ Len(cmd[c].lines) \in Nat
      BY <1>1, <1>2
    <3> QED BY <1>1, <3>1, <3>2
  <2>2. CASE pc[c] = "commit"
    BY <1>2, <2>2 DEF Inserted
  <2> QED BY <2>1, <2>2 DEF InTransaction
<1>4. \A i \in 1 .. Len(cmd[c].lines) : cmd[c].lines[i] \in Line
  BY <1>2
<1>5. \A l \in Line : l.grain \in Grains /\ LineDeltas(l) \in Row
  BY LineDeltasType DEF Line
<1> QED BY <1>1, <1>2, <1>3, <1>4, <1>5

(* b with the rows that are not in mine as in bal. *)
Rebased(b, bal, mine, n) ==
    [i \in 0 .. n |-> [g \in Grains |-> IF g \in mine THEN b[i][g] ELSE bal[g]]]

(* What lines make of some rows does not depend on the others. *)
LEMMA WalksRebased ==
    ASSUME NEW bal \in [Grains -> Row], NEW bal2 \in [Grains -> Row], NEW n \in Nat, NEW lines,
           NEW b, Walks(b, bal, lines, n), NEW mine \in SUBSET Grains,
           \A i \in 1 .. n : lines[i].grain \in mine /\ LineDeltas(lines[i]) \in Row,
           \A g \in mine : bal2[g] = bal[g]
    PROVE  Walks(Rebased(b, bal2, mine, n), bal2, lines, n)
<1> DEFINE e == Rebased(b, bal2, mine, n)
<1>2. \A i \in 0 .. n : b[i] \in [Grains -> Row]
  BY DEF Walks
<1>1. ASSUME NEW i \in 0 .. n
      PROVE  /\ e[i] \in [Grains -> Row]
             /\ \A g \in Grains : e[i][g] = IF g \in mine THEN b[i][g] ELSE bal2[g]
  <2> DEFINE o == b[i]
             w == [g \in Grains |-> IF g \in mine THEN o[g] ELSE bal2[g]]
  <2>1. e[i] = w
    BY DEF Rebased
  <2>2. o \in [Grains -> Row]
    BY <1>2
  <2> HIDE DEF e, o
  <2>3. w \in [Grains -> Row] /\ \A g \in Grains : w[g] = IF g \in mine THEN o[g] ELSE bal2[g]
    BY <2>2
  <2> QED BY <2>1, <2>3 DEF o
<1> HIDE DEF e
<1>3. e[0] = bal2
  <2>1. b[0] = bal /\ 0 \in 0 .. n
    BY DEF Walks
  <2>2. \A g \in Grains : e[0][g] = bal2[g]
    BY <1>1, <2>1
  <2>3. e[0] \in [Grains -> Row]
    BY <1>1, <2>1
  <2> QED BY <2>2, <2>3
<1>4. \A i \in 0 .. n : e[i] \in [Grains -> Row]
  BY <1>1
<1>5. ASSUME NEW i \in 1 .. n
      PROVE  /\ Admissible(e[i - 1][lines[i].grain], lines[i])
             /\ e[i] = [e[i - 1] EXCEPT ![lines[i].grain] =
                           AddDeltas(e[i - 1][lines[i].grain], LineDeltas(lines[i]))]
  <2> DEFINE g0 == lines[i].grain
             d == LineDeltas(lines[i])
             o == b[i - 1]
             p == e[i - 1]
             new == AddDeltas(o[g0], d)
  <2>1. i - 1 \in 0 .. n /\ i \in 0 .. n
    OBVIOUS
  <2>2. o \in [Grains -> Row] /\ p \in [Grains -> Row] /\ e[i] \in [Grains -> Row]
    BY <1>2, <1>4, <2>1
  <2>3. g0 \in mine /\ g0 \in Grains
    OBVIOUS
  <2>4. /\ Admissible(o[g0], lines[i]) /\ b[i] = [o EXCEPT ![g0] = new]
    BY DEF Walks
  <2>5. \A g \in Grains : p[g] = IF g \in mine THEN o[g] ELSE bal2[g]
    BY <1>1, <2>1
  <2>6. \A g \in Grains : e[i][g] = IF g \in mine THEN b[i][g] ELSE bal2[g]
    BY <1>1, <2>1, ZenonT(60)
  <2> HIDE DEF o, p, g0, new
  <2>7. p[g0] = o[g0]
    BY <2>3, <2>5
  <2>8. e[i] = [p EXCEPT ![g0] = new]
    <3>1. ASSUME NEW g \in Grains PROVE e[i][g] = [p EXCEPT ![g0] = new][g]
      <4>1. /\ p[g] = IF g \in mine THEN o[g] ELSE bal2[g]
            /\ e[i][g] = IF g \in mine THEN b[i][g] ELSE bal2[g]
        BY <2>5, <2>6
      <4>2. b[i][g] = IF g = g0 THEN new ELSE o[g]
        BY <2>2, <2>4
      <4>3. [p EXCEPT ![g0] = new][g] = IF g = g0 THEN new ELSE p[g]
        BY <2>2
      <4> QED BY <2>3, <4>1, <4>2, <4>3
    <3>2. DOMAIN [p EXCEPT ![g0] = new] = Grains
      BY <2>2
    <3>3. e[i] = [g \in Grains |-> e[i][g]] /\ [p EXCEPT ![g0] = new] = [g \in Grains |-> [p EXCEPT ![g0] = new][g]]
      BY <2>2
    <3> QED BY <3>1, <3>3
  <2> QED BY <2>4, <2>7, <2>8 DEF p, g0, new
<1> QED BY <1>3, <1>4, <1>5 DEF Walks, e

(* What others do, to rows it has not locked, does not change what a         *)
(* transaction sees.                                                         *)
LEMMA OtherSees ==
    ASSUME IndInv, IndInv', NEW d \in Calls, Inserted(d), Sees(d),
           pc'[d] = pc[d], cmd'[d] = cmd[d], out'[d] = out[d], draft'[d] = draft[d],
           \A g \in Grains : /\ rowLock'[g] = d <=> rowLock[g] = d
                             /\ rowLock[g] = d => balance'[g] = balance[g]
    PROVE  Sees(d)'
<1> SUFFICES ASSUME pc[d] \in InTransaction
             PROVE  /\ \A i \in 1 .. Len(out[d]) : rowLock'[cmd[d].lines[i].grain] = d
                    /\ \E b : /\ Walks(b, balance', cmd[d].lines, Len(out[d]))
                              /\ b[Len(out[d])] = View(d)'
  BY DEF Sees
<1> DEFINE n == Len(out[d])
           lines == cmd[d].lines
           mine == { g \in Grains : rowLock[g] = d }
<1>1. PICK b : Walks(b, balance, lines, n) /\ b[n] = View(d)
  BY DEF Sees
<1>2. \A i \in 1 .. n : rowLock[lines[i].grain] = d /\ lines[i].grain \in Grains /\ LineDeltas(lines[i]) \in Row
  BY InsertedLine DEF Sees
<1>3. n \in Nat /\ n \in 0 .. n
  BY InsertedLine
<1>4. balance \in [Grains -> Row] /\ balance' \in [Grains -> Row]
  BY DEF IndInv, TypeOK
<1> DEFINE e == Rebased(b, balance', mine, n)
<1>5. Walks(e, balance', lines, n)
  <2> DEFINE bal2 == balance'
  <2>1. bal2 \in [Grains -> Row] /\ \A g \in mine : bal2[g] = balance[g]
    BY <1>4
  <2>2. \A i \in 1 .. n : lines[i].grain \in mine /\ LineDeltas(lines[i]) \in Row
    BY <1>2
  <2>3. mine \in SUBSET Grains
    OBVIOUS
  <2> HIDE DEF bal2, mine, n, lines
  <2>4. Walks(Rebased(b, bal2, mine, n), bal2, lines, n)
    BY <1>1, <1>3, <1>4, <2>1, <2>2, <2>3, WalksRebased
  <2> QED BY <2>4 DEF bal2
<1>6. e[n] = View(d)'
  <2>1. e[n] = [g \in Grains |-> IF g \in mine THEN View(d)[g] ELSE balance'[g]]
    BY <1>1, <1>3 DEF Rebased
  <2> QED BY <2>1 DEF View
<1> QED BY <1>2, <1>5, <1>6

Viewed(c) == Asked(c) /\ Locks(c) /\ Inserted(c) /\ Sees(c)

(* The steps of others leave the account of a call as it is. *)
LEMMA OtherViewed ==
    ASSUME IndInv, IndInv', NEW d \in Calls, Viewed(d),
           pc'[d] = pc[d], cmd'[d] = cmd[d], out'[d] = out[d], draft'[d] = draft[d],
           \A g \in Grains : /\ rowLock'[g] = d <=> rowLock[g] = d
                             /\ rowLock[g] = d => balance'[g] = balance[g],
           \A i \in DOMAIN movements : i \in DOMAIN movements' /\ movements'[i] = movements[i],
           out[d] # << >> => sequence' = sequence
    PROVE  Viewed(d)'
<1>1. Sees(d)'
  BY OtherSees DEF Viewed
<1>2. Asked(d)'
  <2> SUFFICES ASSUME pc[d] # "idle", cmd[d] \notin Commands
               PROVE  \E i \in DOMAIN movements', key \in ReversalKeys \cup {NoKey} :
                         movements'[i].reversalOf = 0 /\ cmd[d] = ReversalOf(movements'[i], key)
    BY DEF Asked
  <2>1. PICK i \in DOMAIN movements, key \in ReversalKeys \cup {NoKey} :
           movements[i].reversalOf = 0 /\ cmd[d] = ReversalOf(movements[i], key)
    BY DEF Viewed, Asked
  <2> QED BY <2>1
<1>3. Locks(d)'
  BY DEF Viewed, Locks
<1>4. Inserted(d)'
  <2>1. RefOf(d)' = RefOf(d)
    BY DEF RefOf
  <2>2. ASSUME NEW k \in DOMAIN out[d]
        PROVE  out[d][k] = MovementFor(cmd[d], k, sequence' + k, RefOf(d))
    <3>1. out[d] # << >>
      OBVIOUS
    <3> QED BY <3>1 DEF Viewed, Inserted
  <2>3. pc[d] = "commit" => Len(out[d]) = Len(cmd[d].lines)
    BY DEF Viewed, Inserted
  <2> QED BY <2>1, <2>2, <2>3 DEF Inserted
<1> QED BY <1>1, <1>2, <1>3, <1>4 DEF Viewed

(* No lines make nothing of the balances. *)
LEMMA WalksNone ==
    ASSUME NEW bal \in [Grains -> Row], NEW lines
    PROVE  \E b : Walks(b, bal, lines, 0) /\ b[0] = bal
<1> DEFINE b == [i \in {0} |-> bal]
<1>1. b[0] = bal
  OBVIOUS
<1>2. /\ \A i \in 0 .. 0 : i = 0
      /\ \A i \in 1 .. 0 : FALSE
  OBVIOUS
<1> HIDE DEF b
<1>3. Walks(b, bal, lines, 0)
  BY <1>1, <1>2 DEF Walks
<1> QED BY <1>1, <1>3

(* A request that begins, or is answered before it does. *)
LEMMA BeginViewed ==
    ASSUME IndInv, IndInv', NEW c \in Calls, NEW command,
           pc[c] = "idle", \A d \in Calls : Viewed(d),
           NEW target \in {"lock", "replayed"},
           pc' = [pc EXCEPT ![c] = target],
           cmd' = [cmd EXCEPT ![c] = command],
           UNCHANGED << dbVars, lockVars, line, draft, out >>,
           \/ command \in Commands
           \/ \E i \in DOMAIN movements, key \in ReversalKeys \cup {NoKey} :
                 movements[i].reversalOf = 0 /\ command = ReversalOf(movements[i], key)
    PROVE  \A d \in Calls : Viewed(d)'
<1> USE DEF dbVars, lockVars
<1>1. ASSUME NEW d \in Calls, d # c PROVE Viewed(d)'
  <2>1. pc'[d] = pc[d] /\ cmd'[d] = cmd[d]
    BY <1>1 DEF IndInv, TypeOK
  <2>2. Viewed(d)
    OBVIOUS
  <2> QED BY <2>1, <2>2, OtherViewed
<1>2. pc'[c] = target /\ cmd'[c] = command /\ out'[c] = << >>
  <2>1. out[c] = << >>
    BY DEF IndInv, TransactionInv, InTransaction
  <2> QED BY <2>1 DEF IndInv, TypeOK
<1>3. \A g \in Grains : rowLock'[g] # c
  BY DEF Viewed, Locks, InTransaction
<1>4. Sees(c)'
  <2>1. balance' \in [Grains -> Row]
    BY DEF IndInv, TypeOK
  <2>2. View(c)' = balance'
    BY <1>3, <2>1 DEF View
  <2>3. Len(out'[c]) = 0 /\ \A i \in 1 .. 0 : FALSE
    BY <1>2
  <2> DEFINE bal == balance'
             lines == cmd'[c].lines
  <2>4. \E b : Walks(b, bal, lines, 0) /\ b[0] = bal
    <3>1. bal \in [Grains -> Row]
      BY <2>1
    <3> HIDE DEF bal, lines
    <3> QED BY <3>1, WalksNone
  <2> QED BY <2>2, <2>3, <2>4 DEF Sees
<1>5. Asked(c)' /\ Locks(c)' /\ Inserted(c)'
  BY <1>2, <1>3 DEF Asked, Locks, Inserted
<1> QED BY <1>1, <1>4, <1>5 DEF Viewed

(* A transaction that is rolled back. *)
LEMMA RollbackViewed ==
    ASSUME IndInv, IndInv', NEW c \in Calls, pc[c] \in InTransaction, \A d \in Calls : Viewed(d),
           NEW outcome \in {"lost"} \cup Ended, Rollback(c, outcome)
    PROVE  \A d \in Calls : Viewed(d)'
<1> USE DEF Rollback, EndTransaction, dbVars
<1>1. ASSUME NEW d \in Calls, d # c PROVE Viewed(d)'
  <2>1. pc'[d] = pc[d] /\ cmd'[d] = cmd[d] /\ out'[d] = out[d] /\ draft'[d] = draft[d]
    BY <1>1 DEF IndInv, TypeOK
  <2>2. \A g \in Grains : rowLock'[g] = d <=> rowLock[g] = d
    BY <1>1, NullsAssumption
  <2>3. Viewed(d)
    OBVIOUS
  <2> QED BY <2>1, <2>2, <2>3, OtherViewed
<1>2. pc'[c] = outcome /\ cmd'[c] = cmd[c] /\ out'[c] = << >>
  BY DEF IndInv, TypeOK
<1>3. outcome \notin InTransaction /\ pc[c] # "idle" /\ outcome # "commit"
  BY DEF Ended, InTransaction
<1>4. \A g \in Grains : rowLock'[g] # c
  BY NullsAssumption
<1>5. Asked(c)' /\ Locks(c)' /\ Inserted(c)' /\ Sees(c)'
  BY <1>2, <1>3, <1>4 DEF Asked, Locks, Inserted, Sees, Viewed
<1> QED BY <1>1, <1>5 DEF Viewed

(* A late reader. *)
LEMMA ReadWinnerViewed ==
    ASSUME IndInv, IndInv', NEW c \in Calls, \A d \in Calls : Viewed(d), ReadWinner(c)
    PROVE  \A d \in Calls : Viewed(d)'
<1> USE DEF ReadWinner, dbVars, lockVars
<1>1. ASSUME NEW d \in Calls, d # c PROVE Viewed(d)'
  <2>1. pc'[d] = pc[d]
    BY <1>1 DEF IndInv, TypeOK
  <2>2. Viewed(d)
    OBVIOUS
  <2> QED BY <2>1, <2>2, OtherViewed
<1>2. pc'[c] = "replayed" /\ pc[c] = "lost"
  BY DEF IndInv, TypeOK
<1>3. RefOf(c)' = RefOf(c)
  BY DEF RefOf
<1>4. Asked(c)' /\ Locks(c)' /\ Inserted(c)' /\ Sees(c)'
  BY <1>2, <1>3 DEF Asked, Locks, Inserted, Sees, Viewed, InTransaction
<1> QED BY <1>1, <1>4 DEF Viewed

(* A row that is locked is seen as it was committed, or as the transaction   *)
(* left it.                                                                  *)
LEMMA LockRowViewed ==
    ASSUME IndInv, IndInv', NEW c \in Calls, \A d \in Calls : Viewed(d), LockRow(c)
    PROVE  \A d \in Calls : Viewed(d)'
<1> DEFINE g == CurrentLine(c).grain
<1>0. g \in Grains
  BY CurrentLineType DEF LockRow, InTransaction
<1>1. /\ pc[c] = "lock"
      /\ RowFree(c, g)
      /\ rowLock' = [rowLock EXCEPT ![g] = c]
      /\ draft' = [draft EXCEPT ![c][g] = RowSeen(c, g)]
      /\ pc' = [pc EXCEPT ![c] = "insert"]
      /\ UNCHANGED << balance, movements, sequence, seqLock, cmd, line, out, answer >>
  BY DEF LockRow, dbVars
<1> HIDE DEF g
<1>2. ASSUME NEW d \in Calls, d # c PROVE Viewed(d)'
  <2>1. pc'[d] = pc[d] /\ draft'[d] = draft[d]
    BY <1>1, <1>2 DEF IndInv, TypeOK
  <2>2. rowLock[g] # d
    BY <1>1, <1>2, NullsAssumption DEF RowFree
  <2>3. \A h \in Grains : rowLock'[h] = d <=> rowLock[h] = d
    BY <1>0, <1>1, <1>2, <2>2 DEF IndInv, TypeOK
  <2>4. Viewed(d)
    OBVIOUS
  <2> QED BY <1>1, <2>1, <2>3, <2>4, OtherViewed
<1>3. /\ pc'[c] = "insert" /\ cmd' = cmd /\ out' = out /\ rowLock'[g] = c
      /\ \A h \in Grains : h # g => rowLock'[h] = rowLock[h] /\ draft'[c][h] = draft[c][h]
      /\ draft'[c][g] = RowSeen(c, g)
  BY <1>0, <1>1 DEF IndInv, TypeOK
<1>4. View(c)' = View(c)
  BY <1>0, <1>1, <1>3 DEF View, RowSeen
<1>5. Sees(c)'
  <2>1. \A i \in 1 .. Len(out[c]) : rowLock'[cmd[c].lines[i].grain] = c
    <3>1. Inserted(c)
      BY DEF Viewed
    <3>2. \A i \in 1 .. Len(out[c]) : rowLock[cmd[c].lines[i].grain] = c /\ cmd[c].lines[i].grain \in Grains
      BY <1>1, <3>1, InsertedLine DEF Viewed, Sees, InTransaction
    <3> QED BY <1>3, <3>2
  <2>2. \E b : Walks(b, balance, cmd[c].lines, Len(out[c])) /\ b[Len(out[c])] = View(c)
    BY <1>1 DEF Viewed, Sees, InTransaction
  <2> QED BY <1>1, <1>3, <1>4, <2>1, <2>2 DEF Sees
<1>6. RefOf(c)' = RefOf(c)
  BY <1>1 DEF RefOf
<1>7. Asked(c)' /\ Locks(c)' /\ Inserted(c)'
  <2>1. Asked(c)'
    BY <1>1, <1>3 DEF Asked, Viewed
  <2>2. Locks(c)'
    BY <1>3 DEF Locks, InTransaction
  <2>3. Inserted(c)'
    BY <1>1, <1>3, <1>6 DEF Inserted, Viewed
  <2> QED BY <2>1, <2>2, <2>3
<1> QED BY <1>2, <1>5, <1>7 DEF Viewed

(* One admissible line more. *)
LEMMA WalksOn ==
    ASSUME NEW bal, NEW lines, NEW n \in Nat, NEW b, Walks(b, bal, lines, n),
           NEW l, l = lines[n + 1], l.grain \in Grains, LineDeltas(l) \in Row,
           NEW old, old = b[n], Admissible(old[l.grain], l),
           NEW new, new = [old EXCEPT ![l.grain] = AddDeltas(old[l.grain], LineDeltas(l))]
    PROVE  \E e : Walks(e, bal, lines, n + 1) /\ e[n + 1] = new
<1> DEFINE e == [i \in 0 .. n + 1 |-> IF i = n + 1 THEN new ELSE b[i]]
<1>1. e[n + 1] = new /\ \A i \in 0 .. n : e[i] = b[i]
  OBVIOUS
<1>2. old \in [Grains -> Row]
  <2>1. n \in 0 .. n
    OBVIOUS
  <2> QED BY <2>1 DEF Walks
<1>3. new \in [Grains -> Row]
  <2>1. AddDeltas(old[l.grain], LineDeltas(l)) \in Row
    BY <1>2, AddDeltasType
  <2> QED BY <1>2, <2>1
<1>4. \A i \in 0 .. n + 1 : i \in 0 .. n \/ i = n + 1
  OBVIOUS
<1>5. \A i \in 1 .. n + 1 : \/ (i \in 1 .. n /\ i \in 0 .. n /\ i - 1 \in 0 .. n)
                            \/ (i = n + 1 /\ i - 1 = n)
  OBVIOUS
<1>6. 0 \in 0 .. n /\ n \in 0 .. n
  OBVIOUS
<1> HIDE DEF e
<1>7. e[0] = bal
  BY <1>1, <1>6 DEF Walks
<1>8. \A i \in 0 .. n + 1 : e[i] \in [Grains -> Row]
  BY <1>1, <1>3, <1>4 DEF Walks
<1>9. ASSUME NEW i \in 1 .. n + 1
      PROVE  /\ Admissible(e[i - 1][lines[i].grain], lines[i])
             /\ e[i] = [e[i - 1] EXCEPT ![lines[i].grain] =
                           AddDeltas(e[i - 1][lines[i].grain], LineDeltas(lines[i]))]
  <2>1. CASE i \in 1 .. n /\ i \in 0 .. n /\ i - 1 \in 0 .. n
    BY <1>1, <2>1 DEF Walks
  <2>2. CASE i = n + 1 /\ i - 1 = n
    BY <1>1, <1>6, <2>2
  <2> QED BY <1>5, <2>1, <2>2
<1>10. Walks(e, bal, lines, n + 1)
  BY <1>7, <1>8, <1>9 DEF Walks
<1> QED BY <1>1, <1>10

(* An inserted line: what the transaction sees has moved by it. *)
LEMMA InsertViewed ==
    ASSUME IndInv, IndInv', NEW c \in Calls, \A d \in Calls : Viewed(d), Insert(c)
    PROVE  \A d \in Calls : Viewed(d)'
<1> DEFINE l == CurrentLine(c)
           g == l.grain
           m == MovementFor(cmd[c], line[c], sequence + Len(out[c]) + 1, RefOf(c))
           n == Len(out[c])
           row == AddDeltas(draft[c][g], LineDeltas(l))
<1>0. /\ pc[c] = "insert" /\ pc[c] \in InTransaction
      /\ line[c] \in DOMAIN cmd[c].lines
      /\ l \in Line /\ g \in Grains
      /\ rowLock[g] = c
  <2>1. pc[c] = "insert" /\ pc[c] \in InTransaction
    BY DEF Insert, InTransaction
  <2> QED BY <2>1, CurrentLineType DEF IndInv, TransactionInv
<1>1. /\ Admissible(draft[c][g], l)
      /\ SequenceFree(c)
      /\ draft' = [draft EXCEPT ![c][g] = row]
      /\ out' = [out EXCEPT ![c] = Append(out[c], m)]
      /\ pc' = [pc EXCEPT ![c] = IF LastLine(c) THEN "commit" ELSE "lock"]
      /\ UNCHANGED << balance, movements, sequence, rowLock, cmd, answer >>
  <2>1. draft' = [draft EXCEPT ![c][g] = row]
    BY <1>0 DEF Insert, IndInv, TypeOK
  <2> QED BY <2>1 DEF Insert, CanInsert, dbVars
<1>2. n \in Nat /\ line[c] = n + 1 /\ out[c] \in Seq(Movement)
  <2>1. out[c] \in Seq(Movement) /\ line[c] \in Nat
    BY DEF IndInv, TypeOK
  <2>2. n = line[c] - 1
    BY <1>0 DEF IndInv, TransactionInv
  <2> QED BY <2>1, <2>2
<1>3. l = cmd[c].lines[n + 1] /\ LineDeltas(l) \in Row
  BY <1>0, <1>2, LineDeltasType DEF CurrentLine
<1>4. m = MovementFor(cmd[c], n + 1, sequence + (n + 1), RefOf(c))
  <2>1. sequence + n + 1 = sequence + (n + 1)
    BY <1>2 DEF IndInv, TypeOK
  <2> QED BY <1>2, <2>1
<1>5. m \in Movement
  <2>1. sequence + Len(out[c]) + 1 \in Nat
    BY DEF IndInv, TypeOK
  <2>2. cmd[c] \in Command
    BY <1>0, CurrentLineType
  <2>3. RefOf(c) \in Refs \cup {NoRef}
    BY <2>2, CommandsAssumption DEF RefOf, Command
  <2> QED BY <1>0, <2>1, <2>2, <2>3, MovementForType
<1>l. l = CurrentLine(c) /\ g = l.grain
  OBVIOUS
<1> HIDE DEF l, m, row
<1>6. /\ Len(Append(out[c], m)) = n + 1 /\ DOMAIN Append(out[c], m) = 1 .. n + 1
      /\ DOMAIN out[c] = 1 .. n
      /\ Append(out[c], m)[n + 1] = m
      /\ \A k \in 1 .. n : Append(out[c], m)[k] = out[c][k]
  BY <1>2, <1>5
<1>7. ASSUME NEW d \in Calls, d # c PROVE Viewed(d)'
  <2>1. pc'[d] = pc[d] /\ draft'[d] = draft[d] /\ out'[d] = out[d]
    BY <1>1, <1>7 DEF IndInv, TypeOK
  <2>2. Viewed(d)
    OBVIOUS
  <2> QED BY <1>1, <2>1, <2>2, OtherViewed
<1>8. /\ pc'[c] = (IF LastLine(c) THEN "commit" ELSE "lock")
      /\ out'[c] = Append(out[c], m)
      /\ draft'[c][g] = row
      /\ \A h \in Grains : h # g => draft'[c][h] = draft[c][h]
  BY <1>0, <1>1 DEF IndInv, TypeOK
<1>9. Sees(c)'
  <2> DEFINE lines == cmd[c].lines
             old == View(c)
             new == [old EXCEPT ![l.grain] = AddDeltas(old[l.grain], LineDeltas(l))]
  <2>1. old[l.grain] = draft[c][g]
    BY <1>0, <1>l DEF View
  <2>2. View(c)' = new
    <3>1. draft[c] \in [Grains -> Row] /\ balance \in [Grains -> Row]
      BY DEF IndInv, TypeOK
    <3>2. View(c)' = [h \in Grains |-> IF rowLock[h] = c THEN draft'[c][h] ELSE balance[h]]
      BY <1>1 DEF View
    <3>3. new = [h \in Grains |-> IF h = g THEN row ELSE old[h]]
      BY <1>0, <1>l, <2>1 DEF row, View
    <3> QED BY <1>0, <1>8, <3>2, <3>3 DEF View
  <2>3. PICK b : Walks(b, balance, lines, n) /\ b[n] = old
    BY <1>0 DEF Viewed, Sees
  <2>4. \E e : Walks(e, balance, lines, n + 1) /\ e[n + 1] = new
    <3> DEFINE z == new
               bal == balance
    <3>1. l.grain \in Grains /\ Admissible(old[l.grain], l) /\ LineDeltas(l) \in Row
      BY <1>0, <1>1, <1>3, <1>l, <2>1
    <3>2. z = [old EXCEPT ![l.grain] = AddDeltas(old[l.grain], LineDeltas(l))]
      OBVIOUS
    <3>3. l = lines[n + 1] /\ n \in Nat
      BY <1>2, <1>3
    <3>4. Walks(b, bal, lines, n) /\ old = b[n]
      BY <2>3
    <3> HIDE DEF old, lines, z, n, bal
    <3>5. \E e : Walks(e, bal, lines, n + 1) /\ e[n + 1] = z
      BY <3>1, <3>2, <3>3, <3>4, WalksOn
    <3> QED BY <3>5 DEF z, bal
  <2>5. \A i \in 1 .. n + 1 : rowLock[lines[i].grain] = c
    <3>1. \A i \in 1 .. n : rowLock[lines[i].grain] = c
      BY <1>0 DEF Viewed, Sees
    <3>2. \A i \in 1 .. n + 1 : i \in 1 .. n \/ i = n + 1
      BY <1>2
    <3> QED BY <1>0, <1>3, <1>l, <3>1, <3>2
  <2> HIDE DEF old, new
  <2> QED BY <1>1, <1>6, <1>8, <2>2, <2>4, <2>5 DEF Sees
<1>10. RefOf(c)' = RefOf(c)
  BY <1>1 DEF RefOf
<1>11. Inserted(c)'
  <2>1. ASSUME NEW k \in 1 .. n + 1
        PROVE  out'[c][k] = MovementFor(cmd[c], k, sequence + k, RefOf(c))
    <3>1. CASE k = n + 1
      BY <1>4, <1>6, <1>8, <3>1
    <3>2. CASE k \in 1 .. n
      BY <1>6, <1>8, <3>2 DEF Viewed, Inserted
    <3> QED BY <1>2, <3>1, <3>2
  <2>2. LastLine(c) => n + 1 = Len(cmd[c].lines)
    BY <1>2 DEF LastLine
  <2> QED BY <1>1, <1>6, <1>8, <1>10, <2>1, <2>2 DEF Inserted
<1>12. Asked(c)' /\ Locks(c)'
  <2>1. Asked(c)'
    BY <1>0, <1>1 DEF Asked, Viewed
  <2>2. Locks(c)'
    BY <1>8 DEF Locks, InTransaction
  <2> QED BY <2>1, <2>2
<1> QED BY <1>7, <1>9, <1>11, <1>12 DEF Viewed

(* A transaction that commits changes the rows that it has locked only. *)
LEMMA CommitViewed ==
    ASSUME IndInv, IndInv', NEW c \in Calls, \A d \in Calls : Viewed(d), Commit(c)
    PROVE  \A d \in Calls : Viewed(d)'
<1>1. /\ pc[c] = "commit" /\ pc[c] \in InTransaction
      /\ balance' = [g \in Grains |-> IF rowLock[g] = c THEN draft[c][g] ELSE balance[g]]
      /\ sequence' = sequence + Len(out[c])
      /\ pc' = [pc EXCEPT ![c] = "posted"]
      /\ rowLock' = [g \in Grains |-> IF rowLock[g] = c THEN NoCall ELSE rowLock[g]]
      /\ draft' = [draft EXCEPT ![c] = [g \in Grains |-> EmptyRow]]
      /\ out' = [out EXCEPT ![c] = << >>]
      /\ cmd' = cmd
  BY DEF Commit, EndTransaction, InTransaction
<1>2. \A i \in DOMAIN movements : i \in DOMAIN movements' /\ movements'[i] = movements[i]
  BY CommittedJournal
<1>3. ASSUME NEW d \in Calls, d # c PROVE Viewed(d)'
  <2>1. pc'[d] = pc[d] /\ draft'[d] = draft[d] /\ out'[d] = out[d]
    BY <1>1, <1>3 DEF IndInv, TypeOK
  <2>2. \A g \in Grains : /\ rowLock'[g] = d <=> rowLock[g] = d
                          /\ rowLock[g] = d => balance'[g] = balance[g]
    BY <1>1, <1>3, NullsAssumption
  <2>3. out[d] # << >> => sequence' = sequence
    <3>1. out[d] # << >> => out[c] = << >>
      BY <1>3 DEF IndInv, TransactionInv
    <3> QED BY <1>1, <3>1 DEF IndInv, TypeOK
  <2>4. Viewed(d)
    OBVIOUS
  <2> QED BY <1>1, <1>2, <2>1, <2>2, <2>3, <2>4, OtherViewed
<1>4. pc'[c] = "posted" /\ out'[c] = << >>
  BY <1>1 DEF IndInv, TypeOK
<1>5. \A g \in Grains : rowLock'[g] # c
  BY <1>1, NullsAssumption
<1>6. Locks(c)' /\ Inserted(c)' /\ Sees(c)'
  BY <1>4, <1>5 DEF Locks, Inserted, Sees, InTransaction
<1>7. Asked(c)'
  <2> SUFFICES ASSUME cmd[c] \notin Commands
               PROVE  \E i \in DOMAIN movements', key \in ReversalKeys \cup {NoKey} :
                         movements'[i].reversalOf = 0 /\ cmd[c] = ReversalOf(movements'[i], key)
    BY <1>1 DEF Asked
  <2>1. PICK i \in DOMAIN movements, key \in ReversalKeys \cup {NoKey} :
           movements[i].reversalOf = 0 /\ cmd[c] = ReversalOf(movements[i], key)
    BY <1>1 DEF Viewed, Asked
  <2> QED BY <1>2, <2>1
<1> QED BY <1>3, <1>6, <1>7 DEF Viewed

(* What each call sees is accounted for, in every step. *)
LEMMA NextViewed ==
    ASSUME IndInv, IndInv', [Next]_vars, \A d \in Calls : Viewed(d)
    PROVE  \A d \in Calls : Viewed(d)'
<1>1. ASSUME NEW c \in Calls, NEW command \in Commands, Submit(c, command)
      PROVE  \A d \in Calls : Viewed(d)'
  <2>1. \E target \in {"lock", "replayed"} : pc' = [pc EXCEPT ![c] = target]
    BY <1>1 DEF Submit
  <2>2. /\ pc[c] = "idle" /\ cmd' = [cmd EXCEPT ![c] = command]
        /\ UNCHANGED << dbVars, lockVars, line, draft, out >>
    BY <1>1 DEF Submit
  <2> QED BY <2>1, <2>2, BeginViewed
<1>2. ASSUME NEW c \in Calls, NEW i \in DOMAIN movements, NEW key \in ReversalKeys \cup {NoKey},
             Reverse(c, i, key)
      PROVE  \A d \in Calls : Viewed(d)'
  <2> DEFINE command == ReversalOf(movements[i], key)
             target == "lock"
  <2>1. /\ pc[c] = "idle" /\ cmd' = [cmd EXCEPT ![c] = command]
        /\ target \in {"lock", "replayed"} /\ pc' = [pc EXCEPT ![c] = target]
        /\ UNCHANGED << dbVars, lockVars, line, draft, out >>
    BY <1>2 DEF Reverse
  <2>2. \E j \in DOMAIN movements, k \in ReversalKeys \cup {NoKey} :
           movements[j].reversalOf = 0 /\ command = ReversalOf(movements[j], k)
    BY <1>2 DEF Reverse
  <2> HIDE DEF command, target
  <2> QED BY <2>1, <2>2, BeginViewed
<1>3. CASE UNCHANGED vars
  BY <1>3 DEF vars, Viewed, Asked, Locks, Inserted, Sees, View, RefOf
<1>4. ASSUME NEW c \in Calls, Work(c) \/ Fail(c) PROVE \A d \in Calls : Viewed(d)'
  <2>1. CASE LockRow(c)
    BY <2>1, LockRowViewed
  <2>2. CASE Refuse(c)
    BY <2>2, RollbackViewed DEF Refuse, InTransaction, Ended
  <2>3. CASE Insert(c)
    BY <2>3, InsertViewed
  <2>4. CASE LoseKey(c)
    BY <2>4, RollbackViewed DEF LoseKey, InTransaction, Ended
  <2>5. CASE Commit(c)
    BY <2>5, CommitViewed
  <2>6. CASE ReadWinner(c)
    BY <2>6, ReadWinnerViewed
  <2>7. CASE DeadlockVictim(c)
    <3>1. Blocker(c) # NoCall
      BY <2>7, NullsAssumption DEF DeadlockVictim
    <3>2. pc[c] \in InTransaction
      BY <3>1 DEF Blocker, InTransaction
    <3> QED BY <2>7, <3>2, RollbackViewed DEF DeadlockVictim, Ended
  <2>8. CASE Fail(c)
    BY <2>8, RollbackViewed DEF Fail, Ended
  <2> QED BY <1>4, <2>1, <2>2, <2>3, <2>4, <2>5, <2>6, <2>7, <2>8 DEF Work
<1> QED BY <1>1, <1>2, <1>3, <1>4 DEF Next, Finished

(* A ledger that has refused no line; and what it is after line l. *)
Accepts(a) == a = [ok |-> a.ok, bal |-> a.bal] /\ a.ok
After(a, l) ==
    [ok |-> TRUE,
     bal |-> [a.bal EXCEPT ![l.grain] = AddDeltas(a.bal[l.grain], LineDeltas(l))]]

(* A line that is admissible is posted. *)
LEMMA AdmissibleIsPosted ==
    ASSUME NEW a, Accepts(a), NEW l, Admissible(a.bal[l.grain], l)
    PROVE  LedgerFacts!PostLine(a, l) = After(a, l)
<1> DEFINE g == l.grain
           new == AddDeltas(a.bal[g], LineDeltas(l))
           z == LedgerFacts!PostLine(a, l)
<1>1. LedgerFacts!Admissible(a.bal[g], l)
  BY SameData
<1>2. LedgerFacts!AddDeltas(a.bal[g], LedgerFacts!LineDeltas(l)) = new
  BY SameData
<1>3. z = [a EXCEPT !.bal[g] = new]
  BY <1>1, <1>2 DEF LedgerFacts!PostLine, Accepts
<1> HIDE DEF g, new, z
<1>4. z = [ok |-> TRUE, bal |-> [a.bal EXCEPT ![g] = new]]
  BY <1>3 DEF Accepts
<1> QED BY <1>4 DEF g, new, z, After

(* Lines that walk the balances are posted by the ledger. *)
LEMMA WalkIsPosted ==
    ASSUME NEW lines, NEW n \in Nat, Len(lines) = n, DOMAIN lines = 1 .. n,
           \A i \in 1 .. n : lines[i].grain \in Grains,
           NEW b, Walks(b, balance, lines, n)
    PROVE  Ledger!Posted(lines).ok /\ Ledger!Posted(lines).bal = b[n]
<1>1. PICK acc : LedgerFacts!Accumulates(lines, balance, acc) /\ LedgerFacts!Posted(lines) = acc[n]
  BY LedgerFacts!PostedSteps
<1> DEFINE Same(i) == acc[i] = [ok |-> acc[i].ok, bal |-> acc[i].bal] /\ acc[i].ok /\ acc[i].bal = b[i]
           Q == { i \in 0 .. n : ~Same(i) }
<1>2. Same(0)
  BY <1>1 DEF LedgerFacts!Accumulates, Walks
<1>3. ASSUME NEW i \in 1 .. n, Same(i - 1) PROVE Same(i)
  <2> DEFINE l == lines[i]
             a == acc[i - 1]
             z == acc[i]
  <2>1. z = LedgerFacts!PostLine(a, l)
    BY <1>1 DEF LedgerFacts!Accumulates
  <2>2. /\ Admissible(b[i - 1][l.grain], l)
        /\ b[i] = [b[i - 1] EXCEPT ![l.grain] = AddDeltas(b[i - 1][l.grain], LineDeltas(l))]
    BY DEF Walks
  <2>3. a = [ok |-> a.ok, bal |-> a.bal] /\ a.ok /\ a.bal = b[i - 1]
    BY <1>3
  <2> HIDE DEF l, a, z
  <2>4. Accepts(a) /\ Admissible(a.bal[l.grain], l)
    BY <2>2, <2>3 DEF Accepts
  <2>5. z = After(a, l)
    BY <2>1, <2>4, AdmissibleIsPosted
  <2>6. z = [ok |-> z.ok, bal |-> z.bal] /\ z.ok
    BY <2>5 DEF After
  <2>7. z.bal = b[i]
    BY <2>2, <2>3, <2>5 DEF After
  <2> QED BY <2>6, <2>7 DEF z
<1>4. Q = {}
  <2> SUFFICES ASSUME Q # {} PROVE FALSE
    OBVIOUS
  <2>1. PICK i \in Q : \A m \in Q : i <= m
    <3>1. Q \in SUBSET Nat
      OBVIOUS
    <3> HIDE DEF Q
    <3> QED BY <3>1, LeastNatural
  <2>2. i \in 0 .. n /\ ~Same(i)
    OBVIOUS
  <2> HIDE DEF Same
  <2>3. i \in 1 .. n /\ i - 1 \in 0 .. n /\ ~(i <= i - 1)
    BY <1>2, <2>2
  <2>4. Same(i - 1)
    BY <2>1, <2>3
  <2> QED BY <1>3, <2>2, <2>3, <2>4
<1>5. Same(n)
  <2>1. n \in 0 .. n
    OBVIOUS
  <2> HIDE DEF Same
  <2> QED BY <1>4, <2>1
<1> QED BY <1>1, <1>5, SamePosting

(* What a transaction commits is one posting of the ledger. *)
LEMMA CommitPosts ==
    ASSUME IndInv, NEW c \in Calls, Viewed(c), Commit(c)
    PROVE  Ledger!Post(cmd[c], RefOf(c))
<1> DEFINE lines == cmd[c].lines
           n == Len(lines)
<1>1. /\ pc[c] = "commit" /\ pc[c] \in InTransaction
      /\ balance' = View(c)
      /\ movements' = movements \o out[c]
  BY DEF Commit, InTransaction, View
<1>2. /\ n \in Nat /\ DOMAIN lines = 1 .. n
      /\ \A i \in 1 .. n : lines[i].grain \in Grains
      /\ Len(out[c]) = n /\ DOMAIN out[c] = 1 .. n /\ out[c] \in Seq(Movement)
  <2>1. Len(out[c]) = n
    BY <1>1 DEF Viewed, Inserted
  <2>2. out[c] \in Seq(Movement)
    BY DEF IndInv, TypeOK
  <2> QED BY <1>1, <2>1, <2>2, InsertedLine DEF Viewed
<1>3. PICK b : Walks(b, balance, lines, n) /\ b[n] = View(c)
  BY <1>1, <1>2 DEF Viewed, Sees
<1>4. Ledger!Posted(lines).ok /\ Ledger!Posted(lines).bal = View(c)
  <2> HIDE DEF lines
  <2>1. Ledger!Posted(lines).ok /\ Ledger!Posted(lines).bal = b[n]
    BY <1>2, <1>3, WalkIsPosted
  <2> QED BY <1>3, <2>1
<1>5. lines # << >>
  <2>1. CASE cmd[c] \in Commands
    BY <2>1, CommandsAssumption
  <2>2. CASE cmd[c] \notin Commands
    <3>1. PICK i \in DOMAIN movements, key \in ReversalKeys \cup {NoKey} :
             cmd[c] = ReversalOf(movements[i], key)
      BY <1>1, <2>2 DEF Viewed, Asked
    <3>2. movements[i] \in Movement /\ key \in Keys \cup {NoKey}
      BY CommandsAssumption DEF IndInv, TypeOK
    <3> QED BY <3>1, <3>2, ReversalOfType
  <2> QED BY <2>1, <2>2
<1>6. KeyedBy(movements, cmd[c].key) = {}
  <2>1. n # 0 /\ 1 \in 1 .. n
    <3>1. lines \in Seq(Line)
      BY <1>1, CurrentLineType DEF Command
    <3>2. n # 0
      BY <1>5, <3>1
    <3> QED BY <1>2, <3>2
  <2>2. out[c][1] = MovementFor(cmd[c], 1, sequence + 1, RefOf(c))
    BY <1>2, <2>1 DEF Viewed, Inserted
  <2>3. out[c][1].key = cmd[c].key
    BY <2>2 DEF MovementFor
  <2> QED BY <1>2, <2>1, <2>3 DEF IndInv, InsertedInv
<1>7. out[c] = [i \in DOMAIN lines |-> Ledger!MovementFor(cmd[c], i, Len(movements) + i, RefOf(c))]
  <2>1. sequence = Len(movements)
    BY DEF IndInv, NumbersDense
  <2>2. \A k \in 1 .. n : out[c][k] = Ledger!MovementFor(cmd[c], k, Len(movements) + k, RefOf(c))
    BY <1>2, <2>1, SameData DEF Viewed, Inserted
  <2>3. out[c] = [k \in 1 .. n |-> out[c][k]]
    BY <1>2
  <2> QED BY <1>2, <2>2, <2>3
<1>8. Ledger!KeyedBy(movements, cmd[c].key) = {}
  BY <1>6, SameData
<1> QED BY <1>1, <1>4, <1>7, <1>8 DEF Ledger!Post

(* .. of a command that callers may ask for, under the document that it      *)
(* names or its own, or of the reversal of a movement.                       *)
LEMMA CommitIsLedgerStep ==
    ASSUME IndInv, NEW c \in Calls, Viewed(c), Commit(c)
    PROVE  Ledger!LedgerNext
<1>1. Ledger!Post(cmd[c], RefOf(c))
  BY CommitPosts
<1>2. pc[c] # "idle"
  BY DEF Commit
<1>3. CASE cmd[c] \in Commands
  <2>1. RefOf(c) \in Refs
    <3>1. cmd[c].reversalOf = 0 /\ cmd[c].ref \in Refs \cup {NoRef}
      BY <1>3, CommandsAssumption DEF Command
    <3> QED BY <3>1, CommandsAssumption DEF RefOf
  <2> QED BY <1>1, <1>3, <2>1 DEF Ledger!LedgerNext
<1>4. CASE cmd[c] \notin Commands
  <2>1. PICK i \in DOMAIN movements, key \in ReversalKeys \cup {NoKey} :
           movements[i].reversalOf = 0 /\ cmd[c] = ReversalOf(movements[i], key)
    BY <1>2, <1>4 DEF Viewed, Asked
  <2>2. cmd[c].reversalOf = i /\ i # 0
    <3>1. movements[i].no = i /\ i \in DOMAIN movements /\ movements \in Seq(Movement)
      BY DEF IndInv, TypeOK, NumbersDense
    <3>2. i # 0
      BY <3>1
    <3> QED BY <2>1, <3>1, <3>2 DEF ReversalOf
  <2>3. RefOf(c) = NoRef
    BY <2>2 DEF RefOf
  <2>4. key \in Keys \cup {NoKey}
    BY CommandsAssumption
  <2>5. cmd[c] = Ledger!ReversalOf(movements[i], key)
    BY <2>1, SameData
  <2> QED BY <1>1, <2>1, <2>3, <2>4, <2>5 DEF Ledger!LedgerNext
<1> QED BY <1>3, <1>4

(* Nothing but a commit shows. *)
LEMMA OthersStutter ==
    ASSUME [Next]_vars, \A c \in Calls : ~Commit(c)
    PROVE  UNCHANGED << balance, movements >>
BY DEF Next, Work, Submit, Reverse, LockRow, Refuse, Insert, LoseKey, ReadWinner, DeadlockVictim,
       Fail, Finished, Rollback, EndTransaction, dbVars, vars

(* Transactions implement the ledger: whatever they interleave, lock, lose   *)
(* and roll back, what is committed is one posting after the other, each     *)
(* whole, in the order of the movements' numbers.                            *)
THEOREM TransactionsImplementLedger == Spec => ImplementsLedger
<1>1. Init => Ledger!LedgerInit /\ \A c \in Calls : Viewed(c)
  <2> SUFFICES ASSUME Init PROVE Ledger!LedgerInit /\ \A c \in Calls : Viewed(c)
    OBVIOUS
  <2>1. Ledger!LedgerInit
    BY SameData DEF Init, Ledger!LedgerInit
  <2>2. \A c \in Calls : Viewed(c)
    BY NullsAssumption DEF Init, Viewed, Asked, Locks, Inserted, Sees, InTransaction
  <2> QED BY <2>1, <2>2
<1>2. IndInv /\ IndInv' /\ (\A c \in Calls : Viewed(c)) /\ [Next]_vars => (\A c \in Calls : Viewed(c))'
  BY NextViewed
<1>3. IndInv /\ (\A c \in Calls : Viewed(c)) /\ [Next]_vars => [Ledger!LedgerNext]_(Ledger!ledgerVars)
  <2> SUFFICES ASSUME IndInv, \A c \in Calls : Viewed(c), [Next]_vars
               PROVE  [Ledger!LedgerNext]_(Ledger!ledgerVars)
    OBVIOUS
  <2>1. CASE \E c \in Calls : Commit(c)
    BY <2>1, CommitIsLedgerStep
  <2>2. CASE \A c \in Calls : ~Commit(c)
    BY <2>2, OthersStutter DEF Ledger!ledgerVars
  <2> QED BY <2>1, <2>2
<1> QED BY <1>1, <1>2, <1>3, IndInvariant, PTL DEF Spec, ImplementsLedger, Ledger!LedgerSpec

-----------------------------------------------------------------------------
(* The balance and the journal *)

(* What the movements of a journal do to bucket b of row g. *)
Moves(journal, g, b) ==
    [i \in DOMAIN journal |-> IF journal[i].grain = g THEN journal[i].delta[b] ELSE 0]

(* What a journal adds up to for a bucket is a sum over all of it. *)
LEMMA SumOfMoves ==
    ASSUME NEW journal \in Seq(Movement), NEW g, NEW b \in Buckets
    PROVE  /\ SumFunctionOnSet([i \in DOMAIN journal |-> journal[i].delta[b]],
                               { i \in DOMAIN journal : journal[i].grain = g })
              = SumOver(Moves(journal, g, b), 1 .. Len(journal))
           /\ \A i \in 1 .. Len(journal) : Moves(journal, g, b)[i] \in Int
<1> DEFINE f == [i \in DOMAIN journal |-> journal[i].delta[b]]
           h == Moves(journal, g, b)
           S == 1 .. Len(journal)
           T == { i \in DOMAIN journal : journal[i].grain = g }
<1>1. DOMAIN journal = S /\ Len(journal) \in Nat
  OBVIOUS
<1>2. IsFiniteSet(S) /\ T \in SUBSET S
  <2>1. IsFiniteSet(S)
    BY <1>1, FS_Interval
  <2> QED BY <1>1, <2>1
<1>3. \A i \in S : f[i] \in Int
  <2>1. \A i \in S : journal[i] \in Movement
    BY <1>1
  <2>2. \A m \in Movement : m.delta[b] \in Int
    BY DEF Movement, Row
  <2> QED BY <1>1, <2>1, <2>2
<1>4. /\ \A i \in T : h[i] = f[i]
      /\ \A i \in S \ T : h[i] = 0
  BY <1>1 DEF Moves
<1> HIDE DEF f, h, T, S
<1>5. \A i \in S : h[i] \in Int
  <2>1. \A i \in S : i \in T \/ i \in S \ T
    OBVIOUS
  <2> QED BY <1>3, <1>4, <2>1
<1>6. SumOver(h, S) = SumOver(f, T)
  BY <1>2, <1>3, <1>4, SumPart
<1> QED BY <1>5, <1>6, SumFunctionIsSum DEF f, h, S, T

(* .. that further movements add to. *)
LEMMA SumOfMovesConcat ==
    ASSUME NEW journal \in Seq(Movement), NEW more \in Seq(Movement), NEW g, NEW b \in Buckets
    PROVE  SumOver(Moves(journal \o more, g, b), 1 .. Len(journal \o more))
           = SumOver(Moves(journal, g, b), 1 .. Len(journal))
             + SumOver(Moves(more, g, b), 1 .. Len(more))
<1> DEFINE all == journal \o more
           n == Len(journal)
           m == Len(more)
           f == Moves(all, g, b)
           p == Moves(journal, g, b)
           q == Moves(more, g, b)
<1>1. /\ n \in Nat /\ m \in Nat /\ all \in Seq(Movement) /\ Len(all) = n + m
      /\ DOMAIN journal = 1 .. n /\ DOMAIN more = 1 .. m /\ DOMAIN all = 1 .. n + m
  OBVIOUS
<1>2. \A i \in 1 .. n : i \in DOMAIN all /\ all[i] = journal[i]
  BY <1>1
<1>3. \A i \in 1 .. m : n + i \in DOMAIN all /\ all[n + i] = more[i]
  BY <1>1
<1>4. Holds(f, 0, p, n)
  <2>1. ASSUME NEW i \in 1 .. n PROVE p[i] \in Int /\ f[0 + i] = p[i]
    <3>1. p[i] \in Int
      BY <1>1, SumOfMoves
    <3>2. f[i] = p[i]
      BY <1>1, <1>2 DEF Moves
    <3>3. 0 + i = i
      OBVIOUS
    <3> QED BY <3>1, <3>2, <3>3
  <2> QED BY <2>1 DEF Holds
<1>5. Holds(f, n, q, m)
  <2>1. ASSUME NEW i \in 1 .. m PROVE q[i] \in Int /\ f[n + i] = q[i]
    <3>1. q[i] \in Int
      BY <1>1, SumOfMoves
    <3>2. f[n + i] = q[i]
      BY <1>1, <1>3 DEF Moves
    <3> QED BY <3>1, <3>2
  <2> QED BY <2>1 DEF Holds
<1> HIDE DEF f, p, q, n, m, all
<1>6. SumOver(f, 1 .. n + m) = SumOver(p, 1 .. n) + SumOver(q, 1 .. m)
  BY <1>1, <1>4, <1>5, SumConcat
<1> QED BY <1>1, <1>6 DEF f, p, q, n, m, all

(* The ledger's sums are sums. *)
LEMMA SameSums ==
    ASSUME NEW f, NEW S
    PROVE  LedgerFacts!SumOver(f, S) = SumOver(f, S)
BY DEF LedgerFacts!SumOver, SumOver, LedgerFacts!MapThenSumSet, MapThenSumSet,
       LedgerFacts!MapThenFoldSet, MapThenFoldSet

(* A commit moves each bucket by what the movements that it inserts say. *)
LEMMA CommitMoves ==
    ASSUME IndInv, NEW c \in Calls, Viewed(c), Commit(c), NEW g \in Grains, NEW b \in Buckets
    PROVE  balance'[g][b] = balance[g][b] + SumOver(Moves(out[c], g, b), 1 .. Len(out[c]))
<1> DEFINE lines == cmd[c].lines
           n == Len(lines)
           e == LedgerFacts!EffectOn(lines, g, b)
           h == Moves(out[c], g, b)
<1>1. Ledger!Posted(lines).ok /\ balance' = Ledger!Posted(lines).bal
  BY CommitPosts DEF Ledger!Post
<1>2. pc[c] = "commit" /\ pc[c] \in InTransaction
  BY DEF Commit, InTransaction
<1>3. /\ n \in Nat /\ DOMAIN lines = 1 .. n
      /\ \A i \in 1 .. n : lines[i].grain \in Grains /\ LineDeltas(lines[i]) \in Row
      /\ Len(out[c]) = n /\ DOMAIN out[c] = 1 .. n
  <2>1. Len(out[c]) = n
    BY <1>2 DEF Viewed, Inserted
  <2> QED BY <1>2, <2>1, InsertedLine DEF Viewed
<1>4. \A k \in 1 .. n : LedgerFacts!PostableLine(lines[k])
  BY <1>3, SameData DEF LedgerFacts!PostableLine
<1>5. balance \in LedgerFacts!Balances
  BY SameData DEF LedgerFacts!Balances, IndInv, TypeOK
<1>6. LedgerFacts!Posted(lines).ok
  BY <1>1, SamePosting
<1>7. b \in LedgerFacts!Buckets
  BY SameData
<1>8. LedgerFacts!Posted(lines).bal[g][b] = balance[g][b] + LedgerFacts!SumOver(e, 1 .. n)
  <2> HIDE DEF lines
  <2> QED BY <1>3, <1>4, <1>5, <1>6, <1>7, LedgerFacts!PostedMoves
<1>9. SumOver(e, 1 .. n) = SumOver(h, 1 .. n)
  <2>1. ASSUME NEW k \in 1 .. n PROVE e[k] = h[k]
    <3>1. out[c][k] = MovementFor(cmd[c], k, sequence + k, RefOf(c))
      BY <1>3 DEF Viewed, Inserted
    <3>2. out[c][k].grain = lines[k].grain /\ out[c][k].delta = LineDeltas(lines[k])
      BY <3>1 DEF MovementFor
    <3>3. h[k] = IF lines[k].grain = g THEN LineDeltas(lines[k])[b] ELSE 0
      BY <1>3, <3>2 DEF Moves
    <3>4. e[k] = IF lines[k].grain = g THEN LineDeltas(lines[k])[b] ELSE 0
      BY <1>3, SameData DEF LedgerFacts!EffectOn
    <3> QED BY <3>3, <3>4
  <2>0. n \in Nat
    BY <1>3
  <2> HIDE DEF e, h, n
  <2>2. IsFiniteSet(1 .. n)
    BY <2>0, FS_Interval
  <2> QED BY <2>1, <2>2, SumSame
<1> HIDE DEF e, h
<1>10. balance'[g][b] = balance[g][b] + SumOver(e, 1 .. n)
  BY <1>1, <1>8, SamePosting, SameSums
<1> QED BY <1>3, <1>9, <1>10 DEF h

(* The journal explains the balance: every bucket that the ledger owns is    *)
(* the sum of what the movements did to it, for any calls, rows and commands *)
(* and whatever is under way, rolled back or killed; so reconcile() finds    *)
(* drift only when it reads while a transaction commits.                     *)
THEOREM JournalExplainsBalance == Spec => []Reconciled
<1>1. Init => Reconciled
  <2> SUFFICES ASSUME Init, NEW g \in Grains, NEW b \in LedgerBuckets
               PROVE  balance[g][b] = LedgerSum(g, b)
    BY DEF Reconciled
  <2> DEFINE f == [i \in DOMAIN movements |-> movements[i].delta[b]]
             S == { i \in DOMAIN movements : movements[i].grain = g }
  <2>1. S = {}
    BY DEF Init
  <2>2. LedgerSum(g, b) = 0
    <3>1. LedgerSum(g, b) = SumFunctionOnSet(f, S)
      BY DEF LedgerSum
    <3> HIDE DEF f, S
    <3> QED BY <2>1, <3>1, SumFunctionIsSum, SumEmpty
  <2>3. balance[g][b] = 0
    BY DEF Init, EmptyRow, LedgerBuckets
  <2> QED BY <2>2, <2>3
<1>2. IndInv /\ (\A c \in Calls : Viewed(c)) /\ [Next]_vars /\ Reconciled => Reconciled'
  <2> SUFFICES ASSUME IndInv, \A c \in Calls : Viewed(c), [Next]_vars, Reconciled
               PROVE  Reconciled'
    OBVIOUS
  <2>1. CASE \A c \in Calls : ~Commit(c)
    BY <2>1, OthersStutter DEF Reconciled, LedgerSum
  <2>2. ASSUME NEW c \in Calls, Commit(c) PROVE Reconciled'
    <3> SUFFICES ASSUME NEW g \in Grains, NEW b \in LedgerBuckets
                 PROVE  balance'[g][b] = LedgerSum(g, b)'
      BY DEF Reconciled
    <3> DEFINE j == movements
               o == out[c]
               x == SumOver(Moves(j, g, b), 1 .. Len(j))
               y == SumOver(Moves(o, g, b), 1 .. Len(o))
    <3>1. j \in Seq(Movement) /\ o \in Seq(Movement) /\ j \o o \in Seq(Movement) /\ b \in Buckets
      BY DEF IndInv, TypeOK, LedgerBuckets
    <3>2. movements' = j \o o
      BY <2>2 DEF Commit
    <3>3. balance'[g][b] = balance[g][b] + y
      BY <2>2, <3>1, CommitMoves
    <3>4. balance[g][b] = LedgerSum(g, b)
      BY DEF Reconciled
    <3>5. LedgerSum(g, b) = x
      BY <3>1, SumOfMoves DEF LedgerSum
    <3>6. LedgerSum(g, b)' = SumOver(Moves(j \o o, g, b), 1 .. Len(j \o o))
      <4> DEFINE k == j \o o
      <4>1. LedgerSum(g, b)' = SumFunctionOnSet([i \in DOMAIN k |-> k[i].delta[b]],
                                                { i \in DOMAIN k : k[i].grain = g })
        BY <3>2 DEF LedgerSum
      <4>2. k \in Seq(Movement)
        BY <3>1
      <4> HIDE DEF k
      <4>3. LedgerSum(g, b)' = SumOver(Moves(k, g, b), 1 .. Len(k))
        BY <3>1, <4>1, <4>2, SumOfMoves
      <4> QED BY <4>3 DEF k
    <3>7. SumOver(Moves(j \o o, g, b), 1 .. Len(j \o o)) = x + y
      <4> HIDE DEF j, o
      <4> QED BY <3>1, SumOfMovesConcat DEF x, y
    <3> HIDE DEF x, y
    <3> QED BY <3>3, <3>4, <3>5, <3>6, <3>7
  <2> QED BY <2>1, <2>2
<1>3. Init => \A c \in Calls : Viewed(c)
  BY NullsAssumption DEF Init, Viewed, Asked, Locks, Inserted, Sees, InTransaction
<1>4. IndInv /\ IndInv' /\ (\A c \in Calls : Viewed(c)) /\ [Next]_vars => (\A c \in Calls : Viewed(c))'
  BY NextViewed
<1> QED BY <1>1, <1>2, <1>3, <1>4, IndInvariant, PTL DEF Spec

-----------------------------------------------------------------------------
(* Answers *)

(* What a call is answered with, once it is. *)
Settled == {"posted", "replayed"}

(* A posting is answered with the movements it has inserted: they bear its   *)
(* reference, and no key but its own, which one of them has.                 *)
AnsweredInv ==
    \A d \in Calls : pc[d] = "posted" =>
        /\ answer[d] \subseteq DOMAIN movements
        /\ \A i \in answer[d] : /\ movements[i].ref = RefOf(d)
                                /\ movements[i].key \in {NoKey, cmd[d].key}
        /\ \E i \in answer[d] : movements[i].key = cmd[d].key

(* Every movement is in the answer of one posting. *)
PostersInv ==
    /\ \A i \in DOMAIN movements : \E d \in Calls : pc[d] = "posted" /\ i \in answer[d]
    /\ \A d, e \in Calls : pc[d] = "posted" /\ pc[e] = "posted" /\ d # e =>
                              answer[d] \cap answer[e] = {}

(* A transaction loses to a movement with its key, and a reversal not at all. *)
LostInv ==
    \A c \in Calls : pc[c] = "lost" =>
        KeyedBy(movements, cmd[c].key) # {} /\ cmd[c].reversalOf = 0

(* A key is sent with the postings of one document, and not with reversals.  *)
(* The services' own keys are made from the document's id; that callers who  *)
(* choose keys themselves do not use one for two documents, nothing checks.  *)
KeysNameDocuments ==
    /\ \A x, y \in Commands : x.key # NoKey /\ x.key = y.key => x.ref = y.ref
    /\ \A x \in Commands : x.key \notin ReversalKeys

(* The document of a command is posted under no other key. *)
OneKey(command) ==
    /\ command.ref # NoRef
    /\ \A other \in Commands : other.ref = command.ref => other.key = command.key

(* What has ended stays as it is, *)
LEMMA SettledStays ==
    ASSUME IndInv, [Next]_vars, NEW d \in Calls, pc[d] \in Settled
    PROVE  pc'[d] = pc[d] /\ cmd'[d] = cmd[d] /\ answer'[d] = answer[d]
<1> USE DEF Settled
<1>1. ASSUME NEW c \in Calls, NEW command \in Commands, Submit(c, command)
      PROVE  pc'[d] = pc[d] /\ cmd'[d] = cmd[d] /\ answer'[d] = answer[d]
  BY <1>1 DEF Submit, IndInv, TypeOK
<1>2. ASSUME NEW c \in Calls, NEW i \in DOMAIN movements, NEW key \in ReversalKeys \cup {NoKey},
             Reverse(c, i, key)
      PROVE  pc'[d] = pc[d] /\ cmd'[d] = cmd[d] /\ answer'[d] = answer[d]
  BY <1>2 DEF Reverse, IndInv, TypeOK
<1>3. CASE UNCHANGED vars
  BY <1>3 DEF vars
<1>4. ASSUME NEW c \in Calls, Work(c) \/ Fail(c)
      PROVE  pc'[d] = pc[d] /\ cmd'[d] = cmd[d] /\ answer'[d] = answer[d]
  <2>1. ASSUME NEW outcome, Rollback(c, outcome), pc[c] \in InTransaction
        PROVE  pc'[d] = pc[d] /\ cmd'[d] = cmd[d] /\ answer'[d] = answer[d]
    BY <2>1 DEF Rollback, EndTransaction, InTransaction, IndInv, TypeOK
  <2>2. CASE LockRow(c)
    BY <2>2 DEF LockRow, IndInv, TypeOK
  <2>3. CASE Refuse(c)
    BY <2>1, <2>3 DEF Refuse, InTransaction
  <2>4. CASE Insert(c)
    BY <2>4 DEF Insert, IndInv, TypeOK
  <2>5. CASE LoseKey(c)
    BY <2>1, <2>5 DEF LoseKey, InTransaction
  <2>6. CASE Commit(c)
    <3>1. pc[c] = "commit" /\ cmd' = cmd /\ pc' = [pc EXCEPT ![c] = "posted"]
      BY <2>6 DEF Commit, EndTransaction
    <3>2. d # c /\ answer'[d] = answer[d]
      BY <2>6, <3>1 DEF Commit, IndInv, TypeOK
    <3> QED BY <3>1, <3>2 DEF IndInv, TypeOK
  <2>7. CASE ReadWinner(c)
    BY <2>7 DEF ReadWinner, IndInv, TypeOK
  <2>8. CASE DeadlockVictim(c)
    <3>1. Blocker(c) # NoCall
      BY <2>8, NullsAssumption DEF DeadlockVictim
    <3>2. pc[c] \in InTransaction
      BY <3>1 DEF Blocker, InTransaction
    <3> QED BY <2>1, <2>8, <3>2 DEF DeadlockVictim
  <2>9. CASE Fail(c)
    BY <2>1, <2>9 DEF Fail
  <2> QED BY <1>4, <2>2, <2>3, <2>4, <2>5, <2>6, <2>7, <2>8, <2>9 DEF Work
<1> QED BY <1>1, <1>2, <1>3, <1>4 DEF Next, Finished

(* A call that begins with a command of its caller's. *)
Submits(c) == \E command \in Commands : Submit(c, command)

(* .. and calls end as follows. *)
LEMMA SettlesBy ==
    ASSUME IndInv, [Next]_vars, NEW d \in Calls, pc'[d] # pc[d]
    PROVE  /\ pc'[d] = "posted" => Commit(d)
           /\ pc'[d] = "replayed" => ReadWinner(d) \/ Submits(d)
           /\ pc'[d] = "lost" => LoseKey(d)
<1> DEFINE Goal == /\ pc'[d] = "posted" => Commit(d)
                   /\ pc'[d] = "replayed" => ReadWinner(d) \/ Submits(d)
                   /\ pc'[d] = "lost" => LoseKey(d)
<1>1. ASSUME NEW c \in Calls, NEW command \in Commands, Submit(c, command) PROVE Goal
  <2>1. d = c => Submits(d)
    BY <1>1 DEF Submits
  <2> QED BY <1>1, <2>1 DEF Submit, IndInv, TypeOK
<1>2. ASSUME NEW c \in Calls, NEW i \in DOMAIN movements, NEW key \in ReversalKeys \cup {NoKey},
             Reverse(c, i, key)
      PROVE  Goal
  BY <1>2 DEF Reverse, IndInv, TypeOK
<1>3. CASE UNCHANGED vars
  BY <1>3 DEF vars
<1>4. ASSUME NEW c \in Calls, Work(c) \/ Fail(c) PROVE Goal
  <2>1. ASSUME NEW outcome, Rollback(c, outcome), outcome \in {"refused", "conflict", "failed"}
        PROVE  Goal
    BY <2>1 DEF Rollback, IndInv, TypeOK
  <2>2. CASE LockRow(c)
    BY <2>2 DEF LockRow, IndInv, TypeOK
  <2>3. CASE Refuse(c)
    BY <2>1, <2>3 DEF Refuse
  <2>4. CASE Insert(c)
    BY <2>4 DEF Insert, IndInv, TypeOK
  <2>5. CASE LoseKey(c)
    BY <2>5 DEF LoseKey, Rollback, IndInv, TypeOK
  <2>6. CASE Commit(c)
    <3>1. pc' = [pc EXCEPT ![c] = "posted"]
      BY <2>6 DEF Commit
    <3> QED BY <2>6, <3>1 DEF IndInv, TypeOK
  <2>7. CASE ReadWinner(c)
    BY <2>7 DEF ReadWinner, IndInv, TypeOK
  <2>8. CASE DeadlockVictim(c)
    BY <2>1, <2>8 DEF DeadlockVictim
  <2>9. CASE Fail(c)
    BY <2>1, <2>9 DEF Fail
  <2> QED BY <1>4, <2>2, <2>3, <2>4, <2>5, <2>6, <2>7, <2>8, <2>9 DEF Work
<1> HIDE DEF Goal
<1> QED
  <2>1. CASE \E c \in Calls, command \in Commands : Submit(c, command)
    BY <2>1, <1>1 DEF Goal
  <2>2. CASE \E c \in Calls, i \in DOMAIN movements, key \in ReversalKeys \cup {NoKey} :
                Reverse(c, i, key)
    BY <2>2, <1>2 DEF Goal
  <2>3. CASE \E c \in Calls : Work(c) \/ Fail(c)
    BY <2>3, <1>4 DEF Goal
  <2> QED BY <2>1, <2>2, <2>3, <1>3 DEF Goal, Next, Finished

(* The journal only grows. *)
LEMMA JournalGrows ==
    ASSUME IndInv, [Next]_vars
    PROVE  \A i \in DOMAIN movements : i \in DOMAIN movements' /\ movements'[i] = movements[i]
<1>1. CASE \E c \in Calls : Commit(c)
  BY <1>1, CommittedJournal
<1>2. CASE \A c \in Calls : ~Commit(c)
  BY <1>2, OthersStutter
<1> QED BY <1>1, <1>2

(* What the answers rest on. *)
ReplayInv == AnsweredInv /\ PostersInv /\ LostInv

(* A call keeps its command while it is under way. *)
LEMMA CommandStays ==
    ASSUME IndInv, [Next]_vars, NEW d \in Calls, pc[d] # "idle"
    PROVE  cmd'[d] = cmd[d]
<1>1. ASSUME NEW c \in Calls, NEW command \in Commands, Submit(c, command)
      PROVE  cmd'[d] = cmd[d]
  BY <1>1 DEF Submit, IndInv, TypeOK
<1>2. ASSUME NEW c \in Calls, NEW i \in DOMAIN movements, NEW key \in ReversalKeys \cup {NoKey},
             Reverse(c, i, key)
      PROVE  cmd'[d] = cmd[d]
  BY <1>2 DEF Reverse, IndInv, TypeOK
<1>3. CASE UNCHANGED vars
  BY <1>3 DEF vars
<1>4. ASSUME NEW c \in Calls, Work(c) \/ Fail(c) PROVE cmd' = cmd
  BY <1>4 DEF Work, Fail, LockRow, Refuse, Insert, LoseKey, Commit, ReadWinner, DeadlockVictim,
              Rollback, EndTransaction
<1> QED BY <1>1, <1>2, <1>3, <1>4 DEF Next, Finished

(* The movements that a commit inserts answer its call; the others are as    *)
(* they were.                                                                *)
LEMMA CommitAnswers ==
    ASSUME IndInv, NEW c \in Calls, Viewed(c), Commit(c)
    PROVE  /\ \A i \in answer'[c] : /\ i \in DOMAIN movements' /\ i \notin DOMAIN movements
                                    /\ movements'[i].ref = RefOf(c)
                                    /\ movements'[i].key \in {NoKey, cmd[c].key}
           /\ \E i \in answer'[c] : movements'[i].key = cmd[c].key
           /\ \A i \in DOMAIN movements' : i \in DOMAIN movements \/ i \in answer'[c]
           /\ \A d \in Calls \ {c} : answer'[d] = answer[d]
<1> DEFINE m == Len(movements)
           n == Len(out[c])
<1>1. /\ answer'[c] = m + 1 .. m + n
      /\ \A d \in Calls \ {c} : answer'[d] = answer[d]
  BY DEF Commit, IndInv, TypeOK
<1>2. m \in Nat /\ n \in Nat /\ DOMAIN movements = 1 .. m /\ DOMAIN out[c] = 1 .. n
  BY DEF IndInv, TypeOK
<1>3. \A i \in answer'[c] : i - m \in 1 .. n /\ i = m + (i - m)
  BY <1>1, <1>2
<1>4. \A k \in 1 .. n : /\ m + k \in DOMAIN movements' /\ movements'[m + k] = out[c][k]
                        /\ m + k \in answer'[c] /\ m + k \notin 1 .. m
  BY <1>1, <1>2, CommittedJournal
<1>5. ASSUME NEW k \in 1 .. n
      PROVE  /\ out[c][k].ref = RefOf(c)
             /\ out[c][k].key = IF k = 1 THEN cmd[c].key ELSE NoKey
  <2>1. out[c][k] = MovementFor(cmd[c], k, sequence + k, RefOf(c))
    BY <1>2 DEF Viewed, Inserted
  <2> QED BY <2>1 DEF MovementFor
<1>6. ASSUME NEW i \in answer'[c]
      PROVE  /\ i \in DOMAIN movements' /\ i \notin DOMAIN movements
             /\ movements'[i].ref = RefOf(c)
             /\ movements'[i].key \in {NoKey, cmd[c].key}
  <2>1. PICK k \in 1 .. n : i = m + k
    BY <1>3
  <2>2. /\ i \in DOMAIN movements' /\ i \notin 1 .. m
        /\ movements'[i] = out[c][k]
    BY <1>4, <2>1
  <2>3. i \notin DOMAIN movements
    BY <1>2, <2>2
  <2>4. out[c][k].ref = RefOf(c) /\ out[c][k].key \in {NoKey, cmd[c].key}
    BY <1>5
  <2> HIDE DEF n, m
  <2> QED BY <2>2, <2>3, <2>4
<1>7. n >= 1
  <2>1. pc[c] = "commit" /\ Len(out[c]) = Len(cmd[c].lines)
    BY DEF Commit, Viewed, Inserted
  <2>2. cmd[c].lines # << >> /\ cmd[c].lines \in Seq(Line)
    <3>1. cmd[c] \in Command
      BY <2>1 DEF IndInv, TransactionInv
    <3>2. cmd[c].lines \in Seq(Line)
      BY <3>1 DEF Command
    <3>3. ASSUME cmd[c] \in Commands PROVE cmd[c].lines # << >>
      BY <3>3, CommandsAssumption
    <3>4. ASSUME NEW i, NEW key, cmd[c] = ReversalOf(movements[i], key)
          PROVE  cmd[c].lines # << >>
      <4>1. PICK l : cmd[c].lines = << l >>
        BY <3>4 DEF ReversalOf
      <4> QED BY <4>1
    <3>5. cmd[c].lines # << >>
      BY <2>1, <3>3, <3>4 DEF Viewed, Asked
    <3> QED BY <3>2, <3>5
  <2> QED BY <2>1, <2>2
<1>8. \E i \in answer'[c] : movements'[i].key = cmd[c].key
  <2>1. 1 \in 1 .. n
    BY <1>2, <1>7
  <2> QED BY <1>4, <1>5, <2>1
<1>9. \A i \in DOMAIN movements' : i \in DOMAIN movements \/ i \in answer'[c]
  <2> SUFFICES ASSUME NEW i \in DOMAIN movements', i \notin DOMAIN movements
               PROVE  i \in answer'[c]
    OBVIOUS
  <2>1. movements' \in Seq(Movement) /\ i \in Int
    BY CommittedJournal
  <2>2. i - m \in 1 .. n
    BY <1>2, CommittedJournal
  <2> QED BY <1>1, <1>2, <2>1, <2>2
<1> QED BY <1>1, <1>6, <1>8, <1>9

(* The reference of a call stays with its command. *)
LEMMA SameRef ==
    ASSUME NEW d \in Calls, cmd'[d] = cmd[d]
    PROVE  RefOf(d)' = RefOf(d)
BY DEF RefOf

(* A step keeps what the answers rest on: only a commit adds to it. *)
LEMMA ReplayInvStep ==
    ASSUME IndInv, \A c \in Calls : Viewed(c), ReplayInv, [Next]_vars
    PROVE  ReplayInv'
<1>1. \A d \in Calls : pc[d] = "posted" =>
          /\ pc'[d] = "posted" /\ cmd'[d] = cmd[d] /\ answer'[d] = answer[d]
          /\ RefOf(d)' = RefOf(d)
  BY SettledStays, SameRef DEF Settled
<1>2. \A d \in Calls : pc'[d] = "posted" => pc[d] = "posted" \/ Commit(d)
  BY SettlesBy
<1>3. \A i \in DOMAIN movements : i \in DOMAIN movements' /\ movements'[i] = movements[i]
  BY JournalGrows
<1>4. ASSUME NEW d \in Calls, Commit(d)
      PROVE  cmd'[d] = cmd[d] /\ RefOf(d)' = RefOf(d) /\ pc[d] # "posted" /\ pc'[d] = "posted"
  <2>1. cmd'[d] = cmd[d] /\ pc[d] # "posted" /\ pc'[d] = "posted"
    BY <1>4 DEF Commit, EndTransaction, IndInv, TypeOK
  <2> QED BY <2>1, SameRef
<1>5. AnsweredInv'
  <2> SUFFICES ASSUME NEW d \in Calls, pc'[d] = "posted"
               PROVE  /\ answer'[d] \subseteq DOMAIN movements'
                      /\ \A i \in answer'[d] : /\ movements'[i].ref = RefOf(d)'
                                               /\ movements'[i].key \in {NoKey, cmd'[d].key}
                      /\ \E i \in answer'[d] : movements'[i].key = cmd'[d].key
    BY DEF AnsweredInv
  <2>1. CASE pc[d] = "posted"
    BY <2>1, <1>1, <1>3 DEF ReplayInv, AnsweredInv
  <2>2. CASE Commit(d)
    BY <2>2, <1>4, CommitAnswers
  <2> QED BY <1>2, <2>1, <2>2
<1>6. PostersInv'
  <2>1. ASSUME NEW i \in DOMAIN movements'
        PROVE  \E d \in Calls : pc'[d] = "posted" /\ i \in answer'[d]
    <3>1. CASE i \in DOMAIN movements
      BY <3>1, <1>1 DEF ReplayInv, PostersInv
    <3>2. CASE i \notin DOMAIN movements
      <4>1. PICK c \in Calls : Commit(c)
        BY <3>2, OthersStutter
      <4> QED BY <3>2, <4>1, <1>4, CommitAnswers
    <3> QED BY <3>1, <3>2
  <2>2. ASSUME NEW d \in Calls, NEW e \in Calls, pc'[d] = "posted", pc'[e] = "posted", d # e
        PROVE  answer'[d] \cap answer'[e] = {}
    <3>1. ASSUME NEW x \in Calls, NEW y \in Calls, pc[x] = "posted", Commit(y)
          PROVE  answer'[x] \cap answer'[y] = {}
      BY <3>1, <1>1, CommitAnswers DEF ReplayInv, AnsweredInv
    <3>2. ~(Commit(d) /\ Commit(e))
      <4> SUFFICES ASSUME Commit(d), Commit(e) PROVE FALSE
        OBVIOUS
      <4>1. pc' = [pc EXCEPT ![d] = "posted"] /\ pc[e] = "commit"
        BY DEF Commit
      <4> QED BY <2>2, <4>1 DEF IndInv, TypeOK
    <3>3. CASE pc[d] = "posted" /\ pc[e] = "posted"
      BY <2>2, <3>3, <1>1 DEF ReplayInv, PostersInv
    <3> QED BY <1>2, <2>2, <3>1, <3>2, <3>3
  <2> QED BY <2>1, <2>2 DEF PostersInv
<1>7. LostInv'
  <2> SUFFICES ASSUME NEW c \in Calls, pc'[c] = "lost"
               PROVE  KeyedBy(movements', cmd'[c].key) # {} /\ cmd'[c].reversalOf = 0
    BY DEF LostInv
  <2>1. KeyedBy(movements, cmd[c].key) # {} /\ cmd[c].reversalOf = 0 /\ pc[c] # "idle"
    <3>1. CASE pc[c] = "lost"
      BY <3>1 DEF ReplayInv, LostInv
    <3>2. CASE LoseKey(c)
      BY <3>2 DEF LoseKey, KeyFree, Rollback, IndInv, TypeOK
    <3> QED BY <3>1, <3>2, SettlesBy
  <2>2. cmd'[c] = cmd[c]
    BY <2>1, CommandStays
  <2> QED BY <2>1, <2>2, <1>3 DEF KeyedBy
<1> QED BY <1>5, <1>6, <1>7 DEF ReplayInv

(* A document that is posted under one key, one that names no other          *)
(* document, is posted once: the movements that bear its reference are those *)
(* that the posting was answered with.                                       *)
LEMMA FirstAnswer ==
    ASSUME IndInv, ReplayInv, \A c \in Calls : Viewed(c), KeysNameDocuments,
           NEW command \in Commands, OneKey(command), KeyedBy(movements, command.key) # {}
    PROVE  /\ \E d \in Calls : /\ pc[d] = "posted" /\ cmd[d].key = command.key
                               /\ answer[d] = Group(command.ref)
           /\ \A i \in KeyedBy(movements, command.key) : movements[i].ref = command.ref
<1>1. ASSUME NEW d \in Calls, pc[d] = "posted"
      PROVE  \/ cmd[d] \in Commands /\ RefOf(d) = IF cmd[d].ref = NoRef THEN d ELSE cmd[d].ref
             \/ cmd[d].key \in ReversalKeys \cup {NoKey} /\ RefOf(d) = NoRef
  <2>1. CASE cmd[d] \in Commands
    BY <2>1, CommandsAssumption DEF RefOf
  <2>2. CASE \E i \in DOMAIN movements, key \in ReversalKeys \cup {NoKey} :
                movements[i].reversalOf = 0 /\ cmd[d] = ReversalOf(movements[i], key)
    <3>1. PICK i \in DOMAIN movements, key \in ReversalKeys \cup {NoKey} :
                cmd[d] = ReversalOf(movements[i], key)
      BY <2>2
    <3>2. cmd[d].key = key /\ cmd[d].reversalOf = movements[i].no
      BY <3>1 DEF ReversalOf
    <3>3. movements[i].no # 0
      BY DEF IndInv, NumbersDense, TypeOK
    <3> QED BY <3>2, <3>3 DEF RefOf
  <2> QED BY <1>1, <2>1, <2>2 DEF Viewed, Asked
<1>2. /\ command.key # NoKey /\ command.ref # NoRef /\ command.ref \notin Calls
      /\ command.key \notin ReversalKeys
  BY CommandsAssumption DEF KeyedBy, OneKey, KeysNameDocuments
<1>3. ASSUME NEW i \in KeyedBy(movements, command.key), NEW d \in Calls, pc[d] = "posted", i \in answer[d]
      PROVE  cmd[d].key = command.key /\ RefOf(d) = command.ref
  <2>1. movements[i].key = command.key
    BY DEF KeyedBy
  <2>2. cmd[d].key = command.key
    BY <1>2, <1>3, <2>1 DEF ReplayInv, AnsweredInv
  <2>3. cmd[d] \in Commands
    BY <1>1, <1>2, <1>3, <2>2
  <2>4. cmd[d].ref = command.ref
    BY <1>2, <2>2, <2>3 DEF KeysNameDocuments
  <2>5. cmd[d].reversalOf = 0
    BY <2>3, CommandsAssumption
  <2> QED BY <1>2, <2>2, <2>4, <2>5 DEF RefOf
<1>4. ASSUME NEW e \in Calls, pc[e] = "posted", RefOf(e) = command.ref
      PROVE  cmd[e].key = command.key
  <2>1. cmd[e] \in Commands /\ cmd[e].ref = command.ref
    BY <1>1, <1>2, <1>4
  <2> QED BY <2>1 DEF OneKey
<1>5. PICK i \in KeyedBy(movements, command.key) : TRUE
  OBVIOUS
<1>6. i \in DOMAIN movements /\ movements[i].key = command.key
  BY DEF KeyedBy
<1>7. PICK d \in Calls : pc[d] = "posted" /\ i \in answer[d]
  BY <1>6 DEF ReplayInv, PostersInv
<1>8. cmd[d].key = command.key /\ RefOf(d) = command.ref
  BY <1>3, <1>7
<1>9. answer[d] = Group(command.ref)
  <2>1. ASSUME NEW j \in answer[d] PROVE j \in Group(command.ref)
    BY <1>2, <1>7, <1>8 DEF Group, ReplayInv, AnsweredInv
  <2>2. ASSUME NEW j \in Group(command.ref) PROVE j \in answer[d]
    <3>1. j \in DOMAIN movements /\ movements[j].ref = command.ref
      BY DEF Group
    <3>2. PICK e \in Calls : pc[e] = "posted" /\ j \in answer[e]
      BY <3>1 DEF ReplayInv, PostersInv
    <3>3. RefOf(e) = command.ref
      BY <3>1, <3>2 DEF ReplayInv, AnsweredInv
    <3>4. PICK k \in answer[e] : movements[k].key = cmd[e].key
      BY <3>2 DEF ReplayInv, AnsweredInv
    <3>5. k \in DOMAIN movements /\ movements[k].key = command.key
      BY <1>4, <3>2, <3>3, <3>4 DEF ReplayInv, AnsweredInv
    <3>6. k = i
      BY <1>2, <1>6, <3>5 DEF IndInv, OncePerKey
    <3> QED BY <1>7, <3>2, <3>4, <3>6 DEF ReplayInv, PostersInv
  <2> QED BY <2>1, <2>2
<1>10. \A j \in KeyedBy(movements, command.key) : movements[j].ref = command.ref
  <2> SUFFICES ASSUME NEW j \in KeyedBy(movements, command.key)
               PROVE  movements[j].ref = command.ref
    OBVIOUS
  <2>1. PICK e \in Calls : pc[e] = "posted" /\ j \in answer[e]
    BY DEF ReplayInv, PostersInv, KeyedBy
  <2>2. RefOf(e) = command.ref
    BY <1>3, <2>1
  <2> QED BY <2>1, <2>2 DEF ReplayInv, AnsweredInv
<1> QED BY <1>7, <1>8, <1>9, <1>10

(* A replay of a document that is posted under one key has the answer of its *)
(* posting.                                                                  *)
ReplayedInv ==
    \A c \in Calls :
        pc[c] = "replayed" /\ cmd[c] # NoCommand /\ cmd[c].ref # NoRef /\ OneKey(cmd[c]) =>
            \E d \in Calls : /\ pc[d] = "posted" /\ cmd[d].key = cmd[c].key
                             /\ answer[d] = answer[c]

(* A call that does not reverse has one of its callers' commands. *)
LEMMA OwnCommand ==
    ASSUME IndInv, NEW c \in Calls, Viewed(c), pc[c] # "idle", cmd[c].reversalOf = 0
    PROVE  cmd[c] \in Commands
<1>1. ASSUME NEW i \in DOMAIN movements, NEW key, cmd[c] = ReversalOf(movements[i], key)
      PROVE  FALSE
  <2>1. cmd[c].reversalOf = movements[i].no
    BY <1>1 DEF ReversalOf
  <2>2. movements[i].no # 0
    BY DEF IndInv, NumbersDense, TypeOK
  <2> QED BY <2>1, <2>2
<1> QED BY <1>1 DEF Viewed, Asked

(* .. whether it is answered at once, from the movements of the document     *)
(* that its key posted, or after losing to them, from those of its own.      *)
LEMMA ReplayedInvStep ==
    ASSUME KeysNameDocuments, IndInv, \A c \in Calls : Viewed(c), ReplayInv, ReplayedInv,
           [Next]_vars
    PROVE  ReplayedInv'
<1> SUFFICES ASSUME NEW c \in Calls, pc'[c] = "replayed", cmd'[c].ref # NoRef, OneKey(cmd'[c]),
                    cmd'[c] # NoCommand
             PROVE  \E d \in Calls : /\ pc'[d] = "posted" /\ cmd'[d].key = cmd'[c].key
                                     /\ answer'[d] = answer'[c]
  BY DEF ReplayedInv
<1>1. \A d \in Calls : pc[d] = "posted" =>
          pc'[d] = "posted" /\ cmd'[d] = cmd[d] /\ answer'[d] = answer[d]
  BY SettledStays DEF Settled
<1>2. CASE pc[c] = "replayed"
  <2>1. cmd'[c] = cmd[c] /\ answer'[c] = answer[c]
    BY <1>2, SettledStays DEF Settled
  <2> QED BY <1>1, <1>2, <2>1 DEF ReplayedInv
<1>3. ASSUME NEW command \in Commands, Submit(c, command)
      PROVE  \E d \in Calls : /\ pc'[d] = "posted" /\ cmd'[d].key = cmd'[c].key
                              /\ answer'[d] = answer'[c]
  <2> DEFINE prior == KeyedBy(movements, command.key)
  <2>1. cmd'[c] = command
    BY <1>3 DEF Submit, IndInv, TypeOK
  <2>2. /\ prior # {}
        /\ answer'[c] = UNION { Group(movements[i].ref) : i \in prior }
    BY <1>3 DEF Submit, IndInv, TypeOK
  <2>3. \A i \in prior : movements[i].ref = command.ref
    BY <2>1, <2>2, FirstAnswer
  <2>4. answer'[c] = Group(command.ref)
    <3> HIDE DEF prior
    <3> QED BY <2>2, <2>3
  <2>5. PICK d \in Calls : /\ pc[d] = "posted" /\ cmd[d].key = command.key
                           /\ answer[d] = Group(command.ref)
    BY <2>1, <2>2, FirstAnswer
  <2> QED BY <1>1, <2>1, <2>4, <2>5
<1>4. CASE ReadWinner(c)
  <2>1. /\ pc[c] = "lost" /\ cmd' = cmd /\ answer'[c] = Group(RefOf(c))
    BY <1>4 DEF ReadWinner, IndInv, TypeOK
  <2>2. KeyedBy(movements, cmd[c].key) # {} /\ cmd[c].reversalOf = 0
    BY <2>1 DEF ReplayInv, LostInv
  <2>3. cmd[c] \in Commands
    BY <2>1, <2>2, OwnCommand
  <2>4. RefOf(c) = cmd[c].ref
    BY <2>1, <2>2 DEF RefOf
  <2>5. PICK d \in Calls : /\ pc[d] = "posted" /\ cmd[d].key = cmd[c].key
                           /\ answer[d] = Group(cmd[c].ref)
    BY <2>1, <2>2, <2>3, FirstAnswer
  <2> QED BY <1>1, <2>1, <2>4, <2>5
<1>5. pc[c] = "replayed" \/ ReadWinner(c) \/ Submits(c)
  BY SettlesBy
<1> QED BY <1>2, <1>3, <1>4, <1>5 DEF Submits

(* A duplicate of a posting, sent again later or at the same time, is        *)
(* answered with what the first was answered with - all of its movements and *)
(* no others - when its document is posted under no other key and its key    *)
(* names no other document.                                                  *)
THEOREM ReplaysAnswerAsFirst ==
    ASSUME KeysNameDocuments
    PROVE  Spec => []ReplayAnswersAsFirst
<1>1. Init => ReplayInv /\ ReplayedInv
  BY DEF Init, ReplayInv, AnsweredInv, PostersInv, LostInv, ReplayedInv
<1>2. IndInv /\ (\A c \in Calls : Viewed(c)) /\ ReplayInv /\ ReplayedInv /\ [Next]_vars =>
          ReplayInv' /\ ReplayedInv'
  BY ReplayInvStep, ReplayedInvStep
<1>3. ReplayedInv => ReplayAnswersAsFirst
  BY DEF ReplayedInv, ReplayAnswersAsFirst, AnswersAsFirst, OneKey
<1>4. Init => \A c \in Calls : Viewed(c)
  BY NullsAssumption DEF Init, Viewed, Asked, Locks, Inserted, Sees, InTransaction
<1>5. IndInv /\ IndInv' /\ (\A c \in Calls : Viewed(c)) /\ [Next]_vars => (\A c \in Calls : Viewed(c))'
  BY NextViewed
<1> QED BY <1>1, <1>2, <1>3, <1>4, <1>5, IndInvariant, PTL DEF Spec
=============================================================================
