------------------------------- MODULE Warehouse -------------------------------
(***************************************************************************)
(* Transfers, receipts, adjustments, returns, counts and their tasks over  *)
(* one ledger and one registry of units, handled side by side by requests  *)
(* that race, fail half-way and come back.                                 *)
(***************************************************************************)
EXTENDS Transfers, Receiving, CycleCounts, Returns

CONSTANTS
    Opening,      \* on-hand stock of each row to begin with
    UnitsAt,      \* the units to begin with
    Starts,       \* the statuses the documents begin with: a set of functions
    Disposals     \* what dispositions may ask for: [line, outcome, qty, units]

(* There is a status for each document, and none that says that stock has     *)
(* moved, been counted, or a task been completed.                             *)
ASSUME StartsAssumption ==
    \A s \in Starts :
        /\ DOMAIN s = Docs
        /\ \A a \in Adjustments : s[a] # "POSTED"
        /\ \A c \in Counts : s[c] \in {"NONE", "COUNTING", "CANCELLED"}
        /\ \A k \in Tasks : s[k] # "COMPLETED"
        /\ \A r \in Returns : s[r] \in {"NONE", "DRAFT", "CANCELLED"}

ASSUME StockAssumption ==
    /\ Opening \in [Grains -> Int]
    /\ \A a \in Disposals : a.qty \in Nat /\ a.outcome \in DOMAIN Outcomes

docVars == << transferVars, receiptVars, adjustmentVars, returnVars, countVars, taskVars >>
vars == << baseVars, docVars >>

WarehouseInit ==
    /\ balance = [g \in Grains |-> [EmptyRow EXCEPT !["onHand"] = Opening[g]]]
    /\ movements = << >>
    /\ units = UnitsAt
    /\ status \in Starts
    /\ content = [d \in Docs |-> 1]
    /\ outdated = {}
    /\ pc = [w \in Workers |-> "idle"]
    /\ job = [w \in Workers |-> Idle]
    /\ failures = 0
    /\ TransferInit
    /\ postedAt = {}
    /\ needsSecond = {}
    /\ firstApprover = [a \in Adjustments |-> NoDoc]
    /\ approvedBy = [a \in Adjustments |-> {}]
    /\ receivedAt = {}
    /\ receivedQty = [r \in Returns |-> NoneOf(Lines(r))]
    /\ disposedQty = [r \in Returns |-> NoneOf(Lines(r))]
    /\ expected = [c \in Counts |-> OnTheBooks(c)]
    /\ counted = [c \in Counts |-> << >>]
    /\ linked = {}
    /\ completions = {}

(* A user asks for something. *)
Ask(w) ==
    \/ \E d \in Transfers :
          /\ CreateTransfer(w, d) \/ \E op \in DOMAIN TransferFrom : LoadTransfer(w, op, d)
          /\ UNCHANGED << receiptVars, adjustmentVars, returnVars, countVars, taskVars >>
    \/ \E d \in Receipts :
          /\ CreateReceipt(w, d) \/ \E op \in {"edit", "cancel", "post"} : LoadReceipt(w, op, d)
          /\ UNCHANGED << transferVars, adjustmentVars, returnVars, countVars, taskVars >>
    \/ \E d \in Adjustments :
          /\ \/ CreateAdjustment(w, d)
             \/ \E op \in DOMAIN AdjustmentFrom, by \in Users \cup {NoDoc} : LoadAdjustment(w, op, d, by)
          /\ UNCHANGED << transferVars, receiptVars, returnVars, countVars, taskVars >>
    \/ \E d \in Returns :
          /\ \/ CreateReturn(w, d)
             \/ LoadIntake(w, d)
             \/ LoadCancel(w, d)
             \/ \E a \in Disposals, key \in KeysOf[d]["dispose"] :
                   LoadDispose(w, d, a.line, a.outcome, a.qty, a.units, key)
          /\ UNCHANGED << transferVars, receiptVars, adjustmentVars, countVars, taskVars >>
    \/ \E d \in Counts :
          /\ CreateCount(w, d) \/ \E op \in DOMAIN CountFrom : LoadCount(w, op, d)
          /\ UNCHANGED << transferVars, receiptVars, adjustmentVars, returnVars, taskVars >>
    \/ \E d \in Tasks :
          /\ CreateTask(w, d) \/ \E op \in DOMAIN TaskFrom : LoadTask(w, op, d)
          /\ UNCHANGED << transferVars, receiptVars, adjustmentVars, returnVars >>

(* A request that is being handled goes on. *)
Handle(w) ==
    \/ /\ TransferStep(w)
       /\ UNCHANGED << receiptVars, adjustmentVars, returnVars, countVars, taskVars >>
    \/ /\ ReceiptStep(w)
       /\ UNCHANGED << transferVars, adjustmentVars, returnVars, countVars, taskVars >>
    \/ /\ AdjustmentStep(w)
       /\ UNCHANGED << transferVars, receiptVars, returnVars, countVars, taskVars >>
    \/ /\ ReturnStep(w)
       /\ UNCHANGED << transferVars, receiptVars, adjustmentVars, countVars, taskVars >>
    \/ /\ CountStep(w)
       /\ UNCHANGED << transferVars, receiptVars, adjustmentVars, returnVars, taskVars >>
    \/ /\ TaskStep(w)
       /\ UNCHANGED << transferVars, receiptVars, adjustmentVars, returnVars >>

Quiet == (\A w \in Workers : pc[w] = "idle") /\ UNCHANGED vars

WarehouseNext ==
    \/ \E w \in Workers : Ask(w) \/ Handle(w) \/ (Fail(w) /\ UNCHANGED docVars)
    \/ Quiet

WarehouseSpec == WarehouseInit /\ [][WarehouseNext]_vars

-----------------------------------------------------------------------------
(* Properties *)

Nothing == [g \in Grains |-> EmptyRow]
Plus(e, f) == [g \in Grains |-> AddDeltas(e[g], f[g])]

(* What is moved for a transfer by its dispatch, and by its receipt as well. *)
Sent(t) == EffectOf(OutLines(Lines(t)))
Arrived(t) ==
    Plus(Sent(t), EffectOf(InLines(Lines(t), [i \in DOMAIN Lines(t) |-> Lines(t)[i].qty])))

(* What a count has found: the difference between what was counted and what  *)
(* was on the books when the count was made.                                 *)
Found(c) == EffectOf(AdjustmentLines(Variance(c)))

(* The ledger has moved for document d exactly what d says, whichever       *)
(* handlers raced for it, died between two transactions or came back:        *)
(* nothing arrives that was not dispatched, nothing moves twice, and what is *)
(* on the document has moved.                                                *)
LedgerTellsDocuments ==
    /\ \A t \in Transfers :
          /\ MovedBy(t) \in {Nothing, Sent(t), Arrived(t)}
          /\ qtyDispatched[t] # NoneOf(Lines(t)) => MovedBy(t) \in {Sent(t), Arrived(t)}
          /\ qtyReceived[t] # NoneOf(Lines(t)) => MovedBy(t) = Arrived(t)
    /\ \A r \in Receipts :
          MovedBy(r) = IF r \in postedAt THEN EffectOf(ReceiptLines(Lines(r))) ELSE Nothing
    /\ \A a \in Adjustments :
          /\ MovedBy(a) \in {Nothing, EffectOf(AdjustmentLines(Lines(a)))}
          /\ status[a] = "POSTED" => MovedBy(a) = EffectOf(AdjustmentLines(Lines(a)))
    /\ \A c \in Counts :
          /\ MovedBy(c) \in {Nothing, Found(c)}
          /\ status[c] = "POSTED" => MovedBy(c) = Found(c)

(* The ledger has moved stock for a document, and the document does not say  *)
(* so: its handler is between two transactions, or died there.               *)
HalfDone(d) ==
    \/ /\ d \in Transfers
       /\ MovedBy(d) # IF qtyReceived[d] # NoneOf(Lines(d)) THEN Arrived(d)
                       ELSE IF qtyDispatched[d] # NoneOf(Lines(d)) THEN Sent(d) ELSE Nothing
    \/ d \in Returns /\ d \notin receivedAt /\ MovedBy(d) # Nothing

(* reconcile() of the registry finds no drift on a row, unless a document    *)
(* that moves units there is half done: each unit is where the ledger's      *)
(* quantities have it, whatever order documents take it in.                  *)
SerialsMatchStock ==
    (\A d \in Docs : ~HalfDone(d)) => Drift = {}

(* Of the quarantined stock of a row every unit is accounted for by a return *)
(* that has received it and not disposed of it; a return is COMPLETED when   *)
(* and only when nothing is left of any line, however its dispositions race. *)
QuarantineAccounted ==
    /\ \A r \in Returns :
          /\ \A i \in DOMAIN Lines(r) : disposedQty[r][i] <= receivedQty[r][i]
          /\ status[r] = "COMPLETED" <=>
                r \in receivedAt /\ \A i \in DOMAIN Lines(r) : LeftOf(r, i) = 0
    /\ (\A r \in Returns : ~HalfDone(r)) =>
          \A g \in Grains :
             balance[g]["quarantined"] = SumFunctionOnSet([r \in Returns |-> LeftOn(r, g)], Returns)

(* Of an adjustment worth more than the threshold nothing moves before two   *)
(* different people have approved it.                                        *)
TwoPeopleApproved ==
    \A a \in Adjustments :
        a \in needsSecond /\ MovedBy(a) # Nothing => Cardinality(approvedBy[a]) >= 2

(* A task is completed, and said to be, when its row has been counted and    *)
(* the ledger has been told the difference; whatever became of count and     *)
(* task while the transactions of start, post and complete went by.          *)
CompletedMeansCounted ==
    \A k \in Tasks :
        /\ k \in completions => counted[CountOf[k]] # << >> /\ MovedBy(CountOf[k]) = Found(CountOf[k])
        /\ status[k] = "COMPLETED" => k \in completions

(* An active count is never orphaned: the count of a cancelled task is        *)
(* cancelled or posted, unless cancelTask is still at it.                     *)
ActiveCountNeverOrphaned ==
    \A k \in Tasks :
        status[k] = "CANCELLED" /\ (\A w \in Workers : job[w].doc # k) =>
            status[CountOf[k]] \in {"NONE", "POSTED", "CANCELLED"}
=============================================================================
