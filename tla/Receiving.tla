------------------------------- MODULE Receiving -------------------------------
(***************************************************************************)
(* ReceivingService: a goods receipt is posted in one transaction, with    *)
(* the units it registers.  A line is [grain, qty, expected, units].       *)
(***************************************************************************)
EXTENDS Documents

VARIABLE postedAt    \* the receipts with a posting date

receiptVars == << postedAt >>

Receipts == { d \in Docs : KindOf[d] = "receipt" }

(* Of what is expected nothing may have been received. *)
ASSUME ReceiptsAssumption ==
    \A r \in Receipts : \A c \in DOMAIN Versions[r] : \A i \in DOMAIN Versions[r][c] :
        Versions[r][c][i].grain \in Grains /\ Versions[r][c][i].qty \in Nat

Postable == {"DRAFT", "RECEIVING", "FOR_INSPECTION"}

(* The units of a receipt are not registered: validateReceiptCaptures. *)
MayPostReceipt(r) ==
    /\ r \notin postedAt
    /\ status[r] \in Postable
    /\ \E i \in DOMAIN Lines(r) : Lines(r)[i].qty > 0
    /\ Unregistered(UnitsOf(Lines(r)))

MayLoadReceipt(op, r) ==
    \/ op = "edit" /\ status[r] = "DRAFT"
    \/ op = "cancel" /\ r \notin postedAt /\ status[r] # "COMPLETED"
    \/ op = "post" /\ MayPostReceipt(r)

CreateReceipt(w, r) == Create(w, r) /\ UNCHANGED receiptVars

LoadReceipt(w, op, r) ==
    /\ MayLoadReceipt(op, r)
    /\ \E key \in KeysOf[r][op] : Start(w, [Job(op, r) EXCEPT !.key = key])
    /\ UNCHANGED receiptVars

CancelReceipt(w) ==
    /\ At(w, "loaded", "cancel")
    /\ job[w].doc \in Receipts
    /\ Advance(w, "CANCELLED")
    /\ UNCHANGED receiptVars

EditReceipt(w) ==
    /\ job[w].doc \in Receipts
    /\ Edit(w)
    /\ UNCHANGED receiptVars

-----------------------------------------------------------------------------
ReceivedLines(lines) ==
    FlattenSeq([i \in DOMAIN lines |-> IF lines[i].qty > 0 THEN << lines[i] >> ELSE << >>])

ReceiptLines(lines) ==
    [k \in DOMAIN ReceivedLines(lines) |->
        [grain |-> ReceivedLines(lines)[k].grain, type |-> "PURCHASE_RECEIPT",
         qty |-> ReceivedLines(lines)[k].qty, deltas |-> NoDeltas, allowNegative |-> FALSE]]

(* The lines are posted and the units inserted, under their unique index. *)
PostReceipt(w) ==
    /\ At(w, "loaded", "post")
    /\ job[w].doc \in Receipts
    /\ Enter(w, ReceiptLines(job[w].lines), Unregistered(UnitsOf(job[w].lines)))
    /\ UNCHANGED receiptVars

ReceiptStatus(lines) ==
    IF \A i \in DOMAIN lines : lines[i].qty >= lines[i].expected
    THEN "COMPLETED" ELSE "PARTIALLY_RECEIVED"

CloseReceipt(w) ==
    LET j == job[w]
    IN  /\ At(w, "posting", "post")
        /\ j.doc \in Receipts
        /\ Post(CommandOf(j, ReceiptLines(j.lines)), j.doc)
        /\ units' = LinesMoved(j.lines, "IN_STOCK", [i \in DOMAIN j.lines |-> j.lines[i].grain])
        /\ postedAt' = postedAt \cup {j.doc}
        /\ Write(w, ReceiptStatus(j.lines))
        /\ Finish(w, "APPLIED")
        /\ UNCHANGED content

ReceiptStep(w) == CancelReceipt(w) \/ EditReceipt(w) \/ PostReceipt(w) \/ CloseReceipt(w)
=============================================================================
