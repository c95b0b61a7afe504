------------------------------ MODULE Adjustments ------------------------------
(***************************************************************************)
(* AdjustmentsService: corrections of stock, approved by one person or, if *)
(* they are worth more than a threshold, by two, and posted in one         *)
(* transaction.  A line is [grain, type, qty, units]; of a DAMAGE line the *)
(* units stay in the building.                                             *)
(***************************************************************************)
EXTENDS Documents

VARIABLES
    needsSecond,     \* the adjustments that want a second approver
    firstApprover,   \* the user in firstApprovedById, or NoDoc
    approvedBy       \* not a column: everybody who has approved

adjustmentVars == << needsSecond, firstApprover, approvedBy >>

Adjustments == { d \in Docs : KindOf[d] = "adjustment" }

ASSUME AdjustmentsAssumption ==
    \A a \in Adjustments : \A c \in DOMAIN Versions[a] : \A i \in DOMAIN Versions[a][c] :
        /\ Versions[a][c][i].grain \in Grains /\ Versions[a][c][i].qty \in Nat
        /\ Versions[a][c][i].type \in {"STOCK_ADJUSTMENT_IN", "STOCK_ADJUSTMENT_OUT", "DAMAGE"}

AdjustmentStatus ==
    {"NONE", "DRAFT", "SUBMITTED", "PENDING_SECOND_APPROVAL", "APPROVED", "REJECTED", "POSTED", "CANCELLED"}

AdjustmentFrom ==
    [edit |-> {"DRAFT"}, submit |-> {"DRAFT"}, approve |-> {"SUBMITTED"},
     secondApprove |-> {"PENDING_SECOND_APPROVAL"},
     reject |-> {"SUBMITTED", "PENDING_SECOND_APPROVAL"},
     cancel |-> AdjustmentStatus \ {"NONE", "POSTED"}, post |-> {"APPROVED"}]

(* What approve writes is decided on what was loaded. *)
AdjustmentTo(op, a) ==
    CASE op = "submit" -> "SUBMITTED"
      [] op = "approve" -> IF a \in needsSecond THEN "PENDING_SECOND_APPROVAL" ELSE "APPROVED"
      [] op = "secondApprove" -> "APPROVED"
      [] op = "reject" -> "REJECTED"
      [] op = "cancel" -> "CANCELLED"
      [] OTHER -> "POSTED"

(* Units that leave are in stock where the adjustment is, new ones unknown. *)
UnitsAdjustable(lines) ==
    \A i \in DOMAIN lines :
        IF lines[i].type = "STOCK_ADJUSTMENT_IN" THEN Unregistered(lines[i].units)
        ELSE MayMove(lines[i].units, "IN_STOCK", {lines[i].grain})

(* Fault: the first approver may approve again. *)
MayApproveTwice(by, a) == TRUE

MayApproveSecond(by, a) == firstApprover[a] # by

CreateAdjustment(w, a) == Create(w, a) /\ UNCHANGED adjustmentVars

LoadAdjustment(w, op, a, by) ==
    /\ op \in DOMAIN AdjustmentFrom
    /\ by \in (IF op \in {"approve", "secondApprove"} THEN Users ELSE {NoDoc})
    /\ status[a] \in AdjustmentFrom[op]
    /\ op = "secondApprove" => MayApproveSecond(by, a)
    /\ op = "post" => UnitsAdjustable(Lines(a))
    /\ \E key \in KeysOf[a][op] :
          Start(w, [Job(op, a) EXCEPT !.by = by, !.next = AdjustmentTo(op, a), !.key = key])
    /\ UNCHANGED adjustmentVars

(* submit finds out what the lines are worth, at the average cost of the     *)
(* moment, and so whether a second approver is wanted.                       *)
SubmitAdjustment(w) ==
    LET d == job[w].doc
    IN  /\ At(w, "loaded", "submit")
        /\ d \in Adjustments
        /\ \/ needsSecond' = needsSecond \cup {d}
           \/ needsSecond' = needsSecond \ {d}
        /\ Advance(w, job[w].next)
        /\ UNCHANGED << firstApprover, approvedBy >>

ApproveAdjustment(w) ==
    LET j == job[w]
    IN  /\ pc[w] = "loaded" /\ j.op \in {"approve", "secondApprove"}
        /\ j.doc \in Adjustments
        /\ firstApprover' = IF j.op = "approve" THEN [firstApprover EXCEPT ![j.doc] = j.by]
                                                ELSE firstApprover
        /\ approvedBy' = [approvedBy EXCEPT ![j.doc] = @ \cup {j.by}]
        /\ Advance(w, j.next)
        /\ UNCHANGED needsSecond

EndAdjustment(w) ==
    /\ pc[w] = "loaded" /\ job[w].op \in {"reject", "cancel"}
    /\ job[w].doc \in Adjustments
    /\ Advance(w, job[w].next)
    /\ UNCHANGED adjustmentVars

EditAdjustment(w) ==
    /\ job[w].doc \in Adjustments
    /\ Edit(w)
    /\ UNCHANGED adjustmentVars

-----------------------------------------------------------------------------
AdjustmentLines(lines) ==
    [i \in DOMAIN lines |->
        [grain |-> lines[i].grain, type |-> lines[i].type, qty |-> lines[i].qty,
         deltas |-> NoDeltas, allowNegative |-> FALSE]]

PostAdjustment(w) ==
    /\ At(w, "loaded", "post")
    /\ job[w].doc \in Adjustments
    /\ Enter(w, AdjustmentLines(job[w].lines), UnitsAdjustable(job[w].lines))
    /\ UNCHANGED adjustmentVars

(* What becomes of the units of a line. *)
UnitsAdjusted(lines) ==
    LET after(u) == CHOOSE s \in {"IN_STOCK", "DAMAGED", "DISPOSED"} :
            \E i \in DOMAIN lines :
                /\ u \in lines[i].units
                /\ s = CASE lines[i].type = "STOCK_ADJUSTMENT_IN" -> "IN_STOCK"
                         [] lines[i].type = "DAMAGE" -> "DAMAGED"
                         [] OTHER -> "DISPOSED"
        place(u) == CHOOSE g \in Grains : \E i \in DOMAIN lines : u \in lines[i].units /\ g = lines[i].grain
    IN  [u \in Units |-> IF u \in UnitsOf(lines) THEN [status |-> after(u), at |-> place(u)]
                                                 ELSE units[u]]

CloseAdjustment(w) ==
    LET j == job[w]
    IN  /\ At(w, "posting", "post")
        /\ j.doc \in Adjustments
        /\ Post(CommandOf(j, AdjustmentLines(j.lines)), j.doc)
        /\ units' = UnitsAdjusted(j.lines)
        /\ Write(w, "POSTED")
        /\ Finish(w, "APPLIED")
        /\ UNCHANGED << content, adjustmentVars >>

AdjustmentStep(w) ==
    \/ SubmitAdjustment(w) \/ ApproveAdjustment(w) \/ EndAdjustment(w) \/ EditAdjustment(w)
    \/ PostAdjustment(w) \/ CloseAdjustment(w)
=============================================================================
