-------------------------------- MODULE Returns --------------------------------
(***************************************************************************)
(* ReturnsService: returned goods are taken in to quarantine (receive) and *)
(* leave it by dispositions, line by line; the return is COMPLETED when    *)
(* everything received is disposed of.  A line is [grain, qty, units].     *)
(***************************************************************************)
EXTENDS Documents

CONSTANT Overrides    \* quantities a request to receive may give for each line, by return

VARIABLES
    receivedAt,       \* the returns with a date of receipt
    receivedQty,      \* of each line
    disposedQty

returnVars == << receivedAt, receivedQty, disposedQty >>

Returns == { d \in Docs : KindOf[d] = "return" }

(* What is taken in of a line may be nothing, or more than was declared. *)
ASSUME ReturnsAssumption ==
    \A r \in Returns : \A c \in DOMAIN Versions[r] : \A i \in DOMAIN Versions[r][c] :
        /\ Versions[r][c][i].grain \in Grains
        /\ \A qty \in Overrides[r] : qty[i] \in Nat

(* What a disposition does to stock and to units. *)
Outcomes ==
    [RESTOCK |-> [type |-> "RETURN_RESTOCK", buckets |-> {"quarantined"}, to |-> "IN_STOCK"],
     DAMAGED |-> [type |-> "DAMAGE", buckets |-> {"quarantined", "onHand"}, to |-> "DAMAGED"],
     RETURN_TO_SUPPLIER |->
         [type |-> "SUPPLIER_RETURN", buckets |-> {"quarantined", "onHand"}, to |-> "DISPOSED"],
     DISPOSE |->
         [type |-> "RETURN_DISPOSE", buckets |-> {"quarantined", "onHand"}, to |-> "DISPOSED"]]

(* A return takes known units that were issued. *)
CreateReturn(w, r) ==
    /\ Create(w, r)
    /\ MayMove(UnitsOf(Versions[r][content'[r]]), "ISSUED", Grains \cup {Nowhere})
    /\ receivedQty' = [receivedQty EXCEPT ![r] = NoneOf(Versions[r][content'[r]])]
    /\ disposedQty' = [disposedQty EXCEPT ![r] = NoneOf(Versions[r][content'[r]])]
    /\ UNCHANGED receivedAt

(* receive: a request may give other quantities than the return declares; a  *)
(* serialized line is received whole.                                        *)
Receivable(lines, qty) ==
    /\ \E i \in DOMAIN lines : qty[i] > 0
    /\ \A i \in DOMAIN lines : lines[i].units # {} /\ qty[i] > 0 => qty[i] = Cardinality(lines[i].units)

LoadIntake(w, r) ==
    /\ r \notin receivedAt
    /\ status[r] = "DRAFT"
    /\ \E qty \in Overrides[r], key \in KeysOf[r]["intake"] :
          /\ Receivable(Lines(r), qty)
          /\ Start(w, [Job("intake", r) EXCEPT !.key = key, !.qty = qty])
    /\ UNCHANGED returnVars

IntakeLines(lines, qty) ==
    FlattenSeq([i \in DOMAIN lines |->
        IF qty[i] > 0
        THEN << [grain |-> lines[i].grain, type |-> "RETURN_RECEIPT", qty |-> qty[i],
                 deltas |-> NoDeltas, allowNegative |-> FALSE] >>
        ELSE << >>])

(* The ledger takes the goods in under the return's own key ..               *)
PostIntake(w) ==
    /\ At(w, "loaded", "intake")
    /\ Take(w, IntakeLines(job[w].lines, job[w].qty))
    /\ UNCHANGED returnVars

(* .. and another transaction writes the quantities of this request.         *)
LookIntake(w) ==
    /\ At(w, "posted", "intake")
    /\ Look(w, \A i \in DOMAIN job[w].lines :
                  job[w].qty[i] > 0 => MayMove(job[w].lines[i].units, "ISSUED", Grains \cup {Nowhere}))
    /\ UNCHANGED returnVars

RecordIntake(w) ==
    LET j == job[w]
        taken == SelectSeq(j.lines, LAMBDA line : \E i \in DOMAIN j.lines : line = j.lines[i] /\ j.qty[i] > 0)
    IN  /\ At(w, "recording", "intake")
        /\ receivedQty' = [receivedQty EXCEPT ![j.doc] = j.qty]
        /\ units' = LinesMoved(taken, "QUARANTINED", [i \in DOMAIN taken |-> taken[i].grain])
        /\ receivedAt' = receivedAt \cup {j.doc}
        /\ Write(w, "RECEIVED")
        /\ Finish(w, "APPLIED")
        /\ UNCHANGED << stockVars, content, disposedQty >>

(* cancel, before receipt. *)
LoadCancel(w, r) ==
    /\ status[r] = "DRAFT"
    /\ Start(w, Job("cancel", r))
    /\ UNCHANGED returnVars

CancelReturn(w) ==
    /\ At(w, "loaded", "cancel")
    /\ job[w].doc \in Returns
    /\ Advance(w, "CANCELLED")
    /\ UNCHANGED returnVars

-----------------------------------------------------------------------------
(* dispose: of a line, some quantity and, if it is serialized, as many units. *)
(* Which line the units came with is not looked at.                           *)
LoadDispose(w, r, i, out, qty, S, key) ==
    /\ status[r] \in {"RECEIVED", "PARTIALLY_DISPOSED"}
    /\ i \in DOMAIN Lines(r)
    /\ IF Lines(r)[i].units = {} THEN S = {} ELSE Cardinality(S) = qty
    /\ Start(w, [Job("dispose", r) EXCEPT !.key = key, !.next = out, !.line = i, !.qty = << qty >>,
                                          !.units = S])
    /\ UNCHANGED returnVars

DisposalLines(j) ==
    LET q == j.qty[1]
        out == Outcomes[j.next]
    IN  << [grain |-> j.lines[j.line].grain, type |-> out.type, qty |-> q, allowNegative |-> FALSE,
            deltas |-> [b \in Buckets |-> IF b \in out.buckets THEN -q
                                          ELSE IF b = "damaged" /\ out.to = "DAMAGED" THEN q
                                          ELSE 0]] >>

LeftOf(r, i) == receivedQty[r][i] - disposedQty[r][i]

(* .. and of all lines on row g, as quarantineBreakdown lists them. *)
LeftOn(r, g) ==
    SumFunctionOnSet([i \in DOMAIN Lines(r) |-> LeftOf(r, i)],
                     { i \in DOMAIN Lines(r) : Lines(r)[i].grain = g })

(* One transaction, which locks the line before it reads what is left of it. *)
PostDisposal(w) ==
    LET j == job[w]
    IN  /\ At(w, "loaded", "dispose")
        /\ \A v \in Workers : ~(pc[v] = "recording" /\ job[v].doc = j.doc)
        /\ Enter(w, DisposalLines(j), /\ j.qty[1] <= LeftOf(j.doc, j.line)
                                      /\ MayMove(j.units, "QUARANTINED", Grains))
        /\ UNCHANGED returnVars

(* Fault: the return is complete when the line is. *)
RolledUpByLine(r, disposed) ==
    IF \E i \in DOMAIN disposed : disposed[i] >= receivedQty[r][i]
    THEN "COMPLETED" ELSE "PARTIALLY_DISPOSED"

(* The status all lines of the return add up to. *)
RolledUp(r, disposed) ==
    IF SumFunctionOnSet([i \in DOMAIN disposed |-> receivedQty[r][i] - disposed[i]], DOMAIN disposed) <= 0
    THEN "COMPLETED" ELSE "PARTIALLY_DISPOSED"

CloseDisposal(w) ==
    LET j == job[w]
        disposed == [disposedQty[j.doc] EXCEPT ![j.line] = @ + j.qty[1]]
    IN  /\ At(w, "posting", "dispose")
        /\ Post(CommandOf(j, DisposalLines(j)), j.doc)
        /\ units' = Moved(j.units, Outcomes[j.next].to, j.lines[j.line].grain)
        /\ disposedQty' = [disposedQty EXCEPT ![j.doc] = disposed]
        /\ Write(w, RolledUp(j.doc, disposed))
        /\ Finish(w, "APPLIED")
        /\ UNCHANGED << content, receivedAt, receivedQty >>

ReturnStep(w) ==
    \/ PostIntake(w) \/ LookIntake(w) \/ RecordIntake(w) \/ CancelReturn(w)
    \/ PostDisposal(w) \/ CloseDisposal(w)
=============================================================================
