------------------------------- MODULE Transfers -------------------------------
(***************************************************************************)
(* TransfersService: goods leave one warehouse on dispatch and arrive in   *)
(* another on receipt; in between they are in transit, in the balance of   *)
(* the warehouse they left.  A line is [grain, to, qty, units].            *)
(***************************************************************************)
EXTENDS Documents

VARIABLES
    qtyDispatched,    \* of each item of a transfer
    qtyReceived

transferVars == << qtyDispatched, qtyReceived >>

Transfers == { d \in Docs : KindOf[d] = "transfer" }

(* A transfer has lines, and each moves a positive quantity. *)
ASSUME TransfersAssumption ==
    \A t \in Transfers : \A c \in DOMAIN Versions[t] :
        /\ Versions[t][c] # << >>
        /\ \A i \in DOMAIN Versions[t][c] :
              LET line == Versions[t][c][i]
              IN  {line.grain, line.to} \subseteq Grains /\ line.qty \in Nat \ {0}

TransferFrom ==
    [edit |-> {"DRAFT"}, submit |-> {"DRAFT"}, approve |-> {"FOR_APPROVAL"},
     reject |-> {"FOR_APPROVAL"}, cancel |-> {"DRAFT", "FOR_APPROVAL", "APPROVED", "CANCELLED"},
     dispatch |-> {"APPROVED"}, receive |-> {"IN_TRANSIT", "PARTIALLY_RECEIVED"}]
TransferTo ==
    [submit |-> "FOR_APPROVAL", approve |-> "APPROVED", reject |-> "CANCELLED",
     cancel |-> "CANCELLED"]

TransferInit ==
    /\ qtyDispatched = [t \in Transfers |-> NoneOf(Lines(t))]
    /\ qtyReceived = [t \in Transfers |-> NoneOf(Lines(t))]

-----------------------------------------------------------------------------
Remaining(t) == [i \in DOMAIN qtyDispatched[t] |-> qtyDispatched[t][i] - qtyReceived[t][i]]

(* load and assertStatus of every operation; receive wants something to be   *)
(* under way, and remembers how much of each item.                           *)
MayLoad(op, t) ==
    /\ op \in DOMAIN TransferFrom
    /\ status[t] \in TransferFrom[op]
    /\ op = "receive" => \E i \in DOMAIN Remaining(t) : Remaining(t)[i] > 0

TransferJob(op, t, key) ==
    [Job(op, t) EXCEPT !.key = key, !.qty = IF op = "receive" THEN Remaining(t) ELSE << >>]

LoadTransfer(w, op, t) ==
    /\ MayLoad(op, t)
    /\ \E key \in KeysOf[t][op] : Start(w, TransferJob(op, t, key))
    /\ UNCHANGED transferVars

AdvanceTransfer(w) ==
    /\ pc[w] = "loaded"
    /\ job[w].doc \in Transfers
    /\ job[w].op \in DOMAIN TransferTo
    /\ Advance(w, TransferTo[job[w].op])
    /\ UNCHANGED transferVars

(* New items: nothing of them is dispatched. *)
Renew(t) ==
    /\ qtyDispatched' = [qtyDispatched EXCEPT ![t] = NoneOf(Versions[t][content'[t]])]
    /\ qtyReceived' = [qtyReceived EXCEPT ![t] = NoneOf(Versions[t][content'[t]])]

CreateTransfer(w, t) == Create(w, t) /\ Renew(t)

EditTransfer(w) ==
    /\ job[w].doc \in Transfers
    /\ Edit(w)
    /\ Renew(job[w].doc)

-----------------------------------------------------------------------------
(* dispatch: the units are looked at first .. *)
AtSource(lines) == \A i \in DOMAIN lines : MayMove(lines[i].units, "IN_STOCK", {lines[i].grain})

ValidateDispatch(w) ==
    /\ At(w, "loaded", "dispatch")
    /\ \/ /\ AtSource(job[w].lines)
          /\ Goto(w, "validated")
          /\ UNCHANGED << stockVars, units, status, content, outdated >>
       \/ /\ ~AtSource(job[w].lines)
          /\ Refuse(w)
    /\ UNCHANGED transferVars

(* .. then the ledger moves the stock, one movement for a line ..            *)
OutLines(lines) ==
    [i \in DOMAIN lines |->
        [grain |-> lines[i].grain, type |-> "TRANSFER_OUT", qty |-> lines[i].qty,
         deltas |-> NoDeltas, allowNegative |-> FALSE]]

PostDispatch(w) ==
    /\ At(w, "validated", "dispatch")
    /\ Take(w, OutLines(job[w].lines))
    /\ UNCHANGED transferVars

(* .. and another transaction puts it on the items and the units.            *)
LookDispatch(w) ==
    /\ At(w, "posted", "dispatch")
    /\ Look(w, AtSource(job[w].lines))
    /\ UNCHANGED transferVars

RecordDispatch(w) ==
    LET j == job[w]
    IN  /\ At(w, "recording", "dispatch")
        /\ qtyDispatched' = [qtyDispatched EXCEPT ![j.doc] = [i \in DOMAIN j.lines |-> j.lines[i].qty]]
        /\ units' = LinesMoved(j.lines, "IN_TRANSIT", [i \in DOMAIN j.lines |-> j.lines[i].grain])
        /\ Write(w, "IN_TRANSIT")
        /\ Finish(w, "APPLIED")
        /\ UNCHANGED << stockVars, content, qtyReceived >>

-----------------------------------------------------------------------------
(* receive: in transit is cleared where the goods left, and on hand raised   *)
(* where they arrive, for what of each item is still under way ..            *)
InLines(lines, qty) ==
    LET Leg(g, q, bucket, delta) ==
            [grain |-> g, type |-> "TRANSFER_IN", qty |-> q, allowNegative |-> FALSE,
             deltas |-> [EmptyRow EXCEPT ![bucket] = delta]]
    IN  FlattenSeq([i \in DOMAIN lines |->
            IF qty[i] > 0
            THEN << Leg(lines[i].grain, qty[i], "inTransit", -qty[i]), Leg(lines[i].to, qty[i], "onHand", qty[i]) >>
            ELSE << >>])

PostReceive(w) ==
    /\ At(w, "loaded", "receive")
    /\ Take(w, InLines(job[w].lines, job[w].qty))
    /\ UNCHANGED transferVars

(* .. and recorded; wherever its row is, a unit has to be in transit.  All   *)
(* items are dispatched at once and received at once: what was under way of  *)
(* an item is all that was dispatched of it.                                 *)
LookReceive(w) ==
    /\ At(w, "posted", "receive")
    /\ Look(w, MayMove(UnitsOf(job[w].lines), "IN_TRANSIT", Grains))
    /\ UNCHANGED transferVars

RecordReceive(w) ==
    LET j == job[w]
    IN  /\ At(w, "recording", "receive")
        /\ qtyReceived' = [qtyReceived EXCEPT ![j.doc] = j.qty]
        /\ units' = LinesMoved(j.lines, "IN_STOCK", [i \in DOMAIN j.lines |-> j.lines[i].to])
        /\ Write(w, "RECEIVED")
        /\ Finish(w, "APPLIED")
        /\ UNCHANGED << stockVars, content, qtyDispatched >>

TransferStep(w) ==
    \/ AdvanceTransfer(w) \/ EditTransfer(w)
    \/ ValidateDispatch(w) \/ PostDispatch(w) \/ LookDispatch(w) \/ RecordDispatch(w)
    \/ PostReceive(w) \/ LookReceive(w) \/ RecordReceive(w)
=============================================================================
