------------------------------- MODULE Reservations -------------------------------
(***************************************************************************)
(* ReservationsService and the workflow of ReleasesService: stock is       *)
(* promised to reservations in the balances' reserved bucket, off the      *)
(* ledger, and leaves through releases whose items may consume a line of a *)
(* reservation.                                                            *)
(*                                                                         *)
(* A worker is a request, or the expiry timer, being handled.  Handlers    *)
(* load a document outside any transaction and decide on what they loaded; *)
(* later a transaction writes.  Posting a release takes two transactions:  *)
(* the ledger's, atomic and once per key as StockLedger has it, and one    *)
(* that records what was consumed and closes the release.  A transaction   *)
(* whose reads are all of rows it has locked is one step here; the         *)
(* recording one reads the lines of the reservation without a lock, so it  *)
(* is two.                                                                 *)
(***************************************************************************)
EXTENDS StockLedger, FiniteSets, FiniteSetsExt

CONSTANTS
    Products,
    Nil,          \* the lot-less row of each product
    Lots,         \* the lot rows of each product; none if it is not batch-tracked
    Opening,      \* on-hand stock of each row to begin with
    Reservations,
    Lines,        \* reservation lines: [res, product, qty]
    Expiring,     \* the reservations with an expiry date
    Releases,
    Items,        \* items of each release, in order: [product, qty, line]
    NoLine,       \* an item that consumes no reservation
    KeysOf,       \* idempotency keys that requests to post each release come with
    InitialReleaseStatus,
    Workers,
    OpsOf,        \* what each worker is asked to do
    MayOverlap,   \* operations that may be under way on one document at a time
    NoJob,
    MaxFailures   \* bound: handlers that fail or die half-way

VARIABLES
    resStatus,    \* inventory_reservations.status
    consumed,     \* reservation_lines.consumed_quantity
    relStatus,    \* stock_releases.status
    approved,     \* stock_release_items.approved_qty, per release
    pc,           \* where each worker is in its handler
    job,          \* what it is handling and what it has read
    failures      \* handlers that failed so far

stockVars == << balance, movements >>
docVars == << resStatus, consumed, relStatus, approved >>
vars == << balance, movements, resStatus, consumed, relStatus, approved, pc, job, failures >>

ReservationOps == {"confirm", "release", "cancel", "expire"}
ReleaseOps == {"submit", "approve", "reject", "withdraw", "post"}

ReservationStatus ==
    {"DRAFT", "RESERVED", "PARTIALLY_CONSUMED", "CONSUMED", "RELEASED", "EXPIRED", "CANCELLED"}
Active == {"RESERVED", "PARTIALLY_CONSUMED"}
Terminal == {"CONSUMED", "RELEASED", "EXPIRED", "CANCELLED"}
ReleaseStatus == {"DRAFT", "FOR_APPROVAL", "APPROVED", "REJECTED", "RELEASED", "CANCELLED"}

LineIds == DOMAIN Lines

JobType ==
    [op : ReservationOps \cup ReleaseOps, doc : Reservations \cup Releases,
     key : Keys \cup {NoKey}, status : ReservationStatus \cup {"none"},
     used : [LineIds -> Nat], qty : Seq(Nat), lot : Seq(Grains),
     rolled : UNION { [R -> ReservationStatus] : R \in SUBSET Reservations }]

(* Rows are told apart by product and lot; a reservation has lines, an item   *)
(* consumes a line of its own product, quantities are positive.              *)
ASSUME ReservationsAssumption ==
    /\ IsFiniteSet(LineIds) /\ IsFiniteSet(Grains) /\ IsFiniteSet(Releases) /\ IsFiniteSet(Reservations)
    /\ Nil \in [Products -> Grains] /\ \A p, q \in Products : Nil[p] = Nil[q] => p = q
    /\ Lots \in [Products -> SUBSET Grains]
    /\ \A p, q \in Products : Nil[p] \notin Lots[q]
    /\ Opening \in [Grains -> Nat]
    /\ Lines \in [LineIds -> [res : Reservations, product : Products, qty : Nat \ {0}]]
    /\ \A r \in Reservations : \E l \in LineIds : Lines[l].res = r
    /\ NoLine \notin LineIds
    /\ Items \in [Releases -> Seq([product : Products, qty : Nat \ {0}, line : LineIds \cup {NoLine}])]
    /\ \A s \in Releases : \A i \in DOMAIN Items[s] :
           Items[s][i].line # NoLine => Lines[Items[s][i].line].product = Items[s][i].product
    /\ Releases \subseteq Refs
    /\ NoKey \notin Keys /\ KeysOf \in [Releases -> SUBSET Keys]
    /\ InitialReleaseStatus \in {"DRAFT", "APPROVED"}
    /\ NoJob \notin JobType /\ NoDeltas \notin Row
    /\ MaxFailures \in Nat

LinesOf(r) == { l \in LineIds : Lines[l].res = r }

-----------------------------------------------------------------------------
(* Sums over rows, lines and items *)

Available(p) ==
    SumFunctionOnSet([g \in Grains |-> balance[g]["onHand"] - balance[g]["reserved"]
                                                           - balance[g]["quarantined"]],
                     {Nil[p]} \cup Lots[p])

(* What the lines of r on product p have left, by what has been consumed. *)
Left(r, p, used) ==
    SumFunctionOnSet([l \in LineIds |-> IF Lines[l].qty > used[l] THEN Lines[l].qty - used[l] ELSE 0],
                     { l \in LinesOf(r) : Lines[l].product = p })

(* The items among s's that are approved in quantity qty, and those that     *)
(* consume line l.                                                           *)
ApprovedItems(s, qty) == { i \in DOMAIN Items[s] : qty[i] > 0 }

Taken(s, qty, l) ==
    SumFunctionOnSet(qty, { i \in ApprovedItems(s, qty) : Items[s][i].line = l })

LinesUsed(s, qty) == { Items[s][i].line : i \in ApprovedItems(s, qty) } \ {NoLine}
ReservationsUsed(s, qty) == { Lines[l].res : l \in LinesUsed(s, qty) }

(* The reserved quantity of batch-tracked product p that s consumes: its     *)
(* movements are on lot rows, the reservation is on the lot-less one.        *)
BatchTaken(s, qty, p) ==
    IF Lots[p] = {} THEN 0
    ELSE SumFunctionOnSet(qty,
             { i \in ApprovedItems(s, qty) : Items[s][i].product = p /\ Items[s][i].line # NoLine })

Reserved(p) == balance[Nil[p]]["reserved"]

(* The balances once the reserved bucket of every product p is f[p]. *)
WithReserved(f) ==
    [g \in Grains |->
        IF \E p \in Products : g = Nil[p]
        THEN [balance[g] EXCEPT !["reserved"] = f[CHOOSE p \in Products : g = Nil[p]]]
        ELSE balance[g]]

(* Fault: what is returned is not clamped at zero. *)
ReturnedUnclamped(r, used) ==
    WithReserved([p \in Products |-> Reserved(p) - Left(r, p, used)])

(* .. after what reservation r has left of its lines, by used, is returned:  *)
(* down to zero at most, and a product with nothing left is not touched.     *)
Returned(r, used) ==
    WithReserved([p \in Products |->
        LET left == Left(r, p, used)
        IN  IF left = 0 THEN Reserved(p)
            ELSE IF left > Reserved(p) THEN 0
            ELSE Reserved(p) - left])

-----------------------------------------------------------------------------
(* Handlers *)

Job(op, doc) == [op |-> op, doc |-> doc, key |-> NoKey, status |-> "none", used |-> consumed,
                 qty |-> << >>, lot |-> << >>, rolled |-> << >>]

(* The documents a handler works on. *)
Documents(j) == {j.doc} \cup (IF j.op = "post" THEN ReservationsUsed(j.doc, j.qty) ELSE {})

MayStart(w, j) ==
    \A v \in Workers \ {w} :
        job[v] # NoJob /\ Documents(job[v]) \cap Documents(j) # {} => {job[v].op, j.op} \subseteq MayOverlap

Start(w, j) ==
    /\ pc[w] = "idle"
    /\ j.op \in OpsOf[w]
    /\ MayStart(w, j)
    /\ pc' = [pc EXCEPT ![w] = "loaded"]
    /\ job' = [job EXCEPT ![w] = j]
    /\ UNCHANGED << stockVars, docVars, failures >>

Done(w) ==
    /\ pc' = [pc EXCEPT ![w] = "idle"]
    /\ job' = [job EXCEPT ![w] = NoJob]
    /\ UNCHANGED failures

Handling(w, op) == pc[w] = "loaded" /\ job[w].op = op

(* The lot-less row of a batch-tracked product stays locked from the update  *)
(* of a recording transaction to its end.                                    *)
RowsFree(w, products) ==
    \A v \in Workers \ {w} :
        pc[v] = "recorded" => \A p \in products : BatchTaken(job[v].doc, job[v].qty, p) = 0

ProductsOf(r) == { Lines[l].product : l \in LinesOf(r) }

-----------------------------------------------------------------------------
(* Reservations *)

Transitions ==
    [DRAFT |-> {"RESERVED", "CANCELLED"},
     RESERVED |-> {"PARTIALLY_CONSUMED", "CONSUMED", "RELEASED", "EXPIRED", "CANCELLED"},
     PARTIALLY_CONSUMED |-> {"CONSUMED", "RELEASED", "EXPIRED", "CANCELLED"},
     CONSUMED |-> {}, RELEASED |-> {}, EXPIRED |-> {}, CANCELLED |-> {}]

Target == [confirm |-> "RESERVED", release |-> "RELEASED", cancel |-> "CANCELLED"]

(* load and assertTransition of confirm, release and cancel. *)
LoadReservation(w, op, r) ==
    /\ op \in {"confirm", "release", "cancel"}
    /\ Target[op] \in Transitions[resStatus[r]]
    /\ Start(w, [Job(op, r) EXCEPT !.status = resStatus[r]])

(* Fault: what others have reserved counts as available. *)
FitsOnHand(r) ==
    \A p \in ProductsOf(r) :
        Left(r, p, [l \in LineIds |-> 0])
            <= SumFunctionOnSet([g \in Grains |-> balance[g]["onHand"]], {Nil[p]} \cup Lots[p])

(* Each line in turn asks for no more than is available after those before. *)
Fits(r) ==
    \A p \in ProductsOf(r) : Left(r, p, [l \in LineIds |-> 0]) <= Available(p)

(* confirm's transaction: all lines, or none. *)
Confirm(w) ==
    LET r == job[w].doc
    IN  /\ Handling(w, "confirm")
        /\ RowsFree(w, ProductsOf(r))
        /\ IF Fits(r)
           THEN /\ balance' = WithReserved([p \in Products |->
                                  Reserved(p) + Left(r, p, [l \in LineIds |-> 0])])
                /\ resStatus' = [resStatus EXCEPT ![r] = "RESERVED"]
           ELSE UNCHANGED << balance, resStatus >>
        /\ UNCHANGED << movements, consumed, relStatus, approved >>
        /\ Done(w)

(* returnReserved's transaction, on what was loaded. *)
ReturnReserved(w) ==
    LET r == job[w].doc
    IN  /\ Handling(w, "release") \/ Handling(w, "cancel")
        /\ RowsFree(w, ProductsOf(r))
        /\ balance' = IF job[w].status \in Active THEN Returned(r, job[w].used) ELSE balance
        /\ resStatus' = [resStatus EXCEPT ![r] = Target[job[w].op]]
        /\ UNCHANGED << movements, consumed, relStatus, approved >>
        /\ Done(w)

(* expireDue: a reservation past its date is found .. *)
FindDue(w, r) ==
    /\ r \in Expiring
    /\ resStatus[r] \in Active
    /\ Start(w, Job("expire", r))

(* Fault: the claim does not ask for the status again. *)
ClaimAny(r) == TRUE
(* Fault: the claim forgets partly consumed reservations. *)
ClaimUntouched(r) == resStatus[r] = "RESERVED"

(* .. and claimed, if it is still active by then; what it has left is read   *)
(* after the claim.                                                          *)
Claim(r) == resStatus[r] \in Active

Expire(w) ==
    LET r == job[w].doc
    IN  /\ Handling(w, "expire")
        /\ IF Claim(r)
           THEN /\ RowsFree(w, ProductsOf(r))
                /\ balance' = Returned(r, consumed)
                /\ resStatus' = [resStatus EXCEPT ![r] = "EXPIRED"]
           ELSE UNCHANGED << balance, resStatus >>
        /\ UNCHANGED << movements, consumed, relStatus, approved >>
        /\ Done(w)

-----------------------------------------------------------------------------
(* Releases *)

From == [submit |-> {"DRAFT"}, approve |-> {"FOR_APPROVAL"}, reject |-> {"FOR_APPROVAL"},
         withdraw |-> ReleaseStatus \ {"RELEASED"}, post |-> {"APPROVED"}]
To == [submit |-> "FOR_APPROVAL", approve |-> "APPROVED", reject |-> "REJECTED",
       withdraw |-> "CANCELLED"]

(* Fault: an approver may grant more than was requested. *)
QuantitiesUncapped(s) == [DOMAIN Items[s] -> 0 .. Max({ Items[s][i].qty : i \in DOMAIN Items[s] }) + 1]

(* What an approver may grant: no more than was requested. *)
Quantities(s) ==
    { qty \in [DOMAIN Items[s] -> 0 .. Max({ Items[s][i].qty : i \in DOMAIN Items[s] })] :
        \A i \in DOMAIN Items[s] : qty[i] <= Items[s][i].qty }

LoadRelease(w, op, s) ==
    /\ op \in ReleaseOps \ {"post"}
    /\ relStatus[s] \in From[op]
    /\ Start(w, Job(op, s))

(* submit, approve (with any quantities up to those requested), reject and   *)
(* cancel - withdraw here - write their status whatever has become of the    *)
(* release.                                                                  *)
Advance(w) ==
    LET s == job[w].doc
        op == job[w].op
    IN  /\ pc[w] = "loaded" /\ op \in ReleaseOps \ {"post"}
        /\ relStatus' = [relStatus EXCEPT ![s] = To[op]]
        /\ IF op = "approve"
           THEN \E qty \in Quantities(s) : approved' = [approved EXCEPT ![s] = qty]
           ELSE UNCHANGED approved
        /\ UNCHANGED << stockVars, resStatus, consumed >>
        /\ Done(w)

(* post: the release is loaded .. *)
LoadPost(w, s, key) ==
    /\ relStatus[s] \in From["post"]
    /\ ApprovedItems(s, approved[s]) # {}
    /\ Start(w, [Job("post", s) EXCEPT !.key = key, !.qty = approved[s]])

(* Fault: the quantity that is left is not checked. *)
ConsumableByStatus(s, qty) ==
    \A i \in ApprovedItems(s, qty) :
        LET l == Items[s][i].line
        IN  l # NoLine => resStatus[Lines[l].res] \in Active

(* Fault: the status of the reservation is not checked. *)
ConsumableByQuantity(s, qty) ==
    \A i \in ApprovedItems(s, qty) :
        LET l == Items[s][i].line
        IN  l # NoLine => qty[i] <= Lines[l].qty - consumed[l]

(* .. validateConsumable holds of each item, and the lots that are to give   *)
(* the batch-tracked items have enough available ..                          *)
Consumable(s, qty) ==
    \A i \in ApprovedItems(s, qty) :
        LET l == Items[s][i].line
        IN  l # NoLine => /\ resStatus[Lines[l].res] \in Active
                          /\ qty[i] <= Lines[l].qty - consumed[l]

Allocations(s, qty) ==
    { lot \in [DOMAIN Items[s] -> Grains] :
        \A i \in DOMAIN Items[s] :
            LET p == Items[s][i].product
                row == balance[lot[i]]
            IN  IF Lots[p] = {} THEN lot[i] = Nil[p]
                ELSE /\ lot[i] \in Lots[p]
                     /\ qty[i] <= row["onHand"] - row["reserved"] - row["quarantined"] }

Validate(w) ==
    LET s == job[w].doc
        qty == job[w].qty
    IN  /\ Handling(w, "post")
        /\ IF Consumable(s, qty) /\ Allocations(s, qty) # {}
           THEN /\ \E lot \in Allocations(s, qty) : job' = [job EXCEPT ![w].lot = lot]
                /\ pc' = [pc EXCEPT ![w] = "validated"]
                /\ UNCHANGED failures
           ELSE Done(w)
        /\ UNCHANGED << stockVars, docVars >>

(* The line posted for an item: on-hand, and what was reserved for it where  *)
(* that is on the same row.                                                  *)
PostingLine(item, g, qty) ==
    [grain |-> g, type |-> "SALES_RELEASE", qty |-> qty, allowNegative |-> FALSE,
     deltas |-> [EmptyRow EXCEPT !["onHand"] = -qty,
                                 !["reserved"] = IF item.line # NoLine /\ Lots[item.product] = {}
                                                 THEN -qty ELSE 0]]

PostingLines(j) ==
    LET items == Items[j.doc]
        upTo[n \in 0 .. Len(items)] ==
            IF n = 0 THEN << >>
            ELSE IF j.qty[n] > 0 THEN Append(upTo[n - 1], PostingLine(items[n], j.lot[n], j.qty[n]))
            ELSE upTo[n - 1]
    IN  upTo[Len(items)]

(* .. the ledger posts it, answers a key that has posted, or refuses ..      *)
PostToLedger(w) ==
    LET j == job[w]
        cmd == [key |-> j.key, ref |-> j.doc, lines |-> PostingLines(j), reversalOf |-> 0]
    IN  /\ pc[w] = "validated"
        /\ RowsFree(w, { Items[j.doc][i].product : i \in DOMAIN Items[j.doc] })
        /\ \/ /\ KeyedBy(movements, j.key) # {} \/ Post(cmd, j.doc)
              /\ KeyedBy(movements, j.key) # {} => UNCHANGED stockVars
              /\ pc' = [pc EXCEPT ![w] = "posted"]
              /\ UNCHANGED << job, failures >>
           \/ /\ KeyedBy(movements, j.key) = {}
              /\ ~Posted(cmd.lines).ok
              /\ Done(w)
              /\ UNCHANGED stockVars
        /\ UNCHANGED docVars

(* Fault: only the lines just consumed decide on the status. *)
RolledByOwnLines(s, qty, r) ==
    IF \A l \in LinesOf(r) \cap LinesUsed(s, qty) : consumed[l] + Taken(s, qty, l) >= Lines[l].qty
    THEN "CONSUMED" ELSE "PARTIALLY_CONSUMED"

(* .. the second transaction counts what its items consume, reads the other  *)
(* lines of the reservations as committed, and decides on their status ..    *)
Rolled(s, qty, r) ==
    IF \A l \in LinesOf(r) : consumed[l] + Taken(s, qty, l) >= Lines[l].qty
    THEN "CONSUMED" ELSE "PARTIALLY_CONSUMED"

Record(w) ==
    LET j == job[w]
    IN  /\ pc[w] = "posted"
        /\ \A v \in Workers \ {w} :
              pc[v] = "recorded" => /\ job[v].doc # j.doc
                                    /\ LinesUsed(job[v].doc, job[v].qty) \cap LinesUsed(j.doc, j.qty) = {}
        /\ RowsFree(w, { p \in Products : BatchTaken(j.doc, j.qty, p) > 0 })
        /\ job' = [job EXCEPT ![w].rolled =
                       [r \in ReservationsUsed(j.doc, j.qty) |-> Rolled(j.doc, j.qty, r)]]
        /\ pc' = [pc EXCEPT ![w] = "recorded"]
        /\ UNCHANGED << stockVars, docVars, failures >>

(* .. and closes the release.  Nothing is checked again. *)
Close(w) ==
    LET j == job[w]
        s == j.doc
    IN  /\ pc[w] = "recorded"
        /\ consumed' = [l \in LineIds |-> consumed[l] + Taken(s, j.qty, l)]
        /\ resStatus' = [r \in Reservations |->
                            IF r \in DOMAIN j.rolled THEN j.rolled[r] ELSE resStatus[r]]
        /\ relStatus' = [relStatus EXCEPT ![s] = "RELEASED"]
        /\ balance' = WithReserved([p \in Products |-> Reserved(p) - BatchTaken(s, j.qty, p)])
        /\ UNCHANGED << movements, approved >>
        /\ Done(w)

-----------------------------------------------------------------------------
Init ==
    /\ balance = [g \in Grains |-> [EmptyRow EXCEPT !["onHand"] = Opening[g]]]
    /\ movements = << >>
    /\ resStatus = [r \in Reservations |-> "DRAFT"]
    /\ consumed = [l \in LineIds |-> 0]
    /\ relStatus = [s \in Releases |-> InitialReleaseStatus]
    /\ approved = [s \in Releases |->
                      [i \in DOMAIN Items[s] |->
                          IF InitialReleaseStatus = "APPROVED" THEN Items[s][i].qty ELSE 0]]
    /\ pc = [w \in Workers |-> "idle"]
    /\ job = [w \in Workers |-> NoJob]
    /\ failures = 0

Handle(w) ==
    \/ Confirm(w) \/ ReturnReserved(w) \/ Expire(w) \/ Advance(w)
    \/ Validate(w) \/ PostToLedger(w) \/ Record(w) \/ Close(w)

(* A check that is not modelled fails, the connection is lost, the process dies. *)
Fail(w) ==
    /\ pc[w] # "idle"
    /\ failures < MaxFailures
    /\ failures' = failures + 1
    /\ pc' = [pc EXCEPT ![w] = "idle"]
    /\ job' = [job EXCEPT ![w] = NoJob]
    /\ UNCHANGED << stockVars, docVars >>

(* Nobody needs to ask for anything. *)
Quiet == (\A w \in Workers : pc[w] = "idle") /\ UNCHANGED vars

Next ==
    \/ \E w \in Workers, op \in ReservationOps, r \in Reservations : LoadReservation(w, op, r)
    \/ \E w \in Workers, r \in Reservations : FindDue(w, r)
    \/ \E w \in Workers, op \in ReleaseOps, s \in Releases : LoadRelease(w, op, s)
    \/ \E w \in Workers, s \in Releases : \E key \in KeysOf[s] : LoadPost(w, s, key)
    \/ \E w \in Workers : Handle(w) \/ Fail(w)
    \/ Quiet

Spec == Init /\ [][Next]_vars

(* Handlers go on, and the timer of the module - a worker that does nothing  *)
(* else - keeps firing.                                                      *)
Timers == { w \in Workers : OpsOf[w] = {"expire"} }

FairSpec ==
    /\ Spec
    /\ \A w \in Workers : WF_vars(Handle(w))
    /\ \A w \in Timers, r \in Expiring : WF_vars(FindDue(w, r))

-----------------------------------------------------------------------------
(* Properties *)

(* Every variable holds a value of its kind. *)
TypeOK ==
    /\ balance \in [Grains -> Row]
    /\ movements \in Seq(Movement)
    /\ resStatus \in [Reservations -> ReservationStatus]
    /\ consumed \in [LineIds -> Nat]
    /\ relStatus \in [Releases -> ReleaseStatus]
    /\ \A s \in Releases : /\ DOMAIN approved[s] = DOMAIN Items[s]
                           /\ \A i \in DOMAIN Items[s] : approved[s][i] \in 0 .. Items[s][i].qty
    /\ pc \in [Workers -> {"idle", "loaded", "validated", "posted", "recorded"}]
    /\ \A w \in Workers : IF pc[w] = "idle" THEN job[w] = NoJob ELSE job[w] \in JobType
    /\ failures \in 0 .. MaxFailures

(* The stock of s has left and what it consumed is not recorded yet - or     *)
(* never will be, if its handler died and nobody posts it again.             *)
HalfPosted(s) ==
    relStatus[s] # "RELEASED" /\ \E i \in DOMAIN movements : movements[i].ref = s

Unrecorded(l) ==
    SumFunctionOnSet([s \in Releases |-> Taken(s, approved[s], l)], { s \in Releases : HalfPosted(s) })

(* reconcile(): what is reserved of a product is what the active             *)
(* reservations have left of it, less what half-posted releases have taken   *)
(* already - as long as nobody ends those reservations, or releases their    *)
(* lines again, before the half-posted releases are posted to the end.       *)
ReservedHeld ==
    (\A l \in LineIds : Unrecorded(l) > 0 =>
        resStatus[Lines[l].res] \in Active /\ consumed[l] + Unrecorded(l) <= Lines[l].qty)
    => \A p \in Products :
          Reserved(p) =
              SumFunctionOnSet([r \in Reservations |-> Left(r, p, consumed)],
                               { r \in Reservations : resStatus[r] \in Active })
              - SumFunctionOnSet([l \in LineIds |-> Unrecorded(l)],
                                 { l \in LineIds : Lines[l].product = p /\ Lots[p] = {} })

(* "consumedQuantity <= quantity, always." *)
ConsumedWithinQuantity == \A l \in LineIds : consumed[l] <= Lines[l].qty

(* A reservation is CONSUMED when, and only when, nothing of it is left, and *)
(* PARTIALLY_CONSUMED only when something of it was taken.                   *)
StatusTellsConsumption ==
    \A r \in Reservations :
        /\ resStatus[r] = "CONSUMED" <=> \A l \in LinesOf(r) : consumed[l] >= Lines[l].qty
        /\ resStatus[r] = "PARTIALLY_CONSUMED" => \E l \in LinesOf(r) : consumed[l] > 0
        /\ resStatus[r] \in {"DRAFT", "RESERVED"} => \A l \in LinesOf(r) : consumed[l] = 0

(* "CONSUMED/RELEASED/EXPIRED/CANCELLED are terminal." *)
EndedStaysEnded ==
    [][\A r \in Reservations : resStatus[r] \in Terminal => resStatus'[r] = resStatus[r]]_resStatus

(* "A reservation confirm .. can never make available negative", however     *)
(* stale the handler that confirms and whatever else is under way.           *)
ConfirmNeverOversells ==
    [][\A w \in Workers :
          Handling(w, "confirm") /\ pc'[w] = "idle" /\ balance' # balance
          => \A p \in ProductsOf(job[w].doc) : Available(p)' >= 0]_vars

(* The stock of a release leaves at most once under its key, and it has left *)
(* when the release says so, whichever handlers raced, failed or came back.  *)
StockLeavesOnce ==
    \A s \in Releases :
        LET posted == { i \in DOMAIN movements : movements[i].ref = s }
        IN  /\ Cardinality(posted) <= Len(Items[s])
            /\ relStatus[s] = "RELEASED" => posted # {}

(* No physical row and no reserved bucket of a product without lots goes     *)
(* below zero: the ledger's guards and the clamp on what is returned.        *)
RowsNeverNegative ==
    /\ \A g \in Grains : balance[g]["onHand"] >= 0
    /\ \A p \in Products : Lots[p] = {} => Reserved(p) >= 0

(* A reservation past its date does not hold stock for ever. *)
DueReservationsEnd ==
    \A r \in Expiring : resStatus[r] \in Active ~> resStatus[r] \in Terminal
=============================================================================
