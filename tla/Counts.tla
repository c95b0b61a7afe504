--------------------------------- MODULE Counts ---------------------------------
(***************************************************************************)
(* CountsService: what the ledger and the registry expect of some rows is  *)
(* written down when a count is created; what is found is entered beside   *)
(* it, and the difference posted once the count is approved.  An item is   *)
(* [grain, units], with no units of its own; what a row holds, and what is *)
(* seen there, is [qty, units].  Of a serialized row units are compared,   *)
(* of any other the quantity.                                              *)
(***************************************************************************)
EXTENDS Adjustments

CONSTANTS
    Tallies,     \* what may be found on the rows of a count
    CycleCounts  \* the counts that belong to a cycle-count task

VARIABLES
    expected,    \* system_qty and expected_serials of each item of a count
    counted      \* counted_qty and observed_serials; << >> before they are entered

countVars == << expected, counted >>

Counts == { d \in Docs : KindOf[d] = "count" }

(* What is entered says something of at least one row; there may be nothing   *)
(* there.                                                                     *)
ASSUME TalliesAssumption ==
    \A c \in Counts :
        /\ << >> \notin Tallies[c]
        /\ \A v \in DOMAIN Versions[c] : \A i \in DOMAIN Versions[c][v] :
              /\ Versions[c][v][i].grain \in Grains
              /\ \A tally \in Tallies[c] : tally[i].qty \in Nat /\ IsFiniteSet(tally[i].units)

CountStatus == {"COUNTING", "REVIEW", "APPROVED", "POSTED", "CANCELLED"}

CountFrom ==
    [enter |-> {"COUNTING"}, submit |-> {"COUNTING"}, approve |-> {"REVIEW"},
     post |-> {"APPROVED"}, cancel |-> CountStatus \ {"POSTED"}]
CountTo == [submit |-> "REVIEW", approve |-> "APPROVED", cancel |-> "CANCELLED"]

(* The rows of a count as they are now. *)
OnTheBooks(c) ==
    [i \in DOMAIN Lines(c) |->
        LET g == Lines(c)[i].grain
        IN  [qty |-> balance[g]["onHand"],
             units |-> { u \in Units : units[u] = [status |-> "IN_STOCK", at |-> g] }]]

Open(c) ==
    /\ status' = [status EXCEPT ![c] = "COUNTING"]
    /\ expected' = [expected EXCEPT ![c] = OnTheBooks(c)]

CreateCount(w, c) ==
    /\ pc[w] = "idle"
    /\ "create" \in OpsOf[w]
    /\ c \notin CycleCounts
    /\ status[c] = "NONE"
    /\ Cardinality({ e \in Docs : status[e] # "NONE" }) < MaxDocuments
    /\ Open(c)
    /\ UNCHANGED << stockVars, units, content, outdated, workVars, counted >>

(* What the books are short of and what they have too much of, item by item:  *)
(* the lines of an adjustment.                                                *)
Difference(items, books, found) ==
    LET line(type, g, n, S) ==
            IF n > 0 THEN << [grain |-> g, type |-> type, qty |-> n, units |-> S] >> ELSE << >>
        loss(g, n, S) == line("STOCK_ADJUSTMENT_OUT", g, n, S)
        find(g, n, S) == line("STOCK_ADJUSTMENT_IN", g, n, S)
        item(i) ==
            LET g == items[i].grain
                missing == books[i].units \ found[i].units
                extra == found[i].units \ books[i].units
            IN  IF g \in Serialized
                THEN loss(g, Cardinality(missing), missing) \o find(g, Cardinality(extra), extra)
                ELSE loss(g, books[i].qty - found[i].qty, {}) \o find(g, found[i].qty - books[i].qty, {})
    IN  IF found = << >> THEN << >> ELSE FlattenSeq([i \in DOMAIN items |-> item(i)])

Variance(c) == Difference(Lines(c), expected[c], counted[c])

(* Fault: a count is submitted that nobody has counted. *)
MaySubmitAny(c) == TRUE

MaySubmit(c) == counted[c] # << >>

(* A count that found nothing moves nothing, and uses no key. *)
LoadCount(w, op, c) ==
    /\ op \in DOMAIN CountFrom
    /\ status[c] \in CountFrom[op]
    /\ op = "submit" => MaySubmit(c)
    /\ \E key \in KeysOf[c][op] :
          Start(w, [Job(op, c) EXCEPT !.key = IF Variance(c) = << >> THEN NoKey ELSE key,
                                      !.lines = Variance(c), !.units = UnitsOf(Variance(c))])
    /\ UNCHANGED countVars

(* Nothing but the statuses that were loaded keeps this from a posted count. *)
EnterCounts(w) ==
    LET c == job[w].doc
    IN  /\ At(w, "loaded", "enter")
        /\ c \in Counts
        /\ \E tally \in Tallies[c] : counted' = [counted EXCEPT ![c] = tally]
        /\ Finish(w, "APPLIED")
        /\ UNCHANGED << stockVars, units, status, content, outdated, expected >>

AdvanceCount(w) ==
    /\ pc[w] = "loaded"
    /\ job[w].doc \in Counts
    /\ job[w].op \in DOMAIN CountTo
    /\ Advance(w, CountTo[job[w].op])
    /\ UNCHANGED countVars

-----------------------------------------------------------------------------
PostCount(w) ==
    /\ At(w, "loaded", "post")
    /\ job[w].doc \in Counts
    /\ Enter(w, AdjustmentLines(job[w].lines), UnitsAdjustable(job[w].lines))
    /\ UNCHANGED countVars

(* A cycle count has another transaction to come, which completes its task.  *)
CloseCount(w) ==
    LET j == job[w]
    IN  /\ At(w, "posting", "post")
        /\ j.doc \in Counts
        /\ Post(CommandOf(j, AdjustmentLines(j.lines)), j.doc)
        /\ units' = UnitsAdjusted(j.lines)
        /\ Write(w, "POSTED")
        /\ IF j.doc \in CycleCounts THEN Goto(w, "completing") ELSE Finish(w, "APPLIED")
        /\ UNCHANGED << content, countVars >>

CountStep(w) == EnterCounts(w) \/ AdvanceCount(w) \/ PostCount(w) \/ CloseCount(w)
=============================================================================
