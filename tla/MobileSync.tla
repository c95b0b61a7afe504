------------------------------- MODULE MobileSync -------------------------------
(***************************************************************************)
(* Commands captured on a mobile device, kept in its journal until they    *)
(* are synced, and handled by MobileCommandService through the services of *)
(* the documents.  A command has one idempotency key, under which the      *)
(* server keeps one row; it may be sent any number of times, by the tab it *)
(* was captured in, by any tab that drains the journal, and from the inbox *)
(* of conflicts.  A tab waits for one answer at a time and gives up when   *)
(* it likes: the request may be on its way, being handled, or lost.        *)
(*                                                                         *)
(* CONFLICT and REJECTED differ in wording only; both are DECLINED here.   *)
(***************************************************************************)
EXTENDS Warehouse

CONSTANTS
    MobileCommands,
    DocOf,          \* the document of a command: its aggregateId
    PlanOf,         \* the operations of the services that apply it, in order
    MobileKey,      \* the key that the server posts it with
    Payload,        \* the version, tally or quantities it was captured with
    Tabs,
    MaxSends,       \* bound: how often commands are sent
    NoTab           \* nobody waits for the answer

VARIABLES
    local,          \* the state of each command in the journal of the device
    sends,          \* how often one was sent so far
    todo,           \* what each tab has read from the journal and is to submit
    waiting,        \* the command whose answer a tab waits for
    holder,         \* the tab that has the sync lock
    wire,           \* requests on their way: [cmd, tab]
    receipt,        \* apply_status of the row of each command on the server
    caller,         \* the tab that waits for what a worker is at
    rest            \* the operations a worker has still to do for its command

deviceVars == << local, sends, todo, waiting, holder >>
serverVars == << receipt, caller, rest >>
mobileVars == << deviceVars, wire, serverVars >>
allVars == << vars, mobileVars >>

Submittable == {"QUEUED", "FAILED", "BLOCKED"}
Terminal == {"APPLIED", "DECLINED"}

-----------------------------------------------------------------------------
(* The device *)

Free(t) == waiting[t] = NoCommand /\ todo[t] = {} /\ holder # t

(* A worklist offers a document that the first operation of the command can  *)
(* be done on.                                                               *)
Offered(m) ==
    CASE PlanOf[m][1] \in {"dispatch", "receive"} -> status[DocOf[m]] \in TransferFrom[PlanOf[m][1]]
      [] PlanOf[m][1] = "enter" -> status[DocOf[m]] = "COUNTING"
      [] OTHER -> status[DocOf[m]] = "DRAFT"

(* captureCommand, and the first submission in the same tab. *)
Capture(t, m) ==
    /\ Free(t)
    /\ local[m] = "NONE"
    /\ Offered(m)
    /\ local' = [local EXCEPT ![m] = "QUEUED"]
    /\ outdated' = outdated \ {m}
    /\ todo' = [todo EXCEPT ![t] = {m}]
    /\ UNCHANGED << stockVars, units, status, content, workVars, docVars, sends, waiting, holder, wire, serverVars >>

(* syncPending reads the journal once, under the lock .. *)
StartSync(t) ==
    LET pending == { m \in MobileCommands : local[m] \in Submittable }
    IN  /\ Free(t)
        /\ holder = NoTab
        /\ pending # {} /\ sends < MaxSends
        /\ holder' = t
        /\ todo' = [todo EXCEPT ![t] = pending]
        /\ UNCHANGED << vars, local, sends, waiting, wire, serverVars >>

EndSync(t) ==
    /\ holder = t
    /\ todo[t] = {} /\ waiting[t] = NoCommand
    /\ holder' = NoTab
    /\ UNCHANGED << vars, local, sends, todo, waiting, wire, serverVars >>

(* The inbox submits a declined command again, or gives it up. *)
Resubmit(t, m) ==
    /\ Free(t)
    /\ local[m] = "DECLINED" /\ sends < MaxSends
    /\ todo' = [todo EXCEPT ![t] = {m}]
    /\ UNCHANGED << vars, local, sends, waiting, holder, wire, serverVars >>

Discard(m) ==
    /\ local[m] = "DECLINED"
    /\ local' = [local EXCEPT ![m] = "CANCELLED"]
    /\ UNCHANGED << vars, sends, todo, waiting, holder, wire, serverVars >>

(* submitCommand sends what the tab has read, whatever the journal says now. *)
Submit(t) ==
    /\ waiting[t] = NoCommand
    /\ \E m \in todo[t] :
          /\ sends < MaxSends
          /\ sends' = sends + 1
          /\ todo' = [todo EXCEPT ![t] = @ \ {m}]
          /\ waiting' = [waiting EXCEPT ![t] = m]
          /\ local' = [local EXCEPT ![m] = "SYNCING"]
          /\ wire' = wire \cup {[cmd |-> m, tab |-> t]}
    /\ UNCHANGED << vars, holder, serverVars >>

Persist(t, s) ==
    /\ waiting' = [waiting EXCEPT ![t] = NoCommand]
    /\ local' = [local EXCEPT ![waiting[t]] = s]

(* Nobody waits any more for what t has sent. *)
Abandoned(t) == { IF r.tab = t THEN [r EXCEPT !.tab = NoTab] ELSE r : r \in wire }
LeftAlone(t) == [w \in Workers |-> IF caller[w] = t THEN NoTab ELSE caller[w]]

(* No answer in time: the command may have reached the server. *)
GiveUp(t) ==
    /\ waiting[t] # NoCommand
    /\ Persist(t, "QUEUED")
    /\ wire' = Abandoned(t)
    /\ caller' = LeftAlone(t)
    /\ UNCHANGED << vars, sends, todo, holder, receipt, rest >>

(* The answer is an error: its handler has failed. *)
ErrorAnswer(t) ==
    /\ waiting[t] # NoCommand
    /\ \A r \in wire : r.tab # t
    /\ \A w \in Workers : caller[w] # t
    /\ Persist(t, "FAILED")
    /\ UNCHANGED << vars, sends, todo, holder, wire, serverVars >>

(* A tab is closed: the lock is released, the journal stays as it is.        *)
CloseTab(t) ==
    /\ ~Free(t)
    /\ failures < MaxFailures
    /\ failures' = failures + 1
    /\ todo' = [todo EXCEPT ![t] = {}]
    /\ waiting' = [waiting EXCEPT ![t] = NoCommand]
    /\ holder' = IF holder = t THEN NoTab ELSE holder
    /\ wire' = Abandoned(t)
    /\ caller' = LeftAlone(t)
    /\ UNCHANGED << stockVars, units, status, content, outdated, pc, job, docVars, local, sends, receipt, rest >>

-----------------------------------------------------------------------------
(* The server *)

Served(w, m, step) ==
    /\ pc' = [pc EXCEPT ![w] = step]
    /\ job' = [job EXCEPT ![w] = [Idle EXCEPT !.cmd = m]]

ServerUnchanged == UNCHANGED << stockVars, units, status, content, outdated, failures, docVars, deviceVars >>

(* A terminal receipt for the key ends the story. *)
Answers(m) == receipt[m] \in Terminal

(* submit looks the key up ..                                                *)
Accept(w) ==
    /\ pc[w] = "idle"
    /\ \E r \in wire :
          /\ wire' = wire \ {r}
          /\ caller' = [caller EXCEPT ![w] = r.tab]
          /\ IF Answers(r.cmd)
             THEN /\ pc' = [pc EXCEPT ![w] = "answered"]
                  /\ job' = [job EXCEPT ![w] = [Idle EXCEPT !.cmd = r.cmd, !.next = receipt[r.cmd]]]
             ELSE Served(w, r.cmd, IF receipt[r.cmd] = "NONE" THEN "intake" ELSE "applying")
    /\ ServerUnchanged
    /\ UNCHANGED << receipt, rest >>

(* .. and if there is none makes a row, or finds the one just made.          *)
Intake(w) ==
    LET m == job[w].cmd
    IN  /\ pc[w] = "intake"
        /\ receipt' = [receipt EXCEPT ![m] = IF @ = "NONE" THEN "ACKNOWLEDGED" ELSE @]
        /\ Served(w, m, "checking")
        /\ ServerUnchanged
        /\ UNCHANGED << wire, caller, rest >>

Decided(w, outcome) ==
    /\ pc' = [pc EXCEPT ![w] = "answering"]
    /\ job' = [job EXCEPT ![w].next = outcome]

(* The version is compared on the first attempt only. *)
CompareVersion(w) ==
    LET m == job[w].cmd
    IN  /\ pc[w] = "checking"
        /\ IF m \in outdated THEN Decided(w, "DECLINED") ELSE Served(w, m, "applying")
        /\ ServerUnchanged
        /\ UNCHANGED << wire, serverVars >>

(* Fault: a command is as good as applied when its first operation is done.  *)
FirstApplied(m) ==
    LET d == DocOf[m]
    IN  CASE PlanOf[m][1] = "dispatch" -> status[d] # "APPROVED"
          [] PlanOf[m][1] = "receive" -> qtyReceived[d] # NoneOf(Lines(d))
          [] PlanOf[m][1] = "enter" -> counted[d] # << >>
          [] PlanOf[m][1] = "intake" -> d \in receivedAt
          [] OTHER -> d \in postedAt

(* What apply takes as a sign that the command has been applied before. *)
AlreadyApplied(m) ==
    LET d == DocOf[m]
    IN  CASE PlanOf[m][1] = "dispatch" -> status[d] # "APPROVED"
          [] PlanOf[m][1] = "receive" -> qtyReceived[d] # NoneOf(Lines(d))
          [] PlanOf[m][1] = "enter" -> status[d] # "COUNTING"
          [] PlanOf[m][1] = "intake" -> d \in receivedAt
          [] OTHER -> d \in postedAt

(* The service's own checks on the document it loads for an operation.       *)
Loadable(op, m) ==
    LET d == DocOf[m]
    IN  CASE op \in {"dispatch", "receive"} -> MayLoad(op, d)
          [] op \in {"edit", "post"} -> MayLoadReceipt(op, d)
          [] op = "submit" -> status[d] \in CountFrom[op] /\ MaySubmit(d)
          [] op = "enter" -> status[d] \in CountFrom[op]
          [] OTHER -> d \notin receivedAt /\ status[d] = "DRAFT" /\ Receivable(Lines(d), Payload[m])

(* Fault: the key of the command does not reach the ledger.                  *)
UnkeyedJob(op, m) ==
    LET j == IF op = "receive" THEN TransferJob(op, DocOf[m], NoKey) ELSE Job(op, DocOf[m])
    IN  [j EXCEPT !.cmd = m, !.qty = IF op = "intake" THEN Payload[m] ELSE @]

JobFor(op, m) ==
    LET j == IF op = "receive" THEN TransferJob(op, DocOf[m], MobileKey[m])
             ELSE [Job(op, DocOf[m]) EXCEPT !.key = MobileKey[m]]
    IN  [j EXCEPT !.cmd = m, !.qty = IF op = "intake" THEN Payload[m] ELSE @]

(* apply looks at the document once for that ..                              *)
Apply(w) ==
    LET m == job[w].cmd
    IN  /\ pc[w] = "applying"
        /\ Decided(w, "APPLIED")
        /\ rest' = [rest EXCEPT ![w] = IF AlreadyApplied(m) THEN << >> ELSE PlanOf[m]]
        /\ ServerUnchanged
        /\ UNCHANGED << wire, receipt, caller >>

(* A service that finds its operation done answers without doing it again.   *)
DoneBefore(op, m) ==
    LET d == DocOf[m]
    IN  CASE op = "dispatch" -> status[d] = "IN_TRANSIT"
          [] op = "receive" -> status[d] = "RECEIVED"
          [] op = "post" -> d \in postedAt
          [] op = "intake" -> d \in receivedAt
          [] OTHER -> FALSE

(* .. and calls services that look for themselves, one after the other until *)
(* one declines.                                                             *)
GoOn(w) ==
    LET m == job[w].cmd
        op == Head(rest[w])
    IN  /\ pc[w] = "answering"
        /\ rest[w] # << >> /\ job[w].next = "APPLIED"
        /\ \/ /\ Loadable(op, m)
              /\ Begin(w, JobFor(op, m))
              /\ rest' = [rest EXCEPT ![w] = Tail(@)]
           \/ /\ DoneBefore(op, m)
              /\ rest' = [rest EXCEPT ![w] = Tail(@)]
              /\ UNCHANGED baseVars
           \/ /\ ~Loadable(op, m) /\ ~DoneBefore(op, m)
              /\ Decided(w, "DECLINED")
              /\ rest' = [rest EXCEPT ![w] = << >>]
              /\ UNCHANGED << stockVars, units, status, content, outdated, failures >>
        /\ UNCHANGED << docVars, deviceVars, wire, receipt, caller >>

(* persistOutcome writes the row, whatever it says by now. *)
Answer(w) ==
    LET m == job[w].cmd
    IN  /\ pc[w] = "answering"
        /\ rest[w] = << >> \/ job[w].next # "APPLIED"
        /\ receipt' = [receipt EXCEPT ![m] = job[w].next]
        /\ pc' = [pc EXCEPT ![w] = "answered"]
        /\ job' = [job EXCEPT ![w] = [Idle EXCEPT !.cmd = m, !.next = job[w].next]]
        /\ rest' = [rest EXCEPT ![w] = << >>]
        /\ ServerUnchanged
        /\ UNCHANGED << wire, caller >>

(* The answer arrives in the tab, or nowhere. *)
Respond(w) ==
    /\ pc[w] = "answered"
    /\ pc' = [pc EXCEPT ![w] = "idle"]
    /\ job' = [job EXCEPT ![w] = Idle]
    /\ caller' = [caller EXCEPT ![w] = NoTab]
    /\ IF caller[w] = NoTab THEN UNCHANGED << local, waiting >>
       ELSE Persist(caller[w], IF job[w].next = "APPLIED" THEN "SYNCED" ELSE "DECLINED")
    /\ UNCHANGED << stockVars, units, status, content, outdated, failures, docVars, sends, todo, holder,
                    wire, receipt, rest >>

(* A service does its operation with what the command was captured with. *)
FromPayload(w) ==
    LET m == job[w].cmd
    IN  m # NoCommand =>
            /\ At(w, "loaded", "edit") => content'[DocOf[m]] = Payload[m]
            /\ At(w, "loaded", "enter") => counted'[DocOf[m]] = Payload[m]

ServeDocument(w) ==
    /\ Handle(w)
    /\ FromPayload(w)
    /\ UNCHANGED mobileVars

FailRequest(w) ==
    /\ Fail(w)
    /\ caller' = [caller EXCEPT ![w] = NoTab]
    /\ rest' = [rest EXCEPT ![w] = << >>]
    /\ UNCHANGED << docVars, deviceVars, wire, receipt >>

-----------------------------------------------------------------------------
MobileInit ==
    /\ WarehouseInit
    /\ local = [m \in MobileCommands |-> "NONE"]
    /\ sends = 0
    /\ todo = [t \in Tabs |-> {}]
    /\ waiting = [t \in Tabs |-> NoCommand]
    /\ holder = NoTab
    /\ wire = {}
    /\ receipt = [m \in MobileCommands |-> "NONE"]
    /\ caller = [w \in Workers |-> NoTab]
    /\ rest = [w \in Workers |-> << >>]

Device(t) ==
    \/ \E m \in MobileCommands : Capture(t, m) \/ Resubmit(t, m)
    \/ StartSync(t) \/ EndSync(t) \/ Submit(t)
    \/ GiveUp(t) \/ ErrorAnswer(t) \/ CloseTab(t)

Serve(w) ==
    \/ Accept(w) \/ Intake(w) \/ CompareVersion(w) \/ Apply(w) \/ GoOn(w) \/ Answer(w) \/ Respond(w)
    \/ ServeDocument(w) \/ FailRequest(w)

MobileNext ==
    \/ \E t \in Tabs : Device(t)
    \/ \E m \in MobileCommands : Discard(m)
    \/ \E w \in Workers : Serve(w) \/ (Ask(w) /\ UNCHANGED mobileVars)
    \/ Quiet /\ UNCHANGED mobileVars

MobileSpec == MobileInit /\ [][MobileNext]_allVars

-----------------------------------------------------------------------------
(* Properties *)

(* What a command is for has come to pass. *)
Done(m) ==
    LET d == DocOf[m]
    IN  CASE PlanOf[m][1] = "dispatch" -> MovedBy(d) \in {Sent(d), Arrived(d)}
          [] PlanOf[m][1] = "receive" -> MovedBy(d) = Arrived(d)
          [] PlanOf[m][1] = "enter" -> counted[d] = Payload[m] /\ status[d] # "COUNTING"
          [] PlanOf[m][1] = "intake" -> d \in receivedAt
          [] OTHER -> d \in postedAt

(* What the device shows as SYNCED has been done, whichever of its attempts   *)
(* was lost, timed out, crashed on the way or overtaken by another.           *)
SyncedMeansDone ==
    \A m \in MobileCommands : local[m] = "SYNCED" \/ receipt[m] = "APPLIED" => Done(m)
=============================================================================
