------------------------------- MODULE CycleCounts -------------------------------
(***************************************************************************)
(* CycleCountService: tasks to count a row.  Starting a task creates its   *)
(* one count, and links the two in another transaction; posting the count  *)
(* completes the task in another transaction still, with the event that    *)
(* says so.  No operation locks the task it has loaded.                    *)
(***************************************************************************)
EXTENDS Counts

CONSTANT CountOf    \* the count a task has if it is started: cycleCountTaskId is unique

VARIABLES
    linked,         \* the tasks with a physicalCountId
    completions     \* the tasks with a CycleCountCompleted event in the outbox

taskVars == << linked, completions >>

Tasks == { d \in Docs : KindOf[d] = "task" }

ActiveTaskStatuses == {"PENDING", "ASSIGNED", "IN_PROGRESS"}

(* A count refers to one task that exists, and a task to one count. *)
ASSUME CountsAssumption ==
    /\ CountOf \in [Tasks -> Counts]
    /\ CycleCounts \subseteq { CountOf[k] : k \in Tasks }

TaskFrom ==
    [assign |-> {"PENDING", "ASSIGNED"}, start |-> {"PENDING", "ASSIGNED"},
     cancel |-> ActiveTaskStatuses, recount |-> {"COMPLETED"}]

Scope(k) == Lines(CountOf[k])[1].grain

(* The partial unique index: one active task for a row. *)
ScopeFree(k) ==
    \A l \in Tasks \ {k} : Scope(l) = Scope(k) => status[l] \notin ActiveTaskStatuses

NewTask(k) == status[k] = "NONE" /\ ScopeFree(k)

(* generate, of what is due by then, and createAdHocTask. *)
CreateTask(w, k) ==
    /\ pc[w] = "idle"
    /\ "create" \in OpsOf[w]
    /\ NewTask(k)
    /\ Cardinality({ e \in Docs : status[e] # "NONE" }) < MaxDocuments
    /\ status' = [status EXCEPT ![k] = "PENDING"]
    /\ UNCHANGED << stockVars, units, content, outdated, workVars, taskVars, countVars >>

(* A task whose count is posted is not cancelled; next is what is.           *)
LoadTask(w, op, k) ==
    LET c == CountOf[k]
    IN  /\ op \in DOMAIN TaskFrom
        /\ status[k] \in TaskFrom[op]
        /\ op = "cancel" /\ k \in linked => status[c] # "POSTED"
        /\ Start(w, [Job(op, k) EXCEPT !.next = IF op = "cancel" /\ k \in linked /\ status[c] # "CANCELLED"
                                                THEN "count" ELSE "task"])
        /\ UNCHANGED << taskVars, countVars >>

(* The status of the task is written, whatever it is by now, and refused by  *)
(* the index only.                                                           *)
WriteTask(w, s) ==
    LET k == job[w].doc
    IN  IF s \in ActiveTaskStatuses /\ ~ScopeFree(k)
        THEN Refuse(w) /\ UNCHANGED taskVars
        ELSE /\ Advance(w, s)
             /\ linked' = IF s = "IN_PROGRESS" THEN linked \cup {k} ELSE linked
             /\ UNCHANGED completions

AssignTask(w) ==
    /\ At(w, "loaded", "assign")
    /\ WriteTask(w, "ASSIGNED")
    /\ UNCHANGED countVars

(* startTask creates the count; if there is one already, that is adopted. *)
StartCount(w) ==
    LET k == job[w].doc
        c == CountOf[k]
    IN  /\ At(w, "loaded", "start")
        /\ \/ /\ status[c] = "NONE"
              /\ Open(c)
              /\ Goto(w, "linking")
              /\ UNCHANGED << stockVars, units, content, outdated, counted, taskVars >>
           \/ /\ status[c] # "NONE"
              /\ k \notin linked
              /\ WriteTask(w, "IN_PROGRESS")
              /\ UNCHANGED countVars
           \/ /\ status[c] # "NONE"
              /\ k \in linked
              /\ Refuse(w)
              /\ UNCHANGED << taskVars, countVars >>

LinkCount(w) ==
    /\ At(w, "linking", "start")
    /\ WriteTask(w, "IN_PROGRESS")
    /\ UNCHANGED countVars

(* cancelTask cancels the count that was linked when it looked, by cancel of *)
(* CountsService, which looks at the count again.                            *)
CancelTask(w) ==
    /\ At(w, "loaded", "cancel")
    /\ job[w].doc \in Tasks
    /\ CASE job[w].next = "task" -> WriteTask(w, "CANCELLED")
         [] status[CountOf[job[w].doc]] = "POSTED" -> Refuse(w) /\ UNCHANGED taskVars
         [] OTHER -> /\ Goto(w, "withdrawing")
                     /\ UNCHANGED << stockVars, units, status, content, outdated, taskVars >>
    /\ UNCHANGED countVars

WithdrawCount(w) ==
    /\ pc[w] = "withdrawing"
    /\ status' = [status EXCEPT ![CountOf[job[w].doc]] = "CANCELLED"]
    /\ outdated' = outdated \cup CommandsOn[CountOf[job[w].doc]]
    /\ Goto(w, "closing")
    /\ UNCHANGED << stockVars, units, content, taskVars, countVars >>

CloseTask(w) ==
    /\ pc[w] = "closing"
    /\ WriteTask(w, "CANCELLED")
    /\ UNCHANGED countVars

(* recount makes a new task for the row, and starts it; unless there is an   *)
(* active one (or, a bound, no other task is left to make).                  *)
Recount(w) ==
    LET again == { k \in Tasks : NewTask(k) /\ Scope(k) = Scope(job[w].doc) }
    IN  /\ At(w, "loaded", "recount")
        /\ \/ \E k \in again :
                 /\ status' = [status EXCEPT ![k] = "PENDING"]
                 /\ job' = [job EXCEPT ![w] = Job("start", k)]
                 /\ UNCHANGED << stockVars, units, content, outdated, pc, failures >>
           \/ again = {} /\ Refuse(w)
        /\ UNCHANGED << taskVars, countVars >>

(* The last transaction of a count's posting: the task and its event.        *)
CompleteTask(w) ==
    LET k == CHOOSE l \in Tasks : CountOf[l] = job[w].doc
    IN  /\ pc[w] = "completing"
        /\ status' = [status EXCEPT ![k] = "COMPLETED"]
        /\ completions' = completions \cup {k}
        /\ Finish(w, "APPLIED")
        /\ UNCHANGED << stockVars, units, content, outdated, linked, countVars >>

TaskStep(w) ==
    \/ AssignTask(w) \/ StartCount(w) \/ LinkCount(w) \/ Recount(w) \/ CompleteTask(w)
    \/ CancelTask(w) \/ WithdrawCount(w) \/ CloseTask(w)
=============================================================================
