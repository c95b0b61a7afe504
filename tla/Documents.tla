------------------------------- MODULE Documents -------------------------------
(***************************************************************************)
(* What the services of transfers, receipts, adjustments, returns and      *)
(* counts have in common.  A handler loads its document outside any        *)
(* transaction, decides on what it loaded, and writes the status without   *)
(* asking what has become of it.  Stock moves in one of two ways: in a     *)
(* transaction of the ledger's own, followed by another that records it on *)
(* the document (Take, Look, and the caller's commit), or in the           *)
(* document's transaction (Enter and the caller's commit).                 *)
(*                                                                         *)
(* Every posting updates the one number-sequence row of the organisation   *)
(* and keeps it to its commit: between Enter and commit no other stock     *)
(* moves.                                                                  *)
(***************************************************************************)
EXTENDS Serials

CONSTANTS
    Docs,
    KindOf,       \* "transfer", "receipt", "adjustment", "return", "count" or "task"
    Versions,     \* what the items of a document can be, as editing goes
    KeysOf,       \* the keys that requests to post a document come with
    NoDoc,        \* no document: what an idle worker works on
    CommandsOn,   \* the mobile commands for each document that carry its updated_at
    NoCommand,    \* a request that no mobile command is behind
    Users,
    Workers,
    OpsOf,        \* what each worker is asked to do
    MayOverlap,   \* operations that may be under way on one document at a time, by kind
    ShareUnits,   \* whether documents that name the same unit may be under way at a time
    MaxDocuments, \* bound: documents there may be for another to be created
    MaxFailures   \* bound: handlers that fail or die half-way

ASSUME DocumentsAssumption ==
    /\ IsFiniteSet(Docs) /\ NoDoc \notin Docs /\ NoDeltas \notin Row
    /\ \A d \in Docs :
          /\ KindOf[d] \in {"transfer", "receipt", "adjustment", "return", "count", "task"}
          /\ 1 \in DOMAIN Versions[d]
          /\ \A c \in DOMAIN Versions[d] : Versions[d][c] \in Seq(ToSet(Versions[d][c]))

VARIABLES
    status,       \* of each document; NONE before it is created
    content,      \* which of its versions its items are
    outdated,     \* documents whose updated_at has moved
    pc,           \* where each worker is in its handler
    job,          \* what it handles and what it has read
    failures      \* handlers that failed so far

stockVars == << balance, movements >>
workVars == << pc, job, failures >>
baseVars == << balance, movements, units, status, content, outdated, pc, job, failures >>

Lines(d) == Versions[d][content[d]]
UnitsOf(lines) == UNION { lines[i].units : i \in DOMAIN lines }

(* The quantities of items of which nothing has been handled yet. *)
NoneOf(lines) == [i \in DOMAIN lines |-> 0]

Idle == [op |-> "none", doc |-> NoDoc, by |-> NoDoc, cmd |-> NoCommand, key |-> NoKey,
         next |-> "none", lines |-> << >>, qty |-> << >>, line |-> 0, units |-> {}]

(* load(): the request, and the document as it is now. *)
Job(op, d) == [Idle EXCEPT !.op = op, !.doc = d, !.lines = Lines(d), !.units = UnitsOf(Lines(d))]

-----------------------------------------------------------------------------
(* Handlers *)

MayStart(w, j) ==
    \A v \in Workers \ {w} :
        IF job[v].doc = j.doc THEN {job[v].op, j.op} \subseteq MayOverlap[KindOf[j.doc]]
        ELSE job[v].units \cap j.units # {} => ShareUnits

(* A request that has got as far as to decide to go on. *)
Begin(w, j) ==
    /\ MayStart(w, j)
    /\ pc' = [pc EXCEPT ![w] = "loaded"]
    /\ job' = [job EXCEPT ![w] = j]
    /\ UNCHANGED << stockVars, units, status, content, outdated, failures >>

Start(w, j) == pc[w] = "idle" /\ j.op \in OpsOf[w] /\ Begin(w, j)

At(w, step, op) == pc[w] = step /\ job[w].op = op

Goto(w, step) ==
    /\ pc' = [pc EXCEPT ![w] = step]
    /\ UNCHANGED << job, failures >>

(* The caller is answered; a mobile command has its outcome written first.   *)
Finish(w, outcome) ==
    /\ IF job[w].cmd = NoCommand
       THEN /\ pc' = [pc EXCEPT ![w] = "idle"]
            /\ job' = [job EXCEPT ![w] = Idle]
       ELSE /\ pc' = [pc EXCEPT ![w] = "answering"]
            /\ job' = [job EXCEPT ![w].next = outcome]
    /\ UNCHANGED failures

Reply(w, outcome) ==
    /\ Finish(w, outcome)
    /\ UNCHANGED << stockVars, units, status, content, outdated >>

Refuse(w) == Reply(w, "DECLINED")

Write(w, s) ==
    /\ status' = [status EXCEPT ![job[w].doc] = s]
    /\ outdated' = outdated \cup CommandsOn[job[w].doc]

(* create: a draft with some items. *)
Create(w, d) ==
    /\ pc[w] = "idle"
    /\ "create" \in OpsOf[w]
    /\ status[d] = "NONE"
    /\ Cardinality({ e \in Docs : status[e] # "NONE" }) < MaxDocuments
    /\ status' = [status EXCEPT ![d] = "DRAFT"]
    /\ \E c \in DOMAIN Versions[d] : content' = [content EXCEPT ![d] = c]
    /\ UNCHANGED << stockVars, units, outdated, workVars >>

(* submit, approve, reject and cancel: the status is written, whatever it is *)
(* by now.                                                                   *)
Advance(w, to) ==
    /\ Write(w, to)
    /\ Finish(w, "APPLIED")
    /\ UNCHANGED << stockVars, units, content >>

(* update: the items of what was a draft when it was loaded are replaced.    *)
(* They are rows that a transaction recording on them has locked.            *)
Edit(w) ==
    LET d == job[w].doc
    IN  /\ At(w, "loaded", "edit")
        /\ \A v \in Workers : ~(pc[v] = "recording" /\ job[v].doc = d)
        /\ \E c \in DOMAIN Versions[d] : content' = [content EXCEPT ![d] = c]
        /\ Write(w, status[d])
        /\ Finish(w, "APPLIED")
        /\ UNCHANGED << stockVars, units >>

-----------------------------------------------------------------------------
(* Posting *)

SequenceFree(w) == \A v \in Workers \ {w} : pc[v] # "posting"

CommandOf(j, lines) == [key |-> j.key, ref |-> j.doc, lines |-> lines, reversalOf |-> 0]

(* The ledger has posted the key before, and answers with what it posted. *)
Answered(cmd) == KeyedBy(movements, cmd.key) # {}

(* A command of the ledger: posted, answered or refused. *)
Take(w, lines) ==
    LET cmd == CommandOf(job[w], lines)
    IN  /\ SequenceFree(w)
        /\ \/ /\ Answered(cmd)
              /\ Goto(w, "posted")
              /\ UNCHANGED << stockVars, units, status, content, outdated >>
           \/ /\ ~Answered(cmd)
              /\ Post(cmd, job[w].doc)
              /\ Goto(w, "posted")
              /\ UNCHANGED << units, status, content, outdated >>
           \/ /\ ~Answered(cmd)
              /\ ~Posted(lines).ok
              /\ Refuse(w)

(* The transaction that records a posting locks the items, which must be the *)
(* ones that were loaded, and then looks at the units; or it is undone.      *)
Look(w, unitsFit) ==
    /\ pc[w] = "posted"
    /\ \A v \in Workers \ {w} : ~(pc[v] \in {"recording", "posting"} /\ job[v].doc = job[w].doc)
    /\ \/ /\ job[w].lines = Lines(job[w].doc) /\ unitsFit
          /\ Goto(w, "recording")
          /\ UNCHANGED << stockVars, units, status, content, outdated >>
       \/ /\ ~(job[w].lines = Lines(job[w].doc) /\ unitsFit)
          /\ Refuse(w)

(* A document's transaction that posts its lines, as far as the last look:   *)
(* the lines are admissible, the key is new, the units are as expected.  If  *)
(* the key is not, the document is found posted, and that is the answer.     *)
Enter(w, lines, unitsFit) ==
    LET fits == ~Answered(CommandOf(job[w], lines)) /\ Posted(lines).ok /\ unitsFit
    IN  /\ SequenceFree(w)
        /\ \/ /\ fits
              /\ Goto(w, "posting")
              /\ UNCHANGED << stockVars, units, status, content, outdated >>
           \/ /\ ~fits
              /\ Reply(w, IF Answered(CommandOf(job[w], lines)) THEN "APPLIED" ELSE "DECLINED")

-----------------------------------------------------------------------------
(* A check that is not modelled fails, the connection is lost, the process dies. *)
Fail(w) ==
    /\ pc[w] # "idle"
    /\ failures < MaxFailures
    /\ failures' = failures + 1
    /\ pc' = [pc EXCEPT ![w] = "idle"]
    /\ job' = [job EXCEPT ![w] = Idle]
    /\ UNCHANGED << stockVars, units, status, content, outdated >>

-----------------------------------------------------------------------------
(* Sums over the journal *)

(* What document d has moved so far, by row and bucket. *)
MovedBy(d) ==
    [g \in Grains |-> [b \in Buckets |->
        SumFunctionOnSet([i \in DOMAIN movements |-> movements[i].delta[b]],
                         { i \in DOMAIN movements : movements[i].ref = d /\ movements[i].grain = g })]]

(* What lines would move. *)
EffectOf(lines) ==
    [g \in Grains |-> [b \in Buckets |->
        SumFunctionOnSet([i \in DOMAIN lines |-> LineDeltas(lines[i])[b]],
                         { i \in DOMAIN lines : lines[i].grain = g })]]
=============================================================================
