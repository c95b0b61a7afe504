------------------------------- MODULE OutboxRelay -------------------------------
(***************************************************************************)
(* The transactional outbox: events committed with the domain transaction  *)
(* that caused them, and the relay that hands each to its consumers.       *)
(*                                                                         *)
(* A worker is the poller of one API process.  It claims a batch of rows   *)
(* under a lease (one transaction, FOR UPDATE SKIP LOCKED) and then        *)
(* dispatches the events of the batch one by one, on what it read when it  *)
(* claimed them; every statement of a dispatch is a transaction of its own *)
(* and its writes do not ask whether the lease is still the worker's.      *)
(* The clock is abstracted to what it decides: whether a row is due and    *)
(* whether its lease has run out.                                          *)
(***************************************************************************)
EXTENDS Integers, FiniteSets, Sequences

CONSTANTS
    Events,
    Consumers,     \* consumersFor: the consumers of an event, in order of registration
    MayAbstain,    \* consumers that may find that they have nothing to do for an event
    Poison,        \* <<consumer, event>>: the consumer throws whenever it gets the event
    Workers,
    BatchSize,
    MaxAttempts,
    NoEvent,       \* a worker that is between two events
    MaxThrows,     \* bound: transient errors of consumers and of the database
    MaxCrashes,    \* bound: workers that die, or abandon their batch
    MaxOverruns,   \* bound: events whose lease runs out while their worker is alive
    MaxRetries     \* bound: events that an operator retries

ConsumerSet == { Consumers[i] : i \in DOMAIN Consumers }

ASSUME RelayAssumption ==
    /\ NoEvent \notin Events
    /\ Consumers \in Seq(ConsumerSet)
    /\ IsFiniteSet(Events)
    /\ BatchSize \in Nat \ {0}
    /\ MaxAttempts \in Nat \ {0}
    /\ {MaxThrows, MaxCrashes, MaxOverruns, MaxRetries} \subseteq Nat

VARIABLES
    status,        \* outbox_events.status; "none" before the event is committed
    due,           \* whether available_at has arrived
    lease,         \* whether lease_expires_at is "none", still "live" or "expired"
    attempts,      \* attempt_count
    receipts,      \* consumer_receipts: <<consumer, event>>
    effects,       \* how often each consumer has taken effect for each event
    batch,         \* the events a worker has claimed and not finished
    seen,          \* their attempt_count, as it was claimed
    now,           \* the event a worker is dispatching
    at,            \* the consumer it is at
    step,          \* what it does next
    retrying,      \* retry requests that have checked the status
    begun,         \* attempts that were begun (history)
    overran,       \* events whose lease ran out on a live worker (history)
    retried,       \* events that were retried by hand (history)
    throws, crashes

rowVars == << status, due, lease, attempts >>
deliveryVars == << receipts, effects >>
workerVars == << batch, seen, now, at, step >>
historyVars == << retrying, begun, overran, retried, throws, crashes >>
vars == << status, due, lease, attempts, receipts, effects, batch, seen, now, at, step,
           retrying, begun, overran, retried, throws, crashes >>

Status == {"none", "PENDING", "PROCESSING", "PUBLISHED", "FAILED", "DEAD_LETTER"}
Settled == {"PUBLISHED", "DEAD_LETTER"}

Holders(e) == { w \in Workers : e \in batch[w] }

-----------------------------------------------------------------------------
(* enqueue in the transaction of the domain fact, which its dedupe key and   *)
(* the fact's own uniqueness let happen once.                                *)
Enqueue(e) ==
    /\ status[e] = "none"
    /\ status' = [status EXCEPT ![e] = "PENDING"]
    /\ due' = [due EXCEPT ![e] = TRUE]
    /\ UNCHANGED << lease, attempts, deliveryVars, workerVars, historyVars >>

(* Fault: a row that is PROCESSING is never claimed again. *)
EligibleUnleased(e) == status[e] \in {"PENDING", "FAILED"} /\ due[e]
(* Fault: the lease is not looked at. *)
EligibleAnyLease(e) ==
    \/ status[e] \in {"PENDING", "FAILED"} /\ due[e]
    \/ status[e] = "PROCESSING"

Eligible(e) ==
    \/ status[e] \in {"PENDING", "FAILED"} /\ due[e]
    \/ status[e] = "PROCESSING" /\ lease[e] = "expired"

(* claim: rows that another claim has locked are passed over, so any of the  *)
(* eligible ones may make the batch.                                         *)
Claim(w) ==
    /\ batch[w] = {}
    /\ \E claimed \in SUBSET { e \in Events : Eligible(e) } :
          /\ claimed # {} /\ Cardinality(claimed) <= BatchSize
          /\ batch' = [batch EXCEPT ![w] = claimed]
          /\ seen' = [seen EXCEPT ![w] = [e \in Events |-> IF e \in claimed THEN attempts[e] ELSE 0]]
          /\ status' = [e \in Events |-> IF e \in claimed THEN "PROCESSING" ELSE status[e]]
          /\ lease' = [e \in Events |-> IF e \in claimed THEN "live" ELSE lease[e]]
    /\ UNCHANGED << due, attempts, deliveryVars, now, at, step, historyVars >>

-----------------------------------------------------------------------------
(* dispatch *)

Goto(w, s) == step' = [step EXCEPT ![w] = s]

(* The number of the attempt counts from the row as it was claimed. *)
Attempt(w, e) == seen[w][e] + 1

Begin(w, e) ==
    /\ now[w] = NoEvent
    /\ e \in batch[w]
    /\ now' = [now EXCEPT ![w] = e]
    /\ at' = [at EXCEPT ![w] = 1]
    /\ Goto(w, "check")
    /\ attempts' = [attempts EXCEPT ![e] = Attempt(w, e)]
    /\ begun' = [begun EXCEPT ![e] = @ + 1]
    /\ UNCHANGED << status, due, lease, deliveryVars, batch, seen, retrying, overran, retried, throws, crashes >>

(* receipts.has: a consumer with a receipt is skipped. *)
Check(w) ==
    /\ step[w] = "check" /\ at[w] \in DOMAIN Consumers
    /\ IF << Consumers[at[w]], now[w] >> \in receipts
       THEN at' = [at EXCEPT ![w] = @ + 1] /\ UNCHANGED step
       ELSE Goto(w, "handle") /\ UNCHANGED at
    /\ UNCHANGED << rowVars, deliveryVars, batch, seen, now, historyVars >>

(* Fault: the effect of a consumer has no unique key. *)
InsertAnyway(c, e) == effects' = [effects EXCEPT ![c][e] = @ + 1]

(* The consumer's transaction inserts under a unique key; to find it taken   *)
(* is to be done.                                                            *)
TakeEffect(c, e) == effects' = [effects EXCEPT ![c][e] = IF @ = 0 THEN 1 ELSE @]

Handle(w) ==
    LET c == Consumers[at[w]]
    IN  /\ step[w] = "handle"
        /\ << c, now[w] >> \notin Poison
        /\ TakeEffect(c, now[w]) \/ (c \in MayAbstain /\ UNCHANGED effects)
        /\ Goto(w, "record")
        /\ UNCHANGED << rowVars, receipts, batch, seen, now, at, historyVars >>

(* Fault: the error of a consumer is swallowed. *)
AfterSwallowedError == "record"
AfterError == "failed"

HandlePoison(w) ==
    /\ step[w] = "handle"
    /\ << Consumers[at[w]], now[w] >> \in Poison
    /\ Goto(w, AfterError)
    /\ UNCHANGED << rowVars, deliveryVars, batch, seen, now, at, historyVars >>

(* receipts.record: a duplicate is no error. *)
Record(w) ==
    /\ step[w] = "record"
    /\ receipts' = receipts \cup { << Consumers[at[w]], now[w] >> }
    /\ at' = [at EXCEPT ![w] = @ + 1]
    /\ Goto(w, "check")
    /\ UNCHANGED << rowVars, effects, batch, seen, now, historyVars >>

(* Fault: the worker goes on with an event that is finished. *)
FinishStillThere(w, s) ==
    /\ status' = [status EXCEPT ![now[w]] = s]
    /\ lease' = [lease EXCEPT ![now[w]] = "none"]
    /\ batch' = [batch EXCEPT ![w] = @ \ {now[w]}]
    /\ seen' = [seen EXCEPT ![w][now[w]] = 0]
    /\ Goto(w, "idle")
    /\ UNCHANGED << now, at, attempts, deliveryVars, historyVars >>

(* The event of w is finished, with the row in the status given. *)
Finish(w, s) ==
    /\ status' = [status EXCEPT ![now[w]] = s]
    /\ lease' = [lease EXCEPT ![now[w]] = "none"]
    /\ batch' = [batch EXCEPT ![w] = @ \ {now[w]}]
    /\ seen' = [seen EXCEPT ![w][now[w]] = 0]
    /\ now' = [now EXCEPT ![w] = NoEvent]
    /\ at' = [at EXCEPT ![w] = 1]
    /\ Goto(w, "idle")
    /\ UNCHANGED << attempts, deliveryVars, historyVars >>

Publish(w) ==
    /\ step[w] = "check" /\ at[w] \notin DOMAIN Consumers
    /\ Finish(w, "PUBLISHED")
    /\ UNCHANGED due

(* A consumer, or the database inside the try block, throws this once. *)
Throw(w) ==
    /\ step[w] \in {"check", "handle", "record"}
    /\ throws < MaxThrows
    /\ throws' = throws + 1
    /\ Goto(w, AfterError)
    /\ UNCHANGED << rowVars, deliveryVars, batch, seen, now, at, retrying, begun, overran, retried, crashes >>

(* Fault: one attempt too few. *)
ExhaustedEarly(w) == seen[w][now[w]] + 2 >= MaxAttempts

(* The number of the attempt, not the row, tells whether it was the last. *)
Exhausted(w) == Attempt(w, now[w]) >= MaxAttempts

Backoff(w) ==
    /\ step[w] = "failed"
    /\ ~Exhausted(w)
    /\ due' = [due EXCEPT ![now[w]] = FALSE]
    /\ Finish(w, "FAILED")

DeadLetter(w) ==
    /\ step[w] = "failed"
    /\ Exhausted(w)
    /\ Finish(w, "DEAD_LETTER")
    /\ UNCHANGED due

(* The process dies; or a statement outside the try block throws and what is *)
(* left of the batch is abandoned.                                           *)
Crash(w) ==
    /\ batch[w] # {}
    /\ crashes < MaxCrashes
    /\ crashes' = crashes + 1
    /\ batch' = [batch EXCEPT ![w] = {}]
    /\ seen' = [seen EXCEPT ![w] = [e \in Events |-> 0]]
    /\ now' = [now EXCEPT ![w] = NoEvent]
    /\ at' = [at EXCEPT ![w] = 1]
    /\ Goto(w, "idle")
    /\ UNCHANGED << rowVars, deliveryVars, retrying, begun, overran, retried, throws >>

-----------------------------------------------------------------------------
(* The clock *)

Expire(e) ==
    /\ status[e] = "PROCESSING" /\ lease[e] = "live"
    /\ lease' = [lease EXCEPT ![e] = "expired"]

(* The lease of a worker that is gone runs out .. *)
LeaseRunsOut(e) ==
    /\ Holders(e) = {}
    /\ Expire(e)
    /\ UNCHANGED << status, due, attempts, deliveryVars, workerVars, historyVars >>

(* .. and so may the lease of one that is slow: it is for the whole batch. *)
LeaseOverruns(e) ==
    /\ Holders(e) # {} /\ e \notin overran
    /\ Cardinality(overran) < MaxOverruns
    /\ Expire(e)
    /\ overran' = overran \cup {e}
    /\ UNCHANGED << status, due, attempts, deliveryVars, workerVars, retrying, begun, retried, throws, crashes >>

BecomesDue(e) ==
    /\ status[e] = "FAILED" /\ ~due[e]
    /\ due' = [due EXCEPT ![e] = TRUE]
    /\ UNCHANGED << status, lease, attempts, deliveryVars, workerVars, historyVars >>

-----------------------------------------------------------------------------
(* retry by an operator: the status is checked, then the row is written. *)
CheckRetry(e) ==
    /\ status[e] \in {"FAILED", "DEAD_LETTER"}
    /\ e \notin retried
    /\ Cardinality(retried) < MaxRetries
    /\ retrying' = retrying \cup {e}
    /\ retried' = retried \cup {e}
    /\ UNCHANGED << rowVars, deliveryVars, workerVars, begun, overran, throws, crashes >>

Retry(e) ==
    /\ e \in retrying
    /\ retrying' = retrying \ {e}
    /\ status' = [status EXCEPT ![e] = "PENDING"]
    /\ due' = [due EXCEPT ![e] = TRUE]
    /\ lease' = [lease EXCEPT ![e] = "none"]
    /\ UNCHANGED << attempts, deliveryVars, workerVars, begun, overran, retried, throws, crashes >>

-----------------------------------------------------------------------------
Init ==
    /\ status = [e \in Events |-> "none"]
    /\ due = [e \in Events |-> FALSE]
    /\ lease = [e \in Events |-> "none"]
    /\ attempts = [e \in Events |-> 0]
    /\ receipts = {}
    /\ effects = [c \in ConsumerSet |-> [e \in Events |-> 0]]
    /\ batch = [w \in Workers |-> {}]
    /\ seen = [w \in Workers |-> [e \in Events |-> 0]]
    /\ now = [w \in Workers |-> NoEvent]
    /\ at = [w \in Workers |-> 1]
    /\ step = [w \in Workers |-> "idle"]
    /\ retrying = {}
    /\ begun = [e \in Events |-> 0]
    /\ overran = {}
    /\ retried = {}
    /\ throws = 0 /\ crashes = 0

Dispatch(w) ==
    \/ \E e \in Events : Begin(w, e)
    \/ Check(w) \/ Handle(w) \/ HandlePoison(w) \/ Record(w)
    \/ Publish(w) \/ Backoff(w) \/ DeadLetter(w)

(* Every poll comes back empty. *)
Quiet ==
    /\ \A e \in Events : status[e] \in Settled
    /\ \A w \in Workers : batch[w] = {}
    /\ UNCHANGED vars

Next ==
    \/ Quiet
    \/ \E w \in Workers : Claim(w) \/ Dispatch(w) \/ Throw(w) \/ Crash(w)
    \/ \E e \in Events :
          \/ Enqueue(e) \/ LeaseRunsOut(e) \/ LeaseOverruns(e) \/ BecomesDue(e)
          \/ CheckRetry(e) \/ Retry(e)

Spec == Init /\ [][Next]_vars

(* Pollers tick and go on with their batch, and time passes. *)
FairSpec ==
    /\ Spec
    /\ \A w \in Workers : WF_vars(Claim(w)) /\ WF_vars(Dispatch(w))
    /\ \A e \in Events : WF_vars(LeaseRunsOut(e)) /\ WF_vars(BecomesDue(e)) /\ WF_vars(Retry(e))

-----------------------------------------------------------------------------
(* Properties *)

(* Every variable holds a value of its kind; a worker is at an event of its  *)
(* batch, and at a consumer while it has business with one.                  *)
TypeOK ==
    /\ status \in [Events -> Status]
    /\ due \in [Events -> BOOLEAN]
    /\ lease \in [Events -> {"none", "live", "expired"}]
    /\ attempts \in [Events -> Nat] /\ begun \in [Events -> Nat]
    /\ receipts \subseteq ConsumerSet \X Events
    /\ effects \in [ConsumerSet -> [Events -> Nat]]
    /\ batch \in [Workers -> SUBSET Events]
    /\ seen \in [Workers -> [Events -> Nat]]
    /\ now \in [Workers -> Events \cup {NoEvent}]
    /\ at \in [Workers -> 1 .. Len(Consumers) + 1]
    /\ step \in [Workers -> {"idle", "check", "handle", "record", "failed"}]
    /\ \A w \in Workers : /\ step[w] = "idle" <=> now[w] = NoEvent
                          /\ now[w] # NoEvent => now[w] \in batch[w]
                          /\ step[w] \in {"handle", "record"} => at[w] \in DOMAIN Consumers
    /\ {retrying, overran, retried} \subseteq SUBSET Events
    /\ {throws, crashes} \subseteq Nat

(* "Consumer idempotency prevents duplicate side effects": however often an  *)
(* event is delivered - after a crash between effect and receipt, by two     *)
(* workers at once, by hand - a consumer takes effect at most once.          *)
EffectOnce == \A c \in ConsumerSet, e \in Events : effects[c][e] <= 1

(* PUBLISHED means that every consumer got the event, and a consumer that    *)
(* has a receipt took its effect.                                            *)
PublishedWasDelivered ==
    \A e \in Events, c \in ConsumerSet :
        /\ status[e] = "PUBLISHED" => << c, e >> \in receipts
        /\ << c, e >> \in receipts => effects[c][e] = 1 \/ c \in MayAbstain

(* An event is not given up before its attempts are used up, although stale  *)
(* workers overwrite the count.                                              *)
NotGivenUpEarly ==
    \A e \in Events : status[e] = "DEAD_LETTER" => begun[e] >= MaxAttempts

(* "Two concurrent workers never claim the same row": an event is in two     *)
(* workers' hands only after a lease that was too short or a retry by hand.  *)
ClaimedByOne ==
    \A e \in Events : Cardinality(Holders(e)) > 1 => e \in overran \cup retried

(* A row never stays PROCESSING, nor FAILED: every event is published or     *)
(* dead-lettered in the end, and stays so.                                   *)
Settles == \A e \in Events : <>[](status[e] \in Settled \cup {"none"})

(* "One poison event does not block unrelated events": an event that its     *)
(* consumers can handle is published, in whatever batch it is claimed.       *)
HealthyPublished ==
    \A e \in Events :
        (\A c \in ConsumerSet : << c, e >> \notin Poison)
        => (status[e] = "PENDING" ~> status[e] = "PUBLISHED")
=============================================================================
