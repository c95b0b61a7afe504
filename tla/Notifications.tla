------------------------------ MODULE Notifications ------------------------------
(***************************************************************************)
(* Notifications and their delivery, composed with the outbox.  The        *)
(* notification consumer of the relay writes, in one transaction, the      *)
(* notification of an event and the deliveries of it that are wanted.      *)
(* Senders, the pollers of NotificationDeliveryService, claim deliveries   *)
(* under a lease and hand each to the adapter of its channel.  The message *)
(* is outside the database: it may have gone out and nothing say so.       *)
(***************************************************************************)
EXTENDS OutboxRelay

CONSTANTS
    Notification,  \* the consumer that writes notifications
    Deliveries,    \* what an event may give rise to: a recipient, or the webhook
    EventOf,
    Broken,        \* deliveries whose channel never works
    Senders,
    SendBatch,     \* batchSize of the dispatcher
    MaxTries,      \* its maxAttempts
    NoDelivery,    \* a sender that is between two deliveries
    MaxTroubles    \* bound: errors, crashes, late senders and opt-outs together

ASSUME NotificationsAssumption ==
    /\ Notification \in ConsumerSet
    /\ EventOf \in [Deliveries -> Events]
    /\ NoDelivery \notin Deliveries
    /\ IsFiniteSet(Senders)

VARIABLES
    delivery,      \* status of the row; "none" before it is written
    ready,         \* whether its available_at has arrived
    held,          \* its lease: "none", "live" or "expired"
    tries,         \* its attempt_count
    hand,          \* the deliveries a sender has claimed and not finished
    known,         \* their attempt_count, as it was claimed
    sending,       \* the delivery a sender is at
    phase,         \* what it does next
    optedOut,      \* deliveries whose recipient has opted out or left, or whose webhook is off
    messages,      \* how often the message has gone out
    late           \* deliveries whose lease ran out on a live sender (history)

sendRowVars == << delivery, ready, held, tries >>
senderVars == << hand, known, sending, phase >>
sendVars == << delivery, ready, held, tries, hand, known, sending, phase, optedOut, messages, late >>
notifyVars == << vars, sendVars >>

DeliverySettled == {"none", "SENT", "SKIPPED", "DEAD_LETTER"}

-----------------------------------------------------------------------------
(* The consumer reads the preferences before its transaction: it may write a *)
(* delivery that is not wanted any more.                                     *)
Wanted(e) == { d \in Deliveries : EventOf[d] = e /\ d \notin optedOut }

(* A step of the relay; a notification that takes effect brings deliveries.  *)
Relay ==
    /\ Next
    /\ \E D \in SUBSET Deliveries :
          /\ \A e \in Events :
                IF effects'[Notification][e] > effects[Notification][e]
                THEN Wanted(e) \subseteq { d \in D : EventOf[d] = e }
                ELSE \A d \in D : EventOf[d] # e
          /\ delivery' = [d \in Deliveries |-> IF d \in D THEN "PENDING" ELSE delivery[d]]
          /\ ready' = [d \in Deliveries |-> ready[d] \/ d \in D]
    /\ UNCHANGED << held, tries, senderVars, optedOut, messages, late >>

-----------------------------------------------------------------------------
(* Fault: what is PROCESSING is left to whoever claimed it. *)
ClaimableOnce(d) == delivery[d] \in {"PENDING", "FAILED"} /\ ready[d]
(* Fault: a lease holds nobody off. *)
ClaimableAnyLease(d) ==
    \/ delivery[d] \in {"PENDING", "FAILED"} /\ ready[d]
    \/ delivery[d] = "PROCESSING"

Claimable(d) ==
    \/ delivery[d] \in {"PENDING", "FAILED"} /\ ready[d]
    \/ delivery[d] = "PROCESSING" /\ held[d] = "expired"

(* claim *)
Pick(s) ==
    /\ hand[s] = {}
    /\ \E D \in SUBSET { d \in Deliveries : Claimable(d) } :
          /\ D # {} /\ Cardinality(D) <= SendBatch
          /\ hand' = [hand EXCEPT ![s] = D]
          /\ known' = [known EXCEPT ![s] = [d \in Deliveries |-> IF d \in D THEN tries[d] ELSE 0]]
          /\ delivery' = [d \in Deliveries |-> IF d \in D THEN "PROCESSING" ELSE delivery[d]]
          /\ held' = [d \in Deliveries |-> IF d \in D THEN "live" ELSE held[d]]
    /\ UNCHANGED << vars, ready, tries, sending, phase, optedOut, messages, late >>

-----------------------------------------------------------------------------
(* deliver *)

Try(s) == known[s][sending[s]] + 1

StartDelivery(s, d) ==
    /\ sending[s] = NoDelivery
    /\ d \in hand[s]
    /\ sending' = [sending EXCEPT ![s] = d]
    /\ phase' = [phase EXCEPT ![s] = "look"]
    /\ tries' = [tries EXCEPT ![d] = known[s][d] + 1]
    /\ UNCHANGED << vars, delivery, ready, held, hand, known, optedOut, messages, late >>

(* A sender is done with its delivery, and writes the row whoever holds it.  *)
Settle(s, to) ==
    /\ delivery' = [delivery EXCEPT ![sending[s]] = to]
    /\ held' = [held EXCEPT ![sending[s]] = "none"]
    /\ hand' = [hand EXCEPT ![s] = @ \ {sending[s]}]
    /\ known' = [known EXCEPT ![s][sending[s]] = 0]
    /\ sending' = [sending EXCEPT ![s] = NoDelivery]
    /\ phase' = [phase EXCEPT ![s] = "idle"]
    /\ UNCHANGED << vars, tries, optedOut, messages, late >>

GoTo(s, p) ==
    /\ phase' = [phase EXCEPT ![s] = p]
    /\ UNCHANGED << sendRowVars, hand, known, sending, optedOut, late >>

(* Is the recipient still a member, the channel still on? *)
Look(s) ==
    /\ phase[s] = "look"
    /\ \/ /\ sending[s] \notin optedOut
          /\ GoTo(s, "send")
          /\ UNCHANGED << vars, messages >>
       \/ /\ sending[s] \in optedOut
          /\ Settle(s, "SKIPPED")
          /\ UNCHANGED ready

SendMessage(s) ==
    /\ phase[s] = "send"
    /\ sending[s] \notin Broken
    /\ messages' = [messages EXCEPT ![sending[s]] = @ + 1]
    /\ GoTo(s, "sent")
    /\ UNCHANGED vars

SendFails(s) ==
    /\ phase[s] = "send"
    /\ sending[s] \in Broken
    /\ GoTo(s, "failed")
    /\ UNCHANGED << vars, messages >>

MarkSent(s) ==
    /\ phase[s] = "sent"
    /\ Settle(s, "SENT")
    /\ UNCHANGED ready

(* The adapter throws this once, or the statement that records the sending:  *)
(* both are in the same try block.                                           *)
SendThrows(s) ==
    /\ phase[s] \in {"send", "sent"}
    /\ throws < MaxThrows
    /\ throws' = throws + 1
    /\ GoTo(s, "failed")
    /\ UNCHANGED << rowVars, deliveryVars, workerVars, retrying, begun, overran, retried, crashes, messages >>

(* Fault: every attempt may be the last. *)
LastTryAlways(s) == TRUE

LastTry(s) == Try(s) >= MaxTries

RetryLater(s) ==
    /\ phase[s] = "failed"
    /\ ~LastTry(s)
    /\ ready' = [ready EXCEPT ![sending[s]] = FALSE]
    /\ Settle(s, "FAILED")

GiveUpDelivery(s) ==
    /\ phase[s] = "failed"
    /\ LastTry(s)
    /\ Settle(s, "DEAD_LETTER")
    /\ UNCHANGED ready

(* The process dies, or a statement outside the try block throws.            *)
SenderDies(s) ==
    /\ hand[s] # {}
    /\ crashes < MaxCrashes
    /\ crashes' = crashes + 1
    /\ hand' = [hand EXCEPT ![s] = {}]
    /\ known' = [known EXCEPT ![s] = [d \in Deliveries |-> 0]]
    /\ sending' = [sending EXCEPT ![s] = NoDelivery]
    /\ phase' = [phase EXCEPT ![s] = "idle"]
    /\ UNCHANGED << rowVars, deliveryVars, workerVars, retrying, begun, overran, retried, throws >>
    /\ UNCHANGED << sendRowVars, optedOut, messages, late >>

-----------------------------------------------------------------------------
InHand(d) == \E s \in Senders : d \in hand[s]

HoldExpires(d) ==
    /\ delivery[d] = "PROCESSING" /\ held[d] = "live"
    /\ held' = [held EXCEPT ![d] = "expired"]
    /\ IF InHand(d)
       THEN d \notin late /\ late' = late \cup {d}
       ELSE UNCHANGED late
    /\ UNCHANGED << vars, delivery, ready, tries, senderVars, optedOut, messages >>

DeliveryDue(d) ==
    /\ delivery[d] = "FAILED" /\ ~ready[d]
    /\ ready' = [ready EXCEPT ![d] = TRUE]
    /\ UNCHANGED << vars, delivery, held, tries, senderVars, optedOut, messages, late >>

OptOut(d) ==
    /\ d \notin optedOut
    /\ optedOut' = optedOut \cup {d}
    /\ UNCHANGED << vars, sendRowVars, senderVars, messages, late >>

-----------------------------------------------------------------------------
NotifyInit ==
    /\ Init
    /\ delivery = [d \in Deliveries |-> "none"]
    /\ ready = [d \in Deliveries |-> FALSE]
    /\ held = [d \in Deliveries |-> "none"]
    /\ tries = [d \in Deliveries |-> 0]
    /\ hand = [s \in Senders |-> {}]
    /\ known = [s \in Senders |-> [d \in Deliveries |-> 0]]
    /\ sending = [s \in Senders |-> NoDelivery]
    /\ phase = [s \in Senders |-> "idle"]
    /\ optedOut = {}
    /\ messages = [d \in Deliveries |-> 0]
    /\ late = {}

Deliver(s) ==
    \/ \E d \in Deliveries : StartDelivery(s, d)
    \/ Look(s) \/ SendMessage(s) \/ SendFails(s) \/ MarkSent(s) \/ RetryLater(s) \/ GiveUpDelivery(s)

Troubles == throws + crashes + Cardinality(late) + Cardinality(optedOut)

NotifyNext ==
    /\ \/ Relay
       \/ \E s \in Senders : Pick(s) \/ Deliver(s) \/ SendThrows(s) \/ SenderDies(s)
       \/ \E d \in Deliveries : HoldExpires(d) \/ DeliveryDue(d) \/ OptOut(d)
    /\ Troubles' <= MaxTroubles

NotifySpec == NotifyInit /\ [][NotifyNext]_notifyVars

(* Both pollers tick and go on with their batch, and time passes. *)
NotifyFairSpec ==
    /\ NotifySpec
    /\ \A w \in Workers : WF_notifyVars(Claim(w) /\ Relay) /\ WF_notifyVars(Dispatch(w) /\ Relay)
    /\ \A e \in Events : WF_notifyVars(LeaseRunsOut(e) /\ Relay) /\ WF_notifyVars(BecomesDue(e) /\ Relay)
    /\ \A s \in Senders : WF_notifyVars(Pick(s)) /\ WF_notifyVars(Deliver(s))
    /\ \A d \in Deliveries : WF_notifyVars(~InHand(d) /\ HoldExpires(d)) /\ WF_notifyVars(DeliveryDue(d))

-----------------------------------------------------------------------------
(* Properties *)

(* A message goes out a second time only at the price of a fault: a sender   *)
(* that dies between sending and saying so, an error in between, or a lease  *)
(* that runs out on a sender that is still at it.                            *)
SecondMessageHasCause ==
    \A d \in Deliveries :
        /\ messages[d] <= 1 + crashes + throws + (IF d \in late THEN 1 ELSE 0)
        /\ delivery[d] = "SENT" => messages[d] >= 1

(* No delivery stays PENDING, PROCESSING or FAILED: it is sent, skipped or    *)
(* dead-lettered in the end, and stays so.                                   *)
DeliveriesSettle == \A d \in Deliveries : <>[](delivery[d] \in DeliverySettled)

(* From the domain transaction to the message: of an event that is committed *)
(* every recipient who still wants it is told, through whatever crashes and  *)
(* transient errors on the way, and although other channels are broken.      *)
EventsReachRecipients ==
    \A d \in Deliveries \ Broken :
        status[EventOf[d]] = "PENDING" ~> (messages[d] >= 1 \/ d \in optedOut)
=============================================================================
