----------------------------- MODULE NotificationsProofs -----------------------------
(***************************************************************************)
(* Safety of Notifications for any number of events, deliveries and        *)
(* senders, on top of the proofs of the outbox relay that feeds it.        *)
(***************************************************************************)
EXTENDS Notifications, OutboxRelayProofs

-----------------------------------------------------------------------------
(* Types *)

(* Every variable of the senders holds a value of its kind; a sender is at a *)
(* delivery that it has in hand.                                             *)
NotifyTypeOK ==
    /\ delivery \in [Deliveries -> {"none", "PENDING", "PROCESSING", "FAILED", "SENT", "SKIPPED", "DEAD_LETTER"}]
    /\ ready \in [Deliveries -> BOOLEAN]
    /\ held \in [Deliveries -> {"none", "live", "expired"}]
    /\ tries \in [Deliveries -> Nat]
    /\ hand \in [Senders -> SUBSET Deliveries]
    /\ known \in [Senders -> [Deliveries -> Nat]]
    /\ sending \in [Senders -> Deliveries \cup {NoDelivery}]
    /\ phase \in [Senders -> {"idle", "look", "send", "sent", "failed"}]
    /\ messages \in [Deliveries -> Nat]
    /\ optedOut \subseteq Deliveries /\ late \subseteq Deliveries
    /\ \A s \in Senders : /\ phase[s] = "idle" <=> sending[s] = NoDelivery
                          /\ sending[s] # NoDelivery => sending[s] \in hand[s]

(* A step of a sender, of the clock or of a recipient touches nothing of the *)
(* relay but the two counters of what has gone wrong.                        *)
LEMMA RelayKept ==
    ASSUME TypeOK, [NotifyNext]_notifyVars
    PROVE  /\ TypeOK'
           /\ [Next]_vars \/ UNCHANGED << rowVars, deliveryVars, workerVars, retrying, begun, overran, retried >>
           /\ crashes \in Nat /\ crashes' \in Nat /\ crashes <= crashes'
           /\ throws \in Nat /\ throws' \in Nat /\ throws <= throws'
  <1> USE DEF rowVars, deliveryVars, workerVars, historyVars
  <1>0. crashes \in Nat /\ throws \in Nat
    BY DEF TypeOK
  <1>1. CASE UNCHANGED vars
    BY <1>0, <1>1, TypeStep DEF vars
  <1>2. CASE Next
    <2>1. TypeOK'
      BY <1>2, TypeStep
    <2>2. /\ crashes' = crashes \/ crashes' = crashes + 1
          /\ throws' = throws \/ throws' = throws + 1
      BY <1>2 DEF Next, Quiet, vars, Claim, Dispatch, Begin, Check, Handle, HandlePoison, Record, Publish,
         Backoff, DeadLetter, Finish, Throw, Crash, Enqueue, LeaseRunsOut, LeaseOverruns, BecomesDue,
         CheckRetry, Retry
    <2> QED BY <1>0, <1>2, <2>1, <2>2
  <1>3. ASSUME NEW s \in Senders, SendThrows(s) \/ SenderDies(s)
        PROVE  /\ UNCHANGED << rowVars, deliveryVars, workerVars, retrying, begun, overran, retried >>
               /\ TypeOK'
               /\ crashes' = crashes \/ crashes' = crashes + 1
               /\ throws' = throws \/ throws' = throws + 1
    <2>1. /\ UNCHANGED << rowVars, deliveryVars, workerVars, retrying, begun, overran, retried >>
          /\ crashes' = crashes \/ crashes' = crashes + 1
          /\ throws' = throws \/ throws' = throws + 1
      BY <1>3 DEF SendThrows, SenderDies
    <2>2. crashes' \in Nat /\ throws' \in Nat
      BY <1>0, <2>1
    <2> QED BY <2>1, <2>2 DEF TypeOK
  <1>4. ASSUME NEW s \in Senders, Pick(s) \/ Deliver(s) PROVE UNCHANGED vars
    BY <1>4 DEF Pick, Deliver, StartDelivery, Look, SendMessage, SendFails, MarkSent, RetryLater,
       GiveUpDelivery, Settle, GoTo
  <1>5. ASSUME NEW d \in Deliveries, HoldExpires(d) \/ DeliveryDue(d) \/ OptOut(d) PROVE UNCHANGED vars
    BY <1>5 DEF HoldExpires, DeliveryDue, OptOut
  <1>6. CASE UNCHANGED notifyVars
    BY <1>1, <1>6 DEF notifyVars
  <1> QED BY <1>0, <1>1, <1>2, <1>3, <1>4, <1>5, <1>6 DEF NotifyNext, Relay

(* No delivery has been written and every sender is idle. *)
LEMMA NotifyInitType == NotifyInit => TypeOK /\ NotifyTypeOK
  <1>1. NotifyInit => TypeOK
    BY InitType DEF NotifyInit
  <1>2. NotifyInit => NotifyTypeOK
    BY DEF NotifyInit, NotifyTypeOK
  <1> QED BY <1>1, <1>2

(* Deliveries are written, claimed, handed out one by one and settled. *)
LEMMA NotifyTypeStep ==
    ASSUME NotifyTypeOK, [NotifyNext]_notifyVars
    PROVE  NotifyTypeOK'
  <1> USE NotificationsAssumption DEF NotifyTypeOK, sendRowVars, senderVars
  <1>1. CASE UNCHANGED notifyVars
    BY <1>1 DEF notifyVars, sendVars
  <1>2. CASE Relay
    BY <1>2 DEF Relay
  <1>3. ASSUME NEW s \in Senders, Pick(s) PROVE NotifyTypeOK'
    <2>1. PICK D \in SUBSET Deliveries :
             /\ hand' = [hand EXCEPT ![s] = D]
             /\ known' = [known EXCEPT ![s] = [d \in Deliveries |-> IF d \in D THEN tries[d] ELSE 0]]
             /\ delivery' = [d \in Deliveries |-> IF d \in D THEN "PROCESSING" ELSE delivery[d]]
             /\ held' = [d \in Deliveries |-> IF d \in D THEN "live" ELSE held[d]]
      BY <1>3 DEF Pick
    <2>2. hand[s] = {} /\ UNCHANGED << ready, tries, sending, phase, optedOut, messages, late >>
      BY <1>3 DEF Pick
    <2>3. [d \in Deliveries |-> IF d \in D THEN tries[d] ELSE 0] \in [Deliveries -> Nat]
      OBVIOUS
    <2>4. known' \in [Senders -> [Deliveries -> Nat]]
      BY <2>1, <2>3
    <2>5. \A r \in Senders : sending[r] # NoDelivery => sending[r] \in hand'[r]
      BY <2>1, <2>2
    <2> QED BY <2>1, <2>2, <2>4, <2>5
  <1>4. ASSUME NEW s \in Senders, NEW d \in Deliveries, StartDelivery(s, d) PROVE NotifyTypeOK'
    <2>1. known[s][d] + 1 \in Nat
      OBVIOUS
    <2> QED BY <1>4, <2>1 DEF StartDelivery
  <1>5. ASSUME NEW s \in Senders, NEW to \in {"FAILED", "SENT", "SKIPPED", "DEAD_LETTER"},
               Settle(s, to), ready' \in [Deliveries -> BOOLEAN], sending[s] \in Deliveries
        PROVE  NotifyTypeOK'
    <2>1. known' \in [Senders -> [Deliveries -> Nat]]
      BY <1>5 DEF Settle
    <2>2. /\ hand' \in [Senders -> SUBSET Deliveries]
          /\ delivery' \in [Deliveries -> {"none", "PENDING", "PROCESSING", "FAILED", "SENT", "SKIPPED", "DEAD_LETTER"}]
          /\ held' \in [Deliveries -> {"none", "live", "expired"}]
          /\ sending' \in [Senders -> Deliveries \cup {NoDelivery}]
          /\ phase' \in [Senders -> {"idle", "look", "send", "sent", "failed"}]
      BY <1>5 DEF Settle
    <2>3. \A r \in Senders : /\ phase'[r] = "idle" <=> sending'[r] = NoDelivery
                             /\ sending'[r] # NoDelivery => sending'[r] \in hand'[r]
      BY <1>5 DEF Settle
    <2> QED BY <1>5, <2>1, <2>2, <2>3 DEF Settle
  <1>6. ASSUME NEW s \in Senders,
               Look(s) \/ SendMessage(s) \/ SendFails(s) \/ MarkSent(s) \/ RetryLater(s) \/ GiveUpDelivery(s)
               \/ SendThrows(s)
        PROVE  NotifyTypeOK'
    <2>1. phase[s] # "idle" /\ sending[s] \in Deliveries
      BY <1>6 DEF Look, SendMessage, SendFails, MarkSent, RetryLater, GiveUpDelivery, SendThrows
    <2>2. ASSUME NEW p \in {"send", "sent", "failed"}, GoTo(s, p), messages' \in [Deliveries -> Nat]
          PROVE  NotifyTypeOK'
      BY <2>1, <2>2 DEF GoTo
    <2>3. CASE Look(s) \/ MarkSent(s) \/ GiveUpDelivery(s)
      BY <1>5, <2>1, <2>2, <2>3 DEF Look, MarkSent, GiveUpDelivery
    <2>4. CASE RetryLater(s)
      <3>1. ready' \in [Deliveries -> BOOLEAN]
        BY <2>4 DEF RetryLater
      <3> QED BY <1>5, <2>1, <2>4, <3>1 DEF RetryLater
    <2>5. CASE SendMessage(s)
      <3>1. messages' \in [Deliveries -> Nat]
        BY <2>1, <2>5 DEF SendMessage
      <3> QED BY <2>2, <2>5, <3>1 DEF SendMessage
    <2>6. CASE SendFails(s) \/ SendThrows(s)
      BY <2>2, <2>6 DEF SendFails, SendThrows
    <2> QED BY <1>6, <2>3, <2>4, <2>5, <2>6
  <1>7. ASSUME NEW s \in Senders, SenderDies(s) PROVE NotifyTypeOK'
    <2>1. known' \in [Senders -> [Deliveries -> Nat]]
      BY <1>7 DEF SenderDies
    <2> QED BY <1>7, <2>1 DEF SenderDies
  <1>8. ASSUME NEW d \in Deliveries, HoldExpires(d) \/ DeliveryDue(d) \/ OptOut(d) PROVE NotifyTypeOK'
    <2>1. CASE HoldExpires(d)
      BY <2>1 DEF HoldExpires
    <2>2. CASE DeliveryDue(d)
      BY <2>2 DEF DeliveryDue
    <2>3. CASE OptOut(d)
      BY <2>3 DEF OptOut
    <2> QED BY <1>8, <2>1, <2>2, <2>3
  <1> QED BY <1>1, <1>2, <1>3, <1>4, <1>6, <1>7, <1>8 DEF NotifyNext, Deliver

-----------------------------------------------------------------------------
(* What the consumer has written *)

(* A delivery exists only once the notification of its event took effect, and *)
(* nobody has in hand what does not exist.                                    *)
EntryInv ==
    /\ \A d \in Deliveries : delivery[d] # "none" => effects[Notification][EventOf[d]] # 0
    /\ \A s \in Senders : \A d \in hand[s] : delivery[d] # "none"

(* A consumer's effect counts up from nothing once, and is never taken back. *)
LEMMA EffectsGrowOnce ==
    ASSUME TypeOK, Next, NEW c \in ConsumerSet, NEW e \in Events
    PROVE  /\ effects[c][e] # 0 => effects'[c][e] # 0
           /\ effects'[c][e] > effects[c][e] => effects[c][e] = 0
  <1>0. effects[c][e] \in Nat
    BY DEF TypeOK
  <1>1. CASE UNCHANGED effects
    BY <1>0, <1>1
  <1>2. ASSUME NEW w \in Workers, Handle(w), TakeEffect(Consumers[at[w]], now[w])
        PROVE  effects'[c][e] = effects[c][e] \/ (effects[c][e] = 0 /\ effects'[c][e] = 1)
    BY <1>2 DEF TakeEffect, TypeOK
  <1>3. UNCHANGED effects
        \/ \E w \in Workers : Handle(w) /\ TakeEffect(Consumers[at[w]], now[w])
    BY DEF Next, Quiet, vars, deliveryVars, Claim, Dispatch, Begin, Check, Handle, HandlePoison, Record,
       Publish, Backoff, DeadLetter, Finish, Throw, Crash, Enqueue, LeaseRunsOut, LeaseOverruns,
       BecomesDue, CheckRetry, Retry
  <1> QED BY <1>0, <1>1, <1>2, <1>3

(* What the relay brings was not there before. *)
LEMMA RelayBringsNew ==
    ASSUME TypeOK, NotifyTypeOK, EntryInv, Relay
    PROVE  /\ EntryInv'
           /\ \A d \in Deliveries : \/ delivery'[d] = delivery[d]
                                    \/ delivery[d] = "none" /\ delivery'[d] = "PENDING"
  <1> USE NotificationsAssumption
  <1>0. Next
    BY DEF Relay
  <1>1. PICK D \in SUBSET Deliveries :
          /\ \A e \in Events :
                IF effects'[Notification][e] > effects[Notification][e]
                THEN Wanted(e) \subseteq { d \in D : EventOf[d] = e }
                ELSE \A d \in D : EventOf[d] # e
          /\ delivery' = [d \in Deliveries |-> IF d \in D THEN "PENDING" ELSE delivery[d]]
    BY DEF Relay
  <1>2. ASSUME NEW d \in D
        PROVE  delivery[d] = "none" /\ effects'[Notification][EventOf[d]] # 0
    <2>1. d \in Deliveries /\ EventOf[d] \in Events
      OBVIOUS
    <2>2. effects'[Notification][EventOf[d]] > effects[Notification][EventOf[d]]
      BY <1>1, <2>1
    <2>3. effects[Notification][EventOf[d]] = 0
      BY <1>0, <2>1, <2>2, EffectsGrowOnce
    <2> QED BY <2>1, <2>2, <2>3 DEF EntryInv
  <1>3. ASSUME NEW d \in Deliveries, d \notin D, delivery[d] # "none"
        PROVE  effects'[Notification][EventOf[d]] # 0
    <2>1. EventOf[d] \in Events /\ effects[Notification][EventOf[d]] # 0
      BY <1>3 DEF EntryInv
    <2> QED BY <1>0, <2>1, EffectsGrowOnce
  <1>4. UNCHANGED hand
    BY DEF Relay, senderVars
  <1>5. \A d \in Deliveries : delivery'[d] # "none" => effects'[Notification][EventOf[d]] # 0
    BY <1>1, <1>2, <1>3
  <1>6. \A s \in Senders : \A d \in hand[s] : d \in Deliveries /\ delivery[d] # "none"
    BY DEF EntryInv, NotifyTypeOK
  <1> QED BY <1>1, <1>2, <1>4, <1>5, <1>6 DEF EntryInv
-----------------------------------------------------------------------------
(* The account of messages *)

(* What goes out is of a channel that works, and who says SENT has sent.      *)
SentInv ==
    /\ \A d \in Deliveries : delivery[d] = "SENT" => messages[d] >= 1
    /\ \A s \in Senders : phase[s] = "sent" => messages[sending[s]] >= 1
    /\ \A d \in Broken \cap Deliveries : messages[d] = 0

(* Only SendMessage counts a message, and only MarkSent, after it, says SENT. *)
LEMMA SentStep ==
    ASSUME TypeOK, NotifyTypeOK, EntryInv, SentInv, [NotifyNext]_notifyVars
    PROVE  SentInv'
  <1> USE NotificationsAssumption DEF SentInv, NotifyTypeOK, sendRowVars, senderVars
  <1>1. CASE UNCHANGED notifyVars
    BY <1>1 DEF notifyVars, sendVars
  <1>2. CASE Relay
    <2>1. \A d \in Deliveries : delivery'[d] = "SENT" => delivery[d] = "SENT"
      BY <1>2, RelayBringsNew
    <2> QED BY <1>2, <2>1 DEF Relay
  <1>3. ASSUME NEW s \in Senders, Pick(s) PROVE SentInv'
    <2>1. \A d \in Deliveries : delivery'[d] = "SENT" => delivery[d] = "SENT"
      BY <1>3 DEF Pick
    <2> QED BY <1>3, <2>1 DEF Pick
  <1>4. ASSUME NEW s \in Senders, NEW d \in Deliveries, StartDelivery(s, d) PROVE SentInv'
    <2>1. \A r \in Senders : phase'[r] = "sent" => phase[r] = "sent" /\ sending'[r] = sending[r]
      BY <1>4 DEF StartDelivery
    <2> QED BY <1>4, <2>1 DEF StartDelivery
  <1>5. ASSUME NEW s \in Senders, NEW to \in {"FAILED", "SENT", "SKIPPED", "DEAD_LETTER"}, Settle(s, to),
               phase[s] # "idle", to = "SENT" => phase[s] = "sent"
        PROVE  SentInv'
    <2>1. /\ \A r \in Senders : phase'[r] = "sent" => phase[r] = "sent" /\ sending'[r] = sending[r]
          /\ \A d \in Deliveries : delivery'[d] = "SENT" =>
                 delivery[d] = "SENT" \/ (d = sending[s] /\ to = "SENT")
          /\ UNCHANGED messages
      BY <1>5 DEF Settle
    <2> QED BY <1>5, <2>1
  <1>6. ASSUME NEW s \in Senders, NEW p \in {"send", "failed"}, GoTo(s, p), UNCHANGED messages
        PROVE  SentInv'
    <2>1. \A r \in Senders : phase'[r] = "sent" => phase[r] = "sent" /\ sending'[r] = sending[r]
      BY <1>6 DEF GoTo
    <2> QED BY <1>6, <2>1 DEF GoTo
  <1>7. ASSUME NEW s \in Senders, SendMessage(s) PROVE SentInv'
    <2>1. /\ sending[s] \in Deliveries \ Broken
          /\ \A d \in Deliveries : messages'[d] = IF d = sending[s] THEN messages[d] + 1 ELSE messages[d]
          /\ UNCHANGED << delivery, sending >>
          /\ \A r \in Senders \ {s} : phase'[r] = phase[r]
      BY <1>7 DEF SendMessage, GoTo
    <2>2. \A d \in Deliveries : messages[d] \in Nat
      OBVIOUS
    <2>3. \A d \in Deliveries : messages[d] >= 1 => messages'[d] >= 1
      BY <2>1, <2>2
    <2>4. messages'[sending[s]] >= 1
      BY <2>1, <2>2
    <2>5. \A r \in Senders : phase[r] = "sent" => sending[r] \in Deliveries
      OBVIOUS
    <2> QED BY <2>1, <2>3, <2>4, <2>5
  <1>8. ASSUME NEW s \in Senders, SenderDies(s) PROVE SentInv'
    <2>1. \A r \in Senders : phase'[r] = "sent" => phase[r] = "sent" /\ sending'[r] = sending[r]
      BY <1>8 DEF SenderDies
    <2> QED BY <1>8, <2>1 DEF SenderDies
  <1>9. ASSUME NEW d \in Deliveries, HoldExpires(d) \/ DeliveryDue(d) \/ OptOut(d) PROVE SentInv'
    BY <1>9 DEF HoldExpires, DeliveryDue, OptOut
  <1>10. ASSUME NEW s \in Senders, Deliver(s) \/ SendThrows(s) PROVE SentInv'
    BY <1>4, <1>5, <1>6, <1>7, <1>10 DEF Deliver, Look, SendFails, MarkSent, RetryLater, GiveUpDelivery, SendThrows
  <1> QED BY <1>1, <1>2, <1>3, <1>8, <1>9, <1>10 DEF NotifyNext

(* Who has a delivery in hand and has not sent it may yet send it; and a row *)
(* that may be claimed may bring one more who does.                          *)
Told(s, d) == sending[s] = d /\ phase[s] = "sent"
MaySend(d) == { s \in Senders : d \in hand[s] /\ ~Told(s, d) }
MayBeClaimed(d) ==
    \/ delivery[d] \in {"none", "PENDING", "FAILED"}
    \/ delivery[d] = "PROCESSING" /\ (held[d] = "expired" \/ ~InHand(d))

Causes(d) == crashes + throws + (IF d \in late THEN 1 ELSE 0)
Outstanding(d) == Cardinality(MaySend(d)) + (IF MayBeClaimed(d) THEN 1 ELSE 0)

(* What has gone out and what may go out without a further fault is one      *)
(* message and one for each fault so far.                                    *)
AccountInv == \A d \in Deliveries \ Broken : messages[d] + Outstanding(d) <= 1 + Causes(d)

(* There are finitely many senders. *)
LEMMA OutstandingIsNumber ==
    ASSUME NotifyTypeOK, NEW d \in Deliveries
    PROVE  /\ Cardinality(MaySend(d)) \in Nat
           /\ IsFiniteSet(MaySend(d))
           /\ Outstanding(d) \in Nat
  <1>1. MaySend(d) \in SUBSET Senders
    BY DEF MaySend
  <1>2. IsFiniteSet(MaySend(d))
    BY <1>1, FS_Subset, NotificationsAssumption
  <1>3. Cardinality(MaySend(d)) \in Nat
    BY <1>2, FS_CardinalityType
  <1> QED BY <1>2, <1>3 DEF Outstanding

(* The account of one delivery, from what a step does to it. *)
LEMMA AccountFrom ==
    ASSUME TypeOK, TypeOK', NotifyTypeOK, NotifyTypeOK', NEW d \in Deliveries,
           crashes \in Nat, crashes' \in Nat, crashes <= crashes',
           throws \in Nat, throws' \in Nat, throws <= throws', late \subseteq late',
           messages[d] + Outstanding(d) <= 1 + Causes(d),
           \/ messages'[d] = messages[d] /\ Outstanding(d)' <= Outstanding(d)
           \/ messages'[d] = messages[d] + 1 /\ Outstanding(d)' <= Outstanding(d) - 1
           \/ /\ messages'[d] = messages[d] /\ Outstanding(d)' <= Outstanding(d) + 1
              /\ crashes' = crashes + 1 \/ throws' = throws + 1 \/ (d \notin late /\ d \in late')
    PROVE  messages'[d] + Outstanding(d)' <= 1 + Causes(d)'
  <1>1. /\ Outstanding(d) \in Nat /\ messages[d] \in Nat /\ messages'[d] \in Nat
        /\ messages[d] + Outstanding(d) <= 1 + Causes(d)
    BY OutstandingIsNumber DEF NotifyTypeOK
  <1>2. Outstanding(d)' \in Nat
    <2>1. MaySend(d)' \in SUBSET Senders
      BY DEF MaySend
    <2>2. Cardinality(MaySend(d)') \in Nat
      BY <2>1, FS_Subset, FS_CardinalityType, NotificationsAssumption
    <2> QED BY <2>2 DEF Outstanding
  <1> DEFINE l == IF d \in late THEN 1 ELSE 0
             m == IF d \in late' THEN 1 ELSE 0
  <1>3. l \in Nat /\ m \in Nat /\ l <= m /\ (d \notin late /\ d \in late' => m = l + 1)
    OBVIOUS
  <1>4. Causes(d) = crashes + throws + l /\ Causes(d)' = crashes' + throws' + m
    BY DEF Causes
  <1> HIDE DEF l, m
  <1> QED BY <1>1, <1>2, <1>3, <1>4
(* What becomes of the number of senders when one joins or leaves them. *)
LEMMA MaySendChanges ==
    ASSUME NotifyTypeOK, NEW d \in Deliveries, NEW s
    PROVE  /\ MaySend(d)' \subseteq MaySend(d) => Cardinality(MaySend(d)') <= Cardinality(MaySend(d))
           /\ MaySend(d)' \subseteq MaySend(d) \cup {s} =>
                  Cardinality(MaySend(d)') <= Cardinality(MaySend(d)) + 1
           /\ s \in MaySend(d) /\ MaySend(d)' \subseteq MaySend(d) \ {s} =>
                  Cardinality(MaySend(d)') <= Cardinality(MaySend(d)) - 1
           /\ Cardinality(MaySend(d)) \in Nat
           /\ Cardinality(MaySend(d)') \in Nat
  <1> DEFINE M == MaySend(d)
             N == MaySend(d)'
  <1>1. IsFiniteSet(M) /\ Cardinality(M) \in Nat
    BY OutstandingIsNumber
  <1>2. N \in SUBSET Senders
    BY DEF MaySend
  <1>3. Cardinality(N) \in Nat
    BY <1>2, FS_Subset, FS_CardinalityType, NotificationsAssumption
  <1> HIDE DEF M, N
  <1>4. N \subseteq M => Cardinality(N) <= Cardinality(M)
    BY <1>1, FS_Subset
  <1>5. N \subseteq M \cup {s} => Cardinality(N) <= Cardinality(M) + 1
    <2>0. /\ IsFiniteSet(M \cup {s})
          /\ Cardinality(M \cup {s}) = IF s \in M THEN Cardinality(M) ELSE Cardinality(M) + 1
      BY <1>1, FS_AddElement
    <2>1. IsFiniteSet(M \cup {s}) /\ Cardinality(M \cup {s}) <= Cardinality(M) + 1
      BY <1>1, <2>0
    <2>2. Cardinality(M \cup {s}) \in Nat
      BY <2>1, FS_CardinalityType
    <2>3. N \subseteq M \cup {s} => Cardinality(N) <= Cardinality(M \cup {s})
      BY <2>1, FS_Subset
    <2> QED BY <1>1, <1>3, <2>1, <2>2, <2>3
  <1>6. s \in M /\ N \subseteq M \ {s} => Cardinality(N) <= Cardinality(M) - 1
    <2>1. s \in M => IsFiniteSet(M \ {s}) /\ Cardinality(M \ {s}) = Cardinality(M) - 1
      BY <1>1, FS_RemoveElement
    <2>2. s \in M /\ N \subseteq M \ {s} => Cardinality(N) <= Cardinality(M \ {s})
      BY <2>1, FS_Subset
    <2> QED BY <2>1, <2>2
  <1> QED BY <1>1, <1>3, <1>4, <1>5, <1>6 DEF M, N

(* A second message is paid for: by the lease that ran out, by the crash or  *)
(* by the error that let the delivery be claimed or sent again.              *)
LEMMA AccountStep ==
    ASSUME TypeOK, TypeOK', NotifyTypeOK, NotifyTypeOK', EntryInv, SentInv, AccountInv,
           [NotifyNext]_notifyVars
    PROVE  AccountInv'
  <1> USE NotificationsAssumption DEF sendRowVars, senderVars
  <1> SUFFICES ASSUME NEW d \in Deliveries \ Broken
               PROVE  messages'[d] + Outstanding(d)' <= 1 + Causes(d)'
    BY DEF AccountInv
  <1> DEFINE M == Cardinality(MaySend(d))
             N == Cardinality(MaySend(d)')
             Kept == messages'[d] = messages[d] /\ Outstanding(d)' <= Outstanding(d)
             Spent == messages'[d] = messages[d] + 1 /\ Outstanding(d)' <= Outstanding(d) - 1
             Fault == /\ messages'[d] = messages[d] /\ Outstanding(d)' <= Outstanding(d) + 1
                      /\ crashes' = crashes + 1 \/ throws' = throws + 1 \/ (d \notin late /\ d \in late')
  <1>a. /\ crashes \in Nat /\ crashes' \in Nat /\ crashes <= crashes'
        /\ throws \in Nat /\ throws' \in Nat /\ throws <= throws'
    BY RelayKept
  <1>b. late \subseteq late'
    BY DEF NotifyNext, Relay, Pick, Deliver, StartDelivery, Look, SendMessage, SendFails, MarkSent, RetryLater,
       GiveUpDelivery, Settle, GoTo, SendThrows, SenderDies, HoldExpires, DeliveryDue, OptOut, notifyVars, sendVars
  <1>c. /\ M \in Nat /\ N \in Nat
        /\ MaySend(d)' \subseteq MaySend(d) => N <= M
        /\ \A s : MaySend(d)' \subseteq MaySend(d) \cup {s} => N <= M + 1
        /\ \A s \in MaySend(d) : MaySend(d)' \subseteq MaySend(d) \ {s} => N <= M - 1
    BY MaySendChanges
  <1>d. /\ Outstanding(d) = M + (IF MayBeClaimed(d) THEN 1 ELSE 0)
        /\ Outstanding(d)' = N + (IF MayBeClaimed(d)' THEN 1 ELSE 0)
    BY DEF Outstanding
  <1> HIDE DEF M, N
  (* What is enough of a step. *)
  <1>e. ASSUME UNCHANGED messages, MaySend(d)' \subseteq MaySend(d), MayBeClaimed(d)' => MayBeClaimed(d)
        PROVE  Kept
    BY <1>c, <1>d, <1>e
  <1>1. CASE UNCHANGED notifyVars
    <2>1. UNCHANGED << messages, hand, sending, phase, delivery, held >>
      BY <1>1 DEF notifyVars, sendVars
    <2> QED BY <1>e, <2>1, AccountFrom, <1>a, <1>b DEF AccountInv, MaySend, Told, MayBeClaimed, InHand
  <1>2. ASSUME Relay PROVE Kept
    <2>1. UNCHANGED << messages, hand, sending, phase, held >>
      BY <1>2 DEF Relay
    <2>2. delivery'[d] = delivery[d] \/ delivery[d] = "none"
      BY <1>2, RelayBringsNew
    <2> QED BY <1>e, <2>1, <2>2 DEF MaySend, Told, MayBeClaimed, InHand
  <1>3. ASSUME NEW s \in Senders, Pick(s) PROVE Kept
    <2>1. PICK D \in SUBSET { e \in Deliveries : Claimable(e) } :
             /\ hand' = [hand EXCEPT ![s] = D]
             /\ delivery' = [e \in Deliveries |-> IF e \in D THEN "PROCESSING" ELSE delivery[e]]
             /\ held' = [e \in Deliveries |-> IF e \in D THEN "live" ELSE held[e]]
      BY <1>3 DEF Pick
    <2>2. hand[s] = {} /\ UNCHANGED << sending, phase, messages >>
      BY <1>3 DEF Pick
    <2>3. hand'[s] = D /\ \A r \in Senders \ {s} : hand'[r] = hand[r]
      BY <2>1 DEF NotifyTypeOK
    <2>4. CASE d \in D
      <3>1. MayBeClaimed(d)
        BY <2>1, <2>4 DEF Claimable, MayBeClaimed
      <3>2. ~MayBeClaimed(d)'
        BY <2>1, <2>3, <2>4 DEF MayBeClaimed, InHand
      <3>3. MaySend(d)' \subseteq MaySend(d) \cup {s}
        BY <2>2, <2>3 DEF MaySend, Told
      <3> QED BY <1>c, <1>d, <2>2, <3>1, <3>2, <3>3
    <2>5. CASE d \notin D
      <3>1. MaySend(d)' \subseteq MaySend(d)
        BY <2>2, <2>3, <2>5 DEF MaySend, Told
      <3>2. MayBeClaimed(d)' => MayBeClaimed(d)
        BY <2>1, <2>2, <2>3, <2>5 DEF MayBeClaimed, InHand
      <3> QED BY <1>e, <2>2, <3>1, <3>2
    <2> QED BY <2>4, <2>5
  <1>4. ASSUME NEW s \in Senders, NEW e \in Deliveries, StartDelivery(s, e) PROVE Kept
    <2>1. UNCHANGED << messages, hand, delivery, held >>
      BY <1>4 DEF StartDelivery
    <2>2. \A r \in Senders : Told(r, d)' <=> Told(r, d)
      BY <1>4 DEF StartDelivery, Told, NotifyTypeOK
    <2> QED BY <1>e, <2>1, <2>2 DEF MaySend, MayBeClaimed, InHand
  <1>5. ASSUME NEW s \in Senders, NEW to \in {"FAILED", "SENT", "SKIPPED", "DEAD_LETTER"}, Settle(s, to),
               phase[s] # "idle", to = "FAILED" => phase[s] = "failed"
        PROVE  Kept
    <2>1. /\ UNCHANGED messages
          /\ sending[s] \in Deliveries /\ sending[s] \in hand[s]
          /\ sending'[s] = NoDelivery /\ hand'[s] = hand[s] \ {sending[s]}
          /\ \A r \in Senders \ {s} : sending'[r] = sending[r] /\ phase'[r] = phase[r] /\ hand'[r] = hand[r]
          /\ \A e \in Deliveries : e # sending[s] => delivery'[e] = delivery[e] /\ held'[e] = held[e]
          /\ delivery'[sending[s]] = to
      BY <1>5 DEF Settle, NotifyTypeOK
    <2>2. CASE d = sending[s]
      <3>1. MaySend(d)' \subseteq MaySend(d) \ {s}
        BY <2>1, <2>2 DEF MaySend, Told
      <3>2. CASE to = "FAILED"
        <4>1. s \in MaySend(d)
          BY <1>5, <2>1, <2>2, <3>2 DEF MaySend, Told
        <4> QED BY <1>c, <1>d, <2>1, <3>1, <4>1
      <3>3. CASE to # "FAILED"
        <4>1. ~MayBeClaimed(d)'
          BY <2>1, <2>2, <3>3 DEF MayBeClaimed
        <4> QED BY <1>e, <2>1, <3>1, <4>1
      <3> QED BY <3>2, <3>3
    <2>3. CASE d # sending[s]
      <3>1. \A r \in Senders : (d \in hand'[r] <=> d \in hand[r]) /\ (Told(r, d)' <=> Told(r, d))
        BY <2>1, <2>3 DEF Told
      <3>2. delivery'[d] = delivery[d] /\ held'[d] = held[d]
        BY <2>1, <2>3
      <3> QED BY <1>e, <2>1, <3>1, <3>2 DEF MaySend, MayBeClaimed, InHand
    <2> QED BY <2>2, <2>3
  <1>6. ASSUME NEW s \in Senders, Look(s) \/ SendFails(s) \/ MarkSent(s) \/ RetryLater(s) \/ GiveUpDelivery(s)
        PROVE  Kept
    <2>1. ASSUME NEW p, GoTo(s, p), p # "sent", phase[s] # "sent", UNCHANGED messages PROVE Kept
      <3>1. UNCHANGED << hand, delivery, held, sending >>
        BY <2>1 DEF GoTo
      <3>2. \A r \in Senders : Told(r, d)' <=> Told(r, d)
        BY <2>1 DEF GoTo, Told, NotifyTypeOK
      <3> QED BY <1>e, <2>1, <3>1, <3>2 DEF MaySend, MayBeClaimed, InHand
    <2> HIDE DEF Kept
    <2> QED BY <1>5, <1>6, <2>1 DEF Look, SendFails, MarkSent, RetryLater, GiveUpDelivery
  <1>7. ASSUME NEW s \in Senders, SendMessage(s) PROVE Kept \/ Spent
    <2>1. /\ UNCHANGED << hand, sending, delivery, held >>
          /\ phase[s] = "send" /\ phase'[s] = "sent"
          /\ sending[s] \in hand[s]
          /\ \A r \in Senders \ {s} : phase'[r] = phase[r]
          /\ messages' = [messages EXCEPT ![sending[s]] = @ + 1]
      BY <1>7 DEF SendMessage, GoTo, NotifyTypeOK
    <2>2. MayBeClaimed(d)' <=> MayBeClaimed(d)
      BY <2>1 DEF MayBeClaimed, InHand
    <2>3. CASE d = sending[s]
      <3>1. s \in MaySend(d)
        BY <2>1, <2>3 DEF MaySend, Told
      <3>2. MaySend(d)' \subseteq MaySend(d) \ {s}
        BY <2>1, <2>3 DEF MaySend, Told
      <3>3. messages'[d] = messages[d] + 1
        BY <2>1, <2>3 DEF NotifyTypeOK
      <3> QED BY <1>c, <1>d, <2>2, <3>1, <3>2, <3>3
    <2>4. CASE d # sending[s]
      <3>1. \A r \in Senders : Told(r, d)' <=> Told(r, d)
        BY <2>1, <2>4 DEF Told
      <3>2. MaySend(d)' \subseteq MaySend(d)
        BY <2>1, <3>1 DEF MaySend
      <3>3. messages'[d] = messages[d]
        BY <2>1, <2>4 DEF NotifyTypeOK
      <3> QED BY <1>c, <1>d, <2>2, <3>2, <3>3
    <2> QED BY <2>3, <2>4
  <1>8. ASSUME NEW s \in Senders, SendThrows(s) PROVE Fault
    <2>1. /\ UNCHANGED << hand, sending, delivery, held, messages >>
          /\ \A r \in Senders \ {s} : phase'[r] = phase[r]
          /\ throws' = throws + 1
      BY <1>8 DEF SendThrows, GoTo, NotifyTypeOK
    <2>2. MayBeClaimed(d)' <=> MayBeClaimed(d)
      BY <2>1 DEF MayBeClaimed, InHand
    <2>3. MaySend(d)' \subseteq MaySend(d) \cup {s}
      BY <2>1 DEF MaySend, Told
    <2> QED BY <1>c, <1>d, <2>1, <2>2, <2>3
  <1>9. ASSUME NEW s \in Senders, SenderDies(s) PROVE Fault
    <2>1. /\ UNCHANGED << delivery, held, messages >>
          /\ hand'[s] = {}
          /\ \A r \in Senders \ {s} : hand'[r] = hand[r] /\ sending'[r] = sending[r] /\ phase'[r] = phase[r]
          /\ crashes' = crashes + 1
      BY <1>9 DEF SenderDies, NotifyTypeOK
    <2>2. MaySend(d)' \subseteq MaySend(d)
      BY <2>1 DEF MaySend, Told
    <2> QED BY <1>c, <1>d, <2>1, <2>2
  <1>10. ASSUME NEW e \in Deliveries, HoldExpires(e) PROVE Kept \/ Fault
    <2>1. /\ UNCHANGED << delivery, messages, hand, sending, phase >>
          /\ \A b \in Deliveries : b # e => held'[b] = held[b]
          /\ delivery[e] = "PROCESSING"
          /\ InHand(e) => e \notin late /\ e \in late'
      BY <1>10 DEF HoldExpires, NotifyTypeOK
    <2>2. MaySend(d)' \subseteq MaySend(d) /\ (InHand(d)' <=> InHand(d))
      BY <2>1 DEF MaySend, Told, InHand
    <2>3. CASE d # e \/ ~InHand(d)
      <3>1. MayBeClaimed(d)' => MayBeClaimed(d)
        BY <2>1, <2>2, <2>3 DEF MayBeClaimed
      <3> QED BY <1>e, <2>1, <2>2, <3>1
    <2>4. CASE d = e /\ InHand(d)
      BY <1>c, <1>d, <2>1, <2>2, <2>4
    <2> QED BY <2>3, <2>4
  <1>11. ASSUME NEW e \in Deliveries, DeliveryDue(e) \/ OptOut(e) PROVE Kept
    <2>1. UNCHANGED << messages, hand, sending, phase, delivery, held >>
      BY <1>11 DEF DeliveryDue, OptOut
    <2> QED BY <1>e, <2>1 DEF MaySend, Told, MayBeClaimed, InHand
  <1>12. CASE NotifyNext
    <2> HIDE DEF Kept, Spent, Fault
    <2>1. Kept \/ Spent \/ Fault
      BY <1>2, <1>3, <1>4, <1>6, <1>7, <1>8, <1>9, <1>10, <1>11, <1>12 DEF NotifyNext, Deliver
    <2>2. messages[d] + Outstanding(d) <= 1 + Causes(d)
      BY DEF AccountInv
    <2> QED BY <1>a, <1>b, <2>1, <2>2, AccountFrom DEF Kept, Spent, Fault
  <1> QED BY <1>1, <1>12

(* Only the relay brings deliveries into being; all others work on those that *)
(* are there.                                                                 *)
LEMMA EntryStep ==
    ASSUME TypeOK, NotifyTypeOK, EntryInv, [NotifyNext]_notifyVars
    PROVE  EntryInv'
  <1> USE DEF sendRowVars, senderVars, deliveryVars
  <1>1. CASE Relay
    BY <1>1, RelayBringsNew
  <1>2. ASSUME UNCHANGED effects, \A d \in Deliveries : delivery'[d] = "none" <=> delivery[d] = "none",
               \A s \in Senders : \A d \in hand'[s] : d \in Deliveries /\ delivery[d] # "none"
        PROVE  EntryInv'
    BY <1>2 DEF EntryInv
  <1>3. \A s \in Senders : \A d \in hand[s] : d \in Deliveries /\ delivery[d] # "none"
    BY DEF EntryInv, NotifyTypeOK
  <1>4. CASE UNCHANGED notifyVars
    <2>1. UNCHANGED << effects, delivery, hand >>
      BY <1>4 DEF notifyVars, vars, sendVars
    <2> QED BY <1>2, <1>3, <2>1
  <1>5. ASSUME NEW s \in Senders, Pick(s) PROVE EntryInv'
    <2>1. PICK D \in SUBSET { e \in Deliveries : Claimable(e) } :
             /\ hand' = [hand EXCEPT ![s] = D]
             /\ delivery' = [e \in Deliveries |-> IF e \in D THEN "PROCESSING" ELSE delivery[e]]
      BY <1>5 DEF Pick
    <2>2. \A d \in D : d \in Deliveries /\ delivery[d] # "none"
      BY <2>1 DEF Claimable
    <2>3. UNCHANGED effects
      BY <1>5 DEF Pick, vars
    <2> QED BY <1>2, <1>3, <2>1, <2>2, <2>3 DEF NotifyTypeOK
  <1>6. ASSUME NEW s \in Senders, NEW to \in {"FAILED", "SENT", "SKIPPED", "DEAD_LETTER"}, Settle(s, to),
               phase[s] # "idle"
        PROVE  EntryInv'
    <2>1. /\ sending[s] \in hand[s] /\ sending[s] \in Deliveries
          /\ hand' = [hand EXCEPT ![s] = @ \ {sending[s]}]
          /\ delivery' = [delivery EXCEPT ![sending[s]] = to]
          /\ UNCHANGED effects
      BY <1>6 DEF Settle, NotifyTypeOK, vars
    <2>2. \A d \in Deliveries : delivery'[d] = "none" <=> delivery[d] = "none"
      BY <1>3, <2>1 DEF NotifyTypeOK
    <2>3. \A r \in Senders : hand'[r] \subseteq hand[r]
      BY <2>1 DEF NotifyTypeOK
    <2> QED BY <1>2, <1>3, <2>1, <2>2, <2>3
  <1>7. ASSUME NEW s \in Senders, Deliver(s) \/ SendThrows(s) PROVE EntryInv'
    <2>1. CASE UNCHANGED << effects, delivery, hand >>
      BY <1>2, <1>3, <2>1
    <2> QED BY <1>6, <1>7, <2>1 DEF vars, Deliver, StartDelivery, Look, SendMessage, SendFails, MarkSent,
            RetryLater, GiveUpDelivery, GoTo, SendThrows
  <1>8. ASSUME NEW s \in Senders, SenderDies(s) PROVE EntryInv'
    <2>1. UNCHANGED << effects, delivery >> /\ \A r \in Senders : hand'[r] \subseteq hand[r]
      BY <1>8 DEF SenderDies, NotifyTypeOK
    <2> QED BY <1>2, <1>3, <2>1
  <1>9. ASSUME NEW d \in Deliveries, HoldExpires(d) \/ DeliveryDue(d) \/ OptOut(d) PROVE EntryInv'
    <2>1. UNCHANGED << effects, delivery, hand >>
      BY <1>9 DEF HoldExpires, DeliveryDue, OptOut, vars
    <2> QED BY <1>2, <1>3, <2>1
  <1> QED BY <1>1, <1>4, <1>5, <1>7, <1>8, <1>9 DEF NotifyNext

-----------------------------------------------------------------------------
(* Theorems *)

NotifyIndInv == TypeOK /\ NotifyTypeOK /\ EntryInv /\ SentInv /\ AccountInv

(* The inductive invariant: every message is one that an event brought or a   *)
(* fault did, wherever senders, leases and the relay happen to be.            *)
THEOREM NotifyIndInvariant == NotifySpec => []NotifyIndInv
  <1>1. NotifyInit => NotifyIndInv
    <2> SUFFICES ASSUME NotifyInit PROVE NotifyIndInv
      OBVIOUS
    <2>1. TypeOK /\ NotifyTypeOK
      BY NotifyInitType
    <2>2. EntryInv /\ SentInv
      BY DEF NotifyInit, EntryInv, SentInv
    <2>3. ASSUME NEW d \in Deliveries PROVE messages[d] + Outstanding(d) <= 1 + Causes(d)
      <3>1. MaySend(d) = {}
        BY DEF NotifyInit, MaySend
      <3>2. Cardinality(MaySend(d)) = 0
        BY <3>1, FS_EmptySet
      <3>3. messages[d] = 0 /\ Causes(d) = 0
        BY DEF NotifyInit, Init, Causes
      <3> QED BY <3>2, <3>3 DEF Outstanding
    <2> QED BY <2>1, <2>2, <2>3 DEF NotifyIndInv, AccountInv
  <1>2. NotifyIndInv /\ [NotifyNext]_notifyVars => NotifyIndInv'
    BY RelayKept, NotifyTypeStep, EntryStep, SentStep, AccountStep DEF NotifyIndInv
  <1> QED BY <1>1, <1>2, PTL DEF NotifySpec

(* deliver sends outside any transaction and records it afterwards: a second  *)
(* message is still the price of a crash, an error or a lease that ran out,   *)
(* one for each at most, and a row says SENT only of a message that went out. *)
THEOREM MessagesAreAccountedFor == NotifySpec => []SecondMessageHasCause
  <1>1. NotifyIndInv => SecondMessageHasCause
    <2> SUFFICES ASSUME NotifyIndInv, NEW d \in Deliveries
                 PROVE  /\ messages[d] <= 1 + crashes + throws + (IF d \in late THEN 1 ELSE 0)
                        /\ delivery[d] = "SENT" => messages[d] >= 1
      BY DEF SecondMessageHasCause
    <2>1. delivery[d] = "SENT" => messages[d] >= 1
      BY DEF NotifyIndInv, SentInv
    <2>2. messages[d] \in Nat /\ crashes \in Nat /\ throws \in Nat /\ Outstanding(d) \in Nat
      BY OutstandingIsNumber DEF NotifyIndInv, NotifyTypeOK, TypeOK
    <2>3. CASE d \in Broken
      BY <2>1, <2>2, <2>3 DEF NotifyIndInv, SentInv
    <2>4. CASE d \notin Broken
      <3>1. messages[d] + Outstanding(d) <= 1 + Causes(d)
        BY <2>4 DEF NotifyIndInv, AccountInv
      <3> QED BY <2>1, <2>2, <3>1 DEF Causes
    <2> QED BY <2>3, <2>4
  <1> QED BY <1>1, NotifyIndInvariant, PTL

(* Every variable of the relay and of the senders keeps its type.            *)
THEOREM NotifyTypeCorrect == NotifySpec => [](TypeOK /\ NotifyTypeOK)
  <1>1. NotifyIndInv => TypeOK /\ NotifyTypeOK
    BY DEF NotifyIndInv
  <1> QED BY <1>1, NotifyIndInvariant, PTL
=============================================================================
