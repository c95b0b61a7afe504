----------------------------- MODULE OutboxRelayProofs -----------------------------
(***************************************************************************)
(* Safety of OutboxRelay for any number of events, consumers and workers,  *)
(* any size of a batch, any limit of attempts and any number of crashes,   *)
(* errors, overruns and retries.                                           *)
(***************************************************************************)
EXTENDS OutboxRelay, FiniteSetTheorems, TLAPS

(* Assumed of every constant that is counted with. *)
LEMMA ConstantsType ==
    /\ MaxAttempts \in Nat \ {0}
    /\ Len(Consumers) \in Nat
    /\ DOMAIN Consumers = 1 .. Len(Consumers)
    /\ \A i \in DOMAIN Consumers : Consumers[i] \in ConsumerSet
    /\ NoEvent \notin Events
  BY RelayAssumption DEF ConsumerSet

-----------------------------------------------------------------------------
(* Types *)

(* No event has been committed and every poller is idle. *)
LEMMA InitType == Init => TypeOK
  BY ConstantsType DEF Init, TypeOK, Status

(* Events enter, are claimed, and are overtaken by the clock or an operator. *)
LEMMA EventStepType ==
    ASSUME TypeOK, NEW e \in Events,
           \/ Enqueue(e) \/ LeaseRunsOut(e) \/ LeaseOverruns(e)
           \/ BecomesDue(e) \/ CheckRetry(e) \/ Retry(e)
    PROVE  TypeOK'
  <1> USE DEF TypeOK, Status, workerVars, deliveryVars, historyVars, rowVars, Expire
  <1>1. CASE Enqueue(e)
    BY <1>1 DEF Enqueue
  <1>2. CASE LeaseRunsOut(e)
    BY <1>2 DEF LeaseRunsOut
  <1>3. CASE LeaseOverruns(e)
    BY <1>3 DEF LeaseOverruns
  <1>4. CASE BecomesDue(e)
    BY <1>4 DEF BecomesDue
  <1>5. CASE CheckRetry(e)
    BY <1>5 DEF CheckRetry
  <1>6. CASE Retry(e)
    BY <1>6 DEF Retry
  <1>7. QED
    BY <1>1, <1>2, <1>3, <1>4, <1>5, <1>6

(* A worker claims, dispatches one event after the other, or dies. *)
LEMMA WorkerStepType ==
    ASSUME TypeOK, NEW w \in Workers,
           Claim(w) \/ Dispatch(w) \/ Throw(w) \/ Crash(w)
    PROVE  TypeOK'
  <1> USE ConstantsType
      DEF TypeOK, Status, workerVars, deliveryVars, historyVars, rowVars, Goto
  <1>1. CASE Claim(w)
    <2>1. PICK claimed \in SUBSET Events :
             /\ batch[w] = {}
             /\ batch' = [batch EXCEPT ![w] = claimed]
             /\ seen' = [seen EXCEPT ![w] =
                            [e \in Events |-> IF e \in claimed THEN attempts[e] ELSE 0]]
             /\ status' = [e \in Events |-> IF e \in claimed THEN "PROCESSING" ELSE status[e]]
             /\ lease' = [e \in Events |-> IF e \in claimed THEN "live" ELSE lease[e]]
      BY <1>1 DEF Claim
    <2>2. UNCHANGED << due, attempts, receipts, effects, now, at, step,
                       retrying, begun, overran, retried, throws, crashes >>
      BY <1>1 DEF Claim
    <2>3. [e \in Events |-> IF e \in claimed THEN attempts[e] ELSE 0] \in [Events -> Nat]
      OBVIOUS
    <2>4. /\ batch' \in [Workers -> SUBSET Events]
          /\ seen' \in [Workers -> [Events -> Nat]]
          /\ status' \in [Events -> Status]
          /\ lease' \in [Events -> {"none", "live", "expired"}]
      BY <2>1, <2>3
    <2>5. \A v \in Workers : now'[v] # NoEvent => now'[v] \in batch'[v]
      BY <2>1, <2>2
    <2>6. QED
      BY <2>2, <2>4, <2>5
  <1>2. ASSUME NEW e \in Events, Begin(w, e) PROVE TypeOK'
    <2>1. seen[w][e] + 1 \in Nat /\ begun[e] + 1 \in Nat
      OBVIOUS
    <2>2. attempts' \in [Events -> Nat] /\ begun' \in [Events -> Nat]
      BY <1>2, <2>1 DEF Begin, Attempt
    <2>3. /\ now' \in [Workers -> Events \cup {NoEvent}]
          /\ at' \in [Workers -> 1 .. Len(Consumers) + 1]
          /\ step' \in [Workers -> {"idle", "check", "handle", "record", "failed"}]
          /\ \A v \in Workers : /\ step'[v] = "idle" <=> now'[v] = NoEvent
                                /\ now'[v] # NoEvent => now'[v] \in batch[v]
                                /\ step'[v] \in {"handle", "record"} => at'[v] \in DOMAIN Consumers
      BY <1>2 DEF Begin
    <2>4. QED
      BY <1>2, <2>2, <2>3 DEF Begin
  <1>3. CASE Check(w)
    <2>1. CASE << Consumers[at[w]], now[w] >> \in receipts
      <3>1. at[w] + 1 \in 1 .. Len(Consumers) + 1
        BY <1>3 DEF Check
      <3>2. at' = [at EXCEPT ![w] = at[w] + 1] /\ step' = step /\ step[w] = "check"
        BY <1>3, <2>1 DEF Check
      <3>3. /\ at' \in [Workers -> 1 .. Len(Consumers) + 1]
            /\ \A v \in Workers : step[v] \in {"handle", "record"} => at'[v] \in DOMAIN Consumers
        BY <3>1, <3>2
      <3>4. QED
        BY <1>3, <3>2, <3>3 DEF Check
    <2>2. CASE << Consumers[at[w]], now[w] >> \notin receipts
      BY <1>3, <2>2 DEF Check
    <2>3. QED
      BY <2>1, <2>2
  <1>4. CASE Handle(w)
    <2>1. effects' \in [ConsumerSet -> [Events -> Nat]]
      <3>1. Consumers[at[w]] \in ConsumerSet /\ now[w] \in Events
        BY <1>4 DEF Handle
      <3>2. CASE TakeEffect(Consumers[at[w]], now[w])
        BY <3>1, <3>2 DEF TakeEffect
      <3>3. CASE UNCHANGED effects
        BY <3>3
      <3>4. QED
        BY <1>4, <3>2, <3>3 DEF Handle
    <2>2. /\ step' \in [Workers -> {"idle", "check", "handle", "record", "failed"}]
          /\ \A v \in Workers : /\ step'[v] = "idle" <=> now[v] = NoEvent
                                /\ step'[v] \in {"handle", "record"} => at[v] \in DOMAIN Consumers
      BY <1>4 DEF Handle
    <2>3. QED
      BY <1>4, <2>1, <2>2 DEF Handle
  <1>5. CASE HandlePoison(w)
    BY <1>5 DEF HandlePoison, AfterError
  <1>6. CASE Record(w)
    BY <1>6 DEF Record
  <1>F. ASSUME NEW s \in Status, Finish(w, s), due' \in [Events -> BOOLEAN] PROVE TypeOK'
    <2>1. /\ status' \in [Events -> Status]
          /\ lease' \in [Events -> {"none", "live", "expired"}]
      BY <1>F DEF Finish
    <2>2. batch' \in [Workers -> SUBSET Events]
      BY <1>F DEF Finish
    <2>3. seen' \in [Workers -> [Events -> Nat]]
      BY <1>F DEF Finish
    <2>4. /\ now' \in [Workers -> Events \cup {NoEvent}]
          /\ at' \in [Workers -> 1 .. Len(Consumers) + 1]
          /\ step' \in [Workers -> {"idle", "check", "handle", "record", "failed"}]
      BY <1>F DEF Finish
    <2>5. \A v \in Workers : /\ step'[v] = "idle" <=> now'[v] = NoEvent
                             /\ now'[v] # NoEvent => now'[v] \in batch'[v]
                             /\ step'[v] \in {"handle", "record"} => at'[v] \in DOMAIN Consumers
      BY <1>F DEF Finish
    <2>6. QED
      BY <1>F, <2>1, <2>2, <2>3, <2>4, <2>5 DEF Finish
  <1>7. CASE Publish(w)
    BY <1>7, <1>F DEF Publish
  <1>8. CASE Backoff(w)
    <2>1. due' \in [Events -> BOOLEAN]
      BY <1>8 DEF Backoff
    <2>2. QED
      BY <1>8, <1>F, <2>1 DEF Backoff
  <1>9. CASE DeadLetter(w)
    BY <1>9, <1>F DEF DeadLetter
  <1>10. CASE Throw(w)
    <2>1. /\ step' = [step EXCEPT ![w] = AfterError] /\ step[w] # "idle"
          /\ AfterError = "failed"
          /\ throws' = throws + 1
          /\ UNCHANGED << rowVars, deliveryVars, batch, seen, now, at, retrying, begun, overran,
                          retried, crashes >>
      BY <1>10 DEF Throw, AfterError
    <2>2. throws' \in Nat
      BY <2>1
    <2>3. /\ step' \in [Workers -> {"idle", "check", "handle", "record", "failed"}]
          /\ \A v \in Workers : /\ step'[v] = "idle" <=> now[v] = NoEvent
                                /\ step'[v] \in {"handle", "record"} => at[v] \in DOMAIN Consumers
      BY <2>1
    <2> QED BY <2>1, <2>2, <2>3
  <1>11. CASE Crash(w)
    <2>1. seen' \in [Workers -> [Events -> Nat]]
      BY <1>11 DEF Crash
    <2>2. /\ batch' \in [Workers -> SUBSET Events]
          /\ now' \in [Workers -> Events \cup {NoEvent}]
          /\ at' \in [Workers -> 1 .. Len(Consumers) + 1]
          /\ step' \in [Workers -> {"idle", "check", "handle", "record", "failed"}]
          /\ \A v \in Workers : /\ step'[v] = "idle" <=> now'[v] = NoEvent
                                /\ now'[v] # NoEvent => now'[v] \in batch'[v]
                                /\ step'[v] \in {"handle", "record"} => at'[v] \in DOMAIN Consumers
      BY <1>11 DEF Crash
    <2>3. QED
      BY <1>11, <2>1, <2>2 DEF Crash
  <1>12. QED
    BY <1>1, <1>2, <1>3, <1>4, <1>5, <1>6, <1>7, <1>8, <1>9, <1>10, <1>11 DEF Dispatch

(* The types are inductive on their own. *)
LEMMA TypeStep ==
    ASSUME TypeOK, [Next]_vars
    PROVE  TypeOK'
  <1>1. CASE UNCHANGED vars
    BY <1>1 DEF vars, TypeOK
  <1>2. CASE Next
    BY <1>1, <1>2, EventStepType, WorkerStepType DEF Next, Quiet
  <1>3. QED
    BY <1>1, <1>2

-----------------------------------------------------------------------------
(* Delivery *)

(* Whoever is at a consumer has the receipts of those before it, and records  *)
(* a receipt for an effect that it has seen taken or found already taken.     *)
ProgressInv ==
    \A w \in Workers :
        now[w] # NoEvent =>
            /\ step[w] \in {"check", "handle", "record"} =>
                   \A i \in 1 .. at[w] - 1 : << Consumers[i], now[w] >> \in receipts
            /\ step[w] = "record" =>
                   \/ effects[Consumers[at[w]]][now[w]] = 1
                   \/ Consumers[at[w]] \in MayAbstain

DeliveryInv == EffectOnce /\ PublishedWasDelivered /\ ProgressInv

(* A receipt comes after its effect, PUBLISHED after all receipts, and neither *)
(* is ever taken back.                                                         *)
LEMMA DeliveryStep ==
    ASSUME TypeOK, TypeOK', DeliveryInv, [Next]_vars
    PROVE  DeliveryInv'
  <1> USE ConstantsType
      DEF DeliveryInv, EffectOnce, PublishedWasDelivered, ProgressInv,
          workerVars, deliveryVars, historyVars, rowVars, Goto
  <1>1. ASSUME NEW e \in Events,
               \/ Enqueue(e) \/ LeaseRunsOut(e) \/ LeaseOverruns(e)
               \/ BecomesDue(e) \/ CheckRetry(e) \/ Retry(e)
        PROVE  DeliveryInv'
    <2>1. /\ UNCHANGED << deliveryVars, workerVars >>
          /\ \A d \in Events : status'[d] = "PUBLISHED" => status[d] = "PUBLISHED"
      BY <1>1 DEF Enqueue, LeaseRunsOut, LeaseOverruns, BecomesDue, CheckRetry, Retry, Expire, TypeOK
    <2>2. QED
      BY <2>1
  <1>2. ASSUME NEW w \in Workers, Claim(w)
        PROVE  DeliveryInv'
    <2>1. /\ UNCHANGED << deliveryVars, now, at, step >>
          /\ \A d \in Events : status'[d] = "PUBLISHED" => status[d] = "PUBLISHED"
      BY <1>2 DEF Claim
    <2>2. QED
      BY <2>1
  <1>3. ASSUME NEW w \in Workers, NEW e \in Events, Begin(w, e)
        PROVE  DeliveryInv'
    <2>1. UNCHANGED << deliveryVars, status >>
      BY <1>3 DEF Begin
    <2>2. /\ at'[w] = 1 /\ step'[w] = "check"
          /\ \A v \in Workers \ {w} : now'[v] = now[v] /\ at'[v] = at[v] /\ step'[v] = step[v]
      BY <1>3 DEF Begin, TypeOK
    <2>3. \A i \in 1 .. at'[w] - 1 : FALSE
      BY <2>2
    <2>4. ProgressInv'
      BY <2>1, <2>2, <2>3
    <2>5. QED
      BY <2>1, <2>4
  <1>4. ASSUME NEW w \in Workers, Check(w)
        PROVE  DeliveryInv'
    <2>1. UNCHANGED << deliveryVars, status, now >>
      BY <1>4 DEF Check
    <2>2. \A v \in Workers \ {w} : at'[v] = at[v] /\ step'[v] = step[v]
      BY <1>4 DEF Check, TypeOK
    <2>3. /\ step'[w] # "record"
          /\ \A i \in 1 .. at'[w] - 1 : << Consumers[i], now[w] >> \in receipts
      <3>1. /\ at[w] \in 1 .. Len(Consumers)
            /\ step[w] = "check"
            /\ now[w] # NoEvent
        BY <1>4 DEF Check, TypeOK
      <3>2. \A i \in 1 .. at[w] - 1 : << Consumers[i], now[w] >> \in receipts
        BY <3>1
      <3>3. CASE << Consumers[at[w]], now[w] >> \in receipts
        <4>1. at'[w] = at[w] + 1 /\ step'[w] = "check"
          BY <1>4, <3>1, <3>3 DEF Check, TypeOK
        <4>2. \A i \in 1 .. at'[w] - 1 : i \in 1 .. at[w] - 1 \/ i = at[w]
          BY <3>1, <4>1
        <4>3. QED
          BY <3>2, <3>3, <4>1, <4>2
      <3>4. CASE << Consumers[at[w]], now[w] >> \notin receipts
        BY <1>4, <3>2, <3>4 DEF Check, TypeOK
      <3>5. QED
        BY <3>3, <3>4
    <2>4. ProgressInv'
      BY <2>1, <2>2, <2>3
    <2>5. QED
      BY <2>1, <2>4
  <1>5. ASSUME NEW w \in Workers, Handle(w)
        PROVE  DeliveryInv'
    <2> DEFINE c == Consumers[at[w]]
    <2>1. UNCHANGED << status, receipts, now, at >>
      BY <1>5 DEF Handle
    <2>2. /\ c \in ConsumerSet /\ now[w] \in Events /\ step[w] = "handle"
          /\ step'[w] = "record"
          /\ \A v \in Workers \ {w} : step'[v] = step[v]
      BY <1>5 DEF Handle, TypeOK
    <2>3. CASE TakeEffect(c, now[w])
      <3>1. /\ effects[c][now[w]] \in {0, 1}
            /\ effects'[c][now[w]] = 1
            /\ \A d \in ConsumerSet, e \in Events :
                   d # c \/ e # now[w] => effects'[d][e] = effects[d][e]
        <4> DEFINE x == now[w]
        <4>1. c \in ConsumerSet /\ x \in Events /\ effects \in [ConsumerSet -> [Events -> Nat]]
          BY <2>2 DEF TypeOK
        <4>2. effects[c][x] \in {0, 1} /\ TakeEffect(c, x)
          BY <2>3, <4>1
        <4> HIDE DEF c, x
        <4>3. effects'[c][x] = 1
          BY <4>1, <4>2 DEF TakeEffect
        <4>4. ASSUME NEW d \in ConsumerSet, NEW e \in Events, d # c \/ e # x
              PROVE  effects'[d][e] = effects[d][e]
          BY <4>1, <4>2, <4>4 DEF TakeEffect
        <4> QED BY <4>2, <4>3, <4>4 DEF x
      <3>2. EffectOnce' /\ \A d \in ConsumerSet, e \in Events : effects[d][e] = 1 => effects'[d][e] = 1
        BY <3>1
      <3>3. PublishedWasDelivered'
        BY <2>1, <3>2
      <3>4. ProgressInv'
        <4> SUFFICES ASSUME NEW v \in Workers, now[v] # NoEvent
                     PROVE  /\ step'[v] \in {"check", "handle", "record"} =>
                                   \A i \in 1 .. at[v] - 1 : << Consumers[i], now[v] >> \in receipts
                            /\ step'[v] = "record" =>
                                   \/ effects'[Consumers[at[v]]][now[v]] = 1
                                   \/ Consumers[at[v]] \in MayAbstain
          BY <2>1
        <4>1. CASE v = w
          BY <2>2, <3>1, <4>1
        <4>2. CASE v # w
          <5>1. step'[v] = step[v]
            BY <2>2, <4>2
          <5>2. step[v] = "record" => Consumers[at[v]] \in ConsumerSet /\ now[v] \in Events
            BY DEF TypeOK
          <5>3. QED
            BY <3>2, <5>1, <5>2
        <4>3. QED
          BY <4>1, <4>2
      <3>5. QED
        BY <3>2, <3>3, <3>4
    <2>4. CASE c \in MayAbstain /\ UNCHANGED effects
      <3>1. ProgressInv'
        BY <2>1, <2>2, <2>4
      <3>2. QED
        BY <2>1, <2>4, <3>1
    <2>5. QED
      BY <1>5, <2>3, <2>4 DEF Handle
  <1>6. ASSUME NEW w \in Workers, HandlePoison(w) \/ Throw(w)
        PROVE  DeliveryInv'
    <2>1. UNCHANGED << deliveryVars, status, now, at >>
      BY <1>6 DEF HandlePoison, Throw
    <2>2. step'[w] = "failed" /\ \A v \in Workers \ {w} : step'[v] = step[v]
      BY <1>6 DEF HandlePoison, Throw, AfterError, TypeOK
    <2>3. QED
      BY <2>1, <2>2
  <1>7. ASSUME NEW w \in Workers, Record(w)
        PROVE  DeliveryInv'
    <2> DEFINE c == Consumers[at[w]]
    <2>1. UNCHANGED << status, effects, now >> /\ receipts' = receipts \cup { << c, now[w] >> }
      BY <1>7 DEF Record
    <2>2. /\ step[w] = "record" /\ now[w] # NoEvent
          /\ at[w] \in 1 .. Len(Consumers)
          /\ at'[w] = at[w] + 1 /\ step'[w] = "check"
          /\ \A v \in Workers \ {w} : at'[v] = at[v] /\ step'[v] = step[v]
      BY <1>7 DEF Record, TypeOK
    <2>3. effects[c][now[w]] = 1 \/ c \in MayAbstain
      BY <2>2
    <2>4. PublishedWasDelivered'
      BY <2>1, <2>3
    <2>5. \A i \in 1 .. at'[w] - 1 : << Consumers[i], now[w] >> \in receipts'
      <3>1. \A i \in 1 .. at'[w] - 1 : i \in 1 .. at[w] - 1 \/ i = at[w]
        BY <2>2
      <3>2. \A i \in 1 .. at[w] - 1 : << Consumers[i], now[w] >> \in receipts
        BY <2>2
      <3>3. QED
        BY <2>1, <3>1, <3>2
    <2>6. ProgressInv'
      BY <2>1, <2>2, <2>5
    <2>7. QED
      BY <2>1, <2>4, <2>6
  <1>8. ASSUME NEW w \in Workers, Publish(w)
        PROVE  DeliveryInv'
    <2>1. /\ UNCHANGED deliveryVars
          /\ now'[w] = NoEvent
          /\ \A v \in Workers \ {w} : now'[v] = now[v] /\ at'[v] = at[v] /\ step'[v] = step[v]
          /\ \A d \in Events : d # now[w] => status'[d] = status[d]
      BY <1>8 DEF Publish, Finish, TypeOK
    <2>2. now[w] # NoEvent /\ step[w] = "check" /\ at[w] = Len(Consumers) + 1
      BY <1>8 DEF Publish, TypeOK
    <2>3. \A i \in DOMAIN Consumers : << Consumers[i], now[w] >> \in receipts
      BY <2>2
    <2>4. \A d \in ConsumerSet : << d, now[w] >> \in receipts
      BY <2>3 DEF ConsumerSet
    <2>5. PublishedWasDelivered'
      BY <2>1, <2>4
    <2>6. QED
      BY <2>1, <2>5
  <1>9. ASSUME NEW w \in Workers, Backoff(w) \/ DeadLetter(w)
        PROVE  DeliveryInv'
    <2>1. /\ UNCHANGED deliveryVars
          /\ now'[w] = NoEvent
          /\ \A v \in Workers \ {w} : now'[v] = now[v] /\ at'[v] = at[v] /\ step'[v] = step[v]
          /\ \A d \in Events : status'[d] = "PUBLISHED" => status[d] = "PUBLISHED"
      BY <1>9 DEF Backoff, DeadLetter, Finish, TypeOK
    <2>2. QED
      BY <2>1
  <1>10. ASSUME NEW w \in Workers, Crash(w)
         PROVE  DeliveryInv'
    <2>1. /\ UNCHANGED << deliveryVars, status >>
          /\ now'[w] = NoEvent
          /\ \A v \in Workers \ {w} : now'[v] = now[v] /\ at'[v] = at[v] /\ step'[v] = step[v]
      BY <1>10 DEF Crash, TypeOK
    <2>2. QED
      BY <2>1
  <1>11. CASE UNCHANGED vars
    BY <1>11 DEF vars
  <1>12. QED
    BY <1>1, <1>2, <1>3, <1>4, <1>5, <1>6, <1>7, <1>8, <1>9, <1>10, <1>11
    DEF Next, Dispatch, Quiet

-----------------------------------------------------------------------------
(* Claims *)

(* Unless its lease was too short or somebody retried it, an event in the     *)
(* hands of a worker is PROCESSING under a live lease and in no other's.      *)
HoldersInv ==
    /\ retrying \subseteq retried
    /\ \A e \in Events \ (overran \cup retried), w \in Workers :
          e \in batch[w] =>
              /\ status[e] = "PROCESSING" /\ lease[e] = "live"
              /\ \A v \in Workers \ {w} : e \notin batch[v]

(* A claim takes what nobody holds, and a worker lets go of what it finishes. *)
LEMMA HoldersStep ==
    ASSUME TypeOK, HoldersInv, [Next]_vars
    PROVE  HoldersInv'
  <1> USE DEF HoldersInv, workerVars, historyVars, rowVars, Expire, Holders
  <1>1. ASSUME NEW e \in Events, Enqueue(e)
        PROVE  HoldersInv'
    BY <1>1 DEF Enqueue, TypeOK
  <1>2. ASSUME NEW e \in Events, LeaseRunsOut(e)
        PROVE  HoldersInv'
    BY <1>2 DEF LeaseRunsOut, TypeOK
  <1>3. ASSUME NEW e \in Events, LeaseOverruns(e)
        PROVE  HoldersInv'
    BY <1>3 DEF LeaseOverruns, TypeOK
  <1>4. ASSUME NEW e \in Events, BecomesDue(e) \/ CheckRetry(e)
        PROVE  HoldersInv'
    BY <1>4 DEF BecomesDue, CheckRetry, TypeOK
  <1>5. ASSUME NEW e \in Events, Retry(e)
        PROVE  HoldersInv'
    BY <1>5 DEF Retry, TypeOK
  <1>6. ASSUME NEW w \in Workers, Claim(w)
        PROVE  HoldersInv'
    <2>1. PICK claimed \in SUBSET { e \in Events : Eligible(e) } :
             /\ batch' = [batch EXCEPT ![w] = claimed]
             /\ status' = [e \in Events |-> IF e \in claimed THEN "PROCESSING" ELSE status[e]]
             /\ lease' = [e \in Events |-> IF e \in claimed THEN "live" ELSE lease[e]]
      BY <1>6 DEF Claim
    <2>2. UNCHANGED << retrying, overran, retried >> /\ batch[w] = {}
      BY <1>6 DEF Claim
    <2>3. \A e \in claimed : e \notin overran \cup retried => \A v \in Workers : e \notin batch[v]
      BY DEF Eligible
    <2>4. batch'[w] = claimed /\ \A v \in Workers \ {w} : batch'[v] = batch[v]
      BY <2>1 DEF TypeOK
    <2>5. SUFFICES ASSUME NEW e \in Events \ (overran \cup retried), NEW u \in Workers, e \in batch'[u]
                   PROVE  /\ status'[e] = "PROCESSING" /\ lease'[e] = "live"
                          /\ \A v \in Workers \ {u} : e \notin batch'[v]
      BY <2>2
    <2>6. CASE e \in claimed
      BY <2>1, <2>3, <2>4, <2>5, <2>6
    <2>7. CASE e \notin claimed
      BY <2>1, <2>4, <2>5, <2>7
    <2>8. QED
      BY <2>6, <2>7
  <1>7. ASSUME NEW w \in Workers, Publish(w) \/ Backoff(w) \/ DeadLetter(w)
        PROVE  HoldersInv'
    <2>1. /\ now[w] \in Events /\ now[w] \in batch[w]
          /\ batch' = [batch EXCEPT ![w] = @ \ {now[w]}]
          /\ \A e \in Events : e # now[w] => status'[e] = status[e] /\ lease'[e] = lease[e]
          /\ UNCHANGED << retrying, overran, retried >>
      BY <1>7 DEF Publish, Backoff, DeadLetter, Finish, TypeOK
    <2>2. \A v \in Workers : batch'[v] \subseteq batch[v] /\ (v = w => now[w] \notin batch'[v])
      BY <2>1 DEF TypeOK
    <2>3. QED
      BY <2>1, <2>2
  <1>8. ASSUME NEW w \in Workers, Crash(w)
        PROVE  HoldersInv'
    <2>1. \A v \in Workers : batch'[v] \subseteq batch[v]
      BY <1>8 DEF Crash, TypeOK
    <2>2. UNCHANGED << status, lease, retrying, overran, retried >>
      BY <1>8 DEF Crash
    <2>3. QED
      BY <2>1, <2>2
  <1>9. ASSUME NEW w \in Workers,
               \/ \E e \in Events : Begin(w, e)
               \/ Check(w) \/ Handle(w) \/ HandlePoison(w) \/ Record(w) \/ Throw(w)
        PROVE  HoldersInv'
    BY <1>9 DEF Begin, Check, Handle, HandlePoison, Record, Throw
  <1>10. CASE UNCHANGED vars
    BY <1>10 DEF vars
  <1>11. QED
    BY <1>1, <1>2, <1>3, <1>4, <1>5, <1>6, <1>7, <1>8, <1>9, <1>10
    DEF Next, Dispatch, Quiet

(* An event that nobody else holds has one holder at most. *)
LEMMA OneHolder ==
    ASSUME TypeOK, HoldersInv
    PROVE  ClaimedByOne
  <1> SUFFICES ASSUME NEW e \in Events, e \notin overran \cup retried
               PROVE  ~(Cardinality(Holders(e)) > 1)
    BY DEF ClaimedByOne
  <1>1. CASE Holders(e) = {}
    BY <1>1, FS_EmptySet
  <1>2. CASE Holders(e) # {}
    <2>1. PICK w \in Workers : e \in batch[w]
      BY <1>2 DEF Holders
    <2>2. Holders(e) = {w}
      BY <2>1 DEF Holders, HoldersInv
    <2>3. Cardinality({w}) = 1
      BY FS_Singleton
    <2>4. QED
      BY <2>2, <2>3
  <1>3. QED
    BY <1>1, <1>2

-----------------------------------------------------------------------------
(* Attempts *)

(* No count of attempts, whether on the row or in a worker's hands, is ahead  *)
(* of the attempts that were begun.                                           *)
CountInv ==
    /\ \A e \in Events : attempts[e] <= begun[e]
    /\ \A w \in Workers, e \in Events : seen[w][e] <= begun[e]
    /\ \A w \in Workers : now[w] # NoEvent => seen[w][now[w]] < begun[now[w]]

AttemptsInv == CountInv /\ NotGivenUpEarly

(* The count moves when an attempt begins; a worker dead-letters on its own copy. *)
LEMMA AttemptsStep ==
    ASSUME TypeOK, AttemptsInv, [Next]_vars
    PROVE  AttemptsInv'
  <1> USE ConstantsType
      DEF AttemptsInv, CountInv, NotGivenUpEarly, workerVars, historyVars, rowVars, Goto
  <1>1. ASSUME NEW e \in Events,
               \/ Enqueue(e) \/ LeaseRunsOut(e) \/ LeaseOverruns(e)
               \/ BecomesDue(e) \/ CheckRetry(e) \/ Retry(e)
        PROVE  AttemptsInv'
    <2>1. /\ UNCHANGED << attempts, begun, seen, now >>
          /\ \A d \in Events : status'[d] = "DEAD_LETTER" => status[d] = "DEAD_LETTER"
      BY <1>1 DEF Enqueue, LeaseRunsOut, LeaseOverruns, BecomesDue, CheckRetry, Retry, Expire, TypeOK
    <2>2. QED
      BY <2>1
  <1>2. ASSUME NEW w \in Workers, Claim(w)
        PROVE  AttemptsInv'
    <2>1. /\ UNCHANGED << attempts, begun, now >>
          /\ now[w] = NoEvent
          /\ \A v \in Workers \ {w} : seen'[v] = seen[v]
          /\ \A e \in Events : seen'[w][e] \in {0, attempts[e]}
          /\ \A e \in Events : status'[e] = "DEAD_LETTER" => status[e] = "DEAD_LETTER"
      BY <1>2 DEF Claim, TypeOK
    <2>2. \A e \in Events : begun[e] \in Nat /\ attempts[e] \in Nat
      BY DEF TypeOK
    <2>3. \A v \in Workers, e \in Events : seen'[v][e] <= begun[e]
      BY <2>1, <2>2
    <2>4. QED
      BY <2>1, <2>3
  <1>3. ASSUME NEW w \in Workers, NEW e \in Events, Begin(w, e)
        PROVE  AttemptsInv'
    <2>1. /\ UNCHANGED << status, seen >>
          /\ attempts'[e] = seen[w][e] + 1 /\ begun'[e] = begun[e] + 1
          /\ \A d \in Events : d # e => attempts'[d] = attempts[d] /\ begun'[d] = begun[d]
          /\ now'[w] = e /\ \A v \in Workers \ {w} : now'[v] = now[v]
      BY <1>3 DEF Begin, Attempt, TypeOK
    <2>2. /\ \A d \in Events : begun[d] \in Nat /\ attempts[d] \in Nat
          /\ \A v \in Workers, d \in Events : seen[v][d] \in Nat
          /\ \A v \in Workers : now[v] \in Events \cup {NoEvent}
      BY DEF TypeOK
    <2>3. \A d \in Events : begun[d] <= begun'[d] /\ begun'[d] \in Nat
      BY <2>1, <2>2
    <2>4. \A d \in Events : attempts'[d] <= begun'[d]
      <3> SUFFICES ASSUME NEW d \in Events PROVE attempts'[d] <= begun'[d]
        OBVIOUS
      <3>1. attempts[d] <= begun[d] /\ seen[w][e] <= begun[e]
        OBVIOUS
      <3>2. CASE d = e
        BY <2>1, <2>2, <3>1, <3>2
      <3>3. CASE d # e
        BY <2>1, <3>1, <3>3
      <3>4. QED
        BY <3>2, <3>3
    <2>5. \A v \in Workers, d \in Events : seen'[v][d] <= begun'[d]
      <3> SUFFICES ASSUME NEW v \in Workers, NEW d \in Events PROVE seen'[v][d] <= begun'[d]
        OBVIOUS
      <3>1. seen[v][d] <= begun[d]
        OBVIOUS
      <3>2. QED
        BY <2>1, <2>2, <2>3, <3>1
    <2>6. \A v \in Workers : now'[v] # NoEvent => seen'[v][now'[v]] < begun'[now'[v]]
      <3> SUFFICES ASSUME NEW v \in Workers, now'[v] # NoEvent
                   PROVE  seen'[v][now'[v]] < begun'[now'[v]]
        OBVIOUS
      <3>1. CASE v = w
        <4>1. seen[w][e] <= begun[e]
          OBVIOUS
        <4>2. QED
          BY <2>1, <2>2, <3>1, <4>1
      <3>2. CASE v # w
        <4>1. now'[v] = now[v] /\ now[v] \in Events /\ seen[v][now[v]] < begun[now[v]]
          BY <2>1, <2>2, <3>2
        <4>2. QED
          BY <2>1, <2>2, <2>3, <4>1
      <3>3. QED
        BY <3>1, <3>2
    <2>7. NotGivenUpEarly'
      <3>1. \A d \in Events : status[d] = "DEAD_LETTER" => begun[d] >= MaxAttempts
        BY DEF NotGivenUpEarly
      <3>2. QED
        BY <2>1, <2>2, <2>3, <3>1
    <2>8. QED
      BY <2>4, <2>5, <2>6, <2>7
  <1>4. ASSUME NEW w \in Workers, Publish(w) \/ Backoff(w) \/ DeadLetter(w)
        PROVE  AttemptsInv'
    <2>1. /\ UNCHANGED << attempts, begun >>
          /\ now[w] \in Events /\ now'[w] = NoEvent
          /\ \A v \in Workers \ {w} : now'[v] = now[v] /\ seen'[v] = seen[v]
          /\ \A e \in Events : seen'[w][e] \in {0, seen[w][e]}
          /\ \A e \in Events : e # now[w] => status'[e] = status[e]
      BY <1>4 DEF Publish, Backoff, DeadLetter, Finish, TypeOK
    <2>2. \A e \in Events : begun[e] \in Nat /\ seen[w][e] \in Nat
      BY DEF TypeOK
    <2>3. status'[now[w]] = "DEAD_LETTER" => seen[w][now[w]] + 1 >= MaxAttempts
      BY <1>4, <2>1 DEF Publish, Backoff, DeadLetter, Finish, Exhausted, Attempt, TypeOK
    <2>4. CountInv'
      BY <2>1, <2>2
    <2>5. NotGivenUpEarly'
      BY <2>1, <2>2, <2>3
    <2>6. QED
      BY <2>4, <2>5
  <1>5. ASSUME NEW w \in Workers, Crash(w)
        PROVE  AttemptsInv'
    <2>1. /\ UNCHANGED << status, attempts, begun >>
          /\ now'[w] = NoEvent
          /\ \A v \in Workers \ {w} : now'[v] = now[v] /\ seen'[v] = seen[v]
          /\ \A e \in Events : seen'[w][e] = 0
      BY <1>5 DEF Crash, TypeOK
    <2>2. \A e \in Events : begun[e] \in Nat
      BY DEF TypeOK
    <2>3. QED
      BY <2>1, <2>2
  <1>6. ASSUME NEW w \in Workers,
               Check(w) \/ Handle(w) \/ HandlePoison(w) \/ Record(w) \/ Throw(w)
        PROVE  AttemptsInv'
    BY <1>6 DEF Check, Handle, HandlePoison, Record, Throw
  <1>7. CASE UNCHANGED vars
    BY <1>7 DEF vars
  <1>8. QED
    BY <1>1, <1>2, <1>3, <1>4, <1>5, <1>6, <1>7 DEF Next, Dispatch, Quiet

-----------------------------------------------------------------------------
(* Theorems *)

(* The inductive invariant. *)
IndInv == TypeOK /\ DeliveryInv /\ HoldersInv /\ AttemptsInv

(* The inductive invariant: what a receipt stands for, what a lease protects *)
(* and what a count of attempts is worth, at every point of a dispatch.      *)
THEOREM IndInvariant == Spec => []IndInv
  <1>1. Init => IndInv
    <2> SUFFICES ASSUME Init PROVE IndInv
      OBVIOUS
    <2>1. TypeOK
      BY InitType
    <2>2. DeliveryInv
      BY DEF Init, DeliveryInv, EffectOnce, PublishedWasDelivered, ProgressInv
    <2>3. HoldersInv
      BY DEF Init, HoldersInv
    <2>4. AttemptsInv
      BY DEF Init, AttemptsInv, CountInv, NotGivenUpEarly
    <2>5. QED
      BY <2>1, <2>2, <2>3, <2>4 DEF IndInv
  <1>2. IndInv /\ [Next]_vars => IndInv'
    BY TypeStep, DeliveryStep, HoldersStep, AttemptsStep DEF IndInv
  <1>3. QED
    BY <1>1, <1>2, PTL DEF Spec

(* Every variable of the relay keeps its type: a worker is at an event of its *)
(* own batch and at a consumer that exists.                                   *)
THEOREM TypeCorrect == Spec => []TypeOK
  <1>1. IndInv => TypeOK
    BY DEF IndInv
  <1>2. QED
    BY <1>1, IndInvariant, PTL

(* However many workers deliver an event however often, each consumer takes   *)
(* effect for it at most once: its unique key outlasts a lost receipt.        *)
THEOREM ConsumersTakeEffectOnce == Spec => []EffectOnce
  <1>1. IndInv => EffectOnce
    BY DEF IndInv, DeliveryInv
  <1>2. QED
    BY <1>1, IndInvariant, PTL

(* dispatch marks an event PUBLISHED only when every consumer has a receipt,  *)
(* written by this dispatch or an earlier one, for an effect that was taken.  *)
THEOREM PublishedMeansDelivered == Spec => []PublishedWasDelivered
  <1>1. IndInv => PublishedWasDelivered
    BY DEF IndInv, DeliveryInv
  <1>2. QED
    BY <1>1, IndInvariant, PTL

(* The claim under SKIP LOCKED and a lease keeps an event out of the hands of *)
(* a second worker until the lease runs out or an operator interferes.        *)
THEOREM ClaimsAreExclusive == Spec => []ClaimedByOne
  <1>1. IndInv => ClaimedByOne
    BY OneHolder DEF IndInv
  <1>2. QED
    BY <1>1, IndInvariant, PTL

(* The count of attempts may be overwritten with an older one, never with one *)
(* ahead of the attempts made: no event is dead-lettered before its time.     *)
THEOREM AttemptsAreUsedUp == Spec => []NotGivenUpEarly
  <1>1. IndInv => NotGivenUpEarly
    BY DEF IndInv, AttemptsInv
  <1>2. QED
    BY <1>1, IndInvariant, PTL
=============================================================================
