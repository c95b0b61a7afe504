# Stockora, formally

TLA+ models of the parts of Stockora whose correctness depends on concurrency,
failure and order: the inventory ledger and what stock is worth, the documents
that move stock (releases, transfers, receipts, adjustments, counts, returns),
reservations, serialized units, the transactional outbox with the notifications
it leads to, and the mobile client that works offline. TLC checks small
instances; TLAPS proves the safety of the ledger, costing, reservations, the
outbox relay and notifications for every instance, that the ledger's
transactions implement its specification, and of the documents that the ledger
has moved what they say, that a task completes when its count is in the ledger,
that quarantined stock is what returns have left, and that no adjustment above
the threshold moves stock without two approvals. Paths below are relative to
`apps/api/src` of the repository unless they say otherwise.

## The system

Stockora is a multi-tenant inventory application: a NestJS API over one
Postgres database (Prisma), a Next.js web client and an offline-capable
warehouse client. Requests share no memory: every request,
timer and poller is a process of its own, several API processes may run, and
everything they share is in Postgres at READ COMMITTED. So the interesting
units are transactions, row locks, unique indexes and what a handler read
before the transaction in which it uses it.

| Component | State | Operations | Interacts with | Hard behaviour | What makes it correct |
|---|---|---|---|---|---|
| Inventory ledger (`inventory/inventory-posting.service.ts`) | balance rows with five buckets, append-only movements, a number sequence | openingBalance, receive, release, transferDispatch/Receive, adjust, returns, postLines, reverseMovement | called by every document service; costing inside its transaction | lock order, duplicates racing past the key look-up, rollback after partial writes | balance = sum of the journal; nothing oversold; one posting per key; dense numbers; a command is atomic |
| Reservations (`reservations/`) | status, lines with consumed quantity, the `reserved` bucket | create, confirm, release, cancel, expireDue (timer), validate/recordConsumption | writes balances directly, off the ledger; releases consume its lines | decisions on what was loaded earlier, expiry timers, two writers of one bucket | what is reserved is what active reservations have left; no more consumed than held; ended is ended |
| Releases (`releases/`) | status, items, approved and released quantities | create, update, submit, approve, reject, post, cancel | ledger, reservations, lots, serials | post is two transactions with a crash between them | stock leaves once per release, and iff it is RELEASED |
| Outbox and relay (`outbox/`) | events with status, lease, attempts; receipts | enqueue (in the domain transaction), claim, dispatch, backoff, dead-letter, retry | consumers: `projections/`, `notifications/` | leases, crashed and slow workers, redelivery, poison events | effect once; PUBLISHED means delivered; every event settles |
| Notification delivery (`notifications/delivery/`) | deliveries with status, lease, attempts | created by the consumer; claim, send, skip, fail | relay, preferences, e-mail and webhook adapters | a lease without a receipt around an outside effect | no message lost; sent twice only after a fault |
| Transfers (`transfers/`) | status, dispatched and received quantities | create, submit, approve, dispatch, receive, cancel | ledger, serials, mobile commands | desktop and mobile keys differ; two transactions per step | in transit = dispatched - received |
| Receiving, adjustments (`receiving/`, `adjustments/`) | documents and lines | create, submit, approve(s), post, cancel | ledger, lots, serials | two transactions | posted once; two different approvers |
| Counts and cycle counts (`counts/`, `cycle-count/`) | counts with system and counted quantities, tasks | create, enterCounts, submit, approve, post; generate, assign, start, recount | ledger, outbox | variance against a stale system quantity; task completed after the post | adjustment equals the variance; the task of a posted count completes |
| Returns (`returns/`) | lines with received and disposed quantities | create, receive, cancel, dispose | ledger, serials | status rolled up from rows that are not locked | COMPLETED iff everything is disposed |
| Costing (`inventory/costing.service.ts`) | policies, average of a row, cost layers, consumptions | openLayers, consumeFifo, cost bases, upsertPolicy | inside the ledger's transaction | reversals, returns, switching under traffic, rounding | layers left = on hand, used oldest first; a transfer keeps cost |
| Serials (`serials/`) | units with status and row | register, transition, reconcile | receiving, transfers, adjustments, counts, returns | units and quantities moved in different transactions | units of a row = its quantities |
| Lots, shelf life (`lots/`, `shelf-life/`) | lots, expiry facts | resolveLot, fefoPlan, scanExpiryFacts | releases, receiving, outbox | facts found twice | one fact per threshold |
| Sessions (`auth/`) | refresh tokens in families | create, rotate, revoke | every request | rotation races | one live token per family |
| Mobile commands (`mobile/`, `apps/web/lib/mobile`) | journal of the device, command log | capture, sync, retry, discard; submit, apply, classify | transfers, receiving, counts, returns | lost answers, several tabs, requests that race for one command | what is shown SYNCED is done, and done once |
| Imports, exports, master data, users, roles, audit, reports, search, UI | rows | create, read, update, list | - | none that a model would show | - |

## Modules

| Module | Models | Code |
|---|---|---|
| `InventoryConstants` | buckets, direction table, lines, guards, movements | `inventory/inventory.constants.ts`, types of the posting service |
| `StockLedger` | what the ledger promises: atomic commands, once per key | the postconditions of `postSpecs` |
| `InventoryPosting` | the transactions that keep the promise | `inventory/inventory-posting.service.ts` |
| `InventoryPostingProofs` | theorems and proofs about it | |
| `StockLedgerProofs` | what the ledger makes of a list of lines, step by step | |
| `Reservations` | reservations, the expiry timer, the workflow and posting of releases, over `StockLedger` | `reservations/reservations.service.ts`, `releases/releases.service.ts` |
| `ReservationsProofs` | theorems and proofs about it | |
| `Costing` | averages, cost layers, cost bases, the strategy | `inventory/costing.service.ts`, cost part of the posting service |
| `CostingProofs` | theorems and proofs about it | |
| `Serials` | units and their guards, over `StockLedger` | `serials/serials.service.ts` |
| `Documents` | what the handlers of all documents have in common | the pattern of the services below |
| `Transfers`, `Receiving`, `Adjustments`, `Counts`, `Returns` | one document service each | the service of that name |
| `CycleCounts` | tasks, over `Counts` | `cycle-count/cycle-count.service.ts`, last transaction of `counts/` |
| `Warehouse` | all documents together, and their properties | the controllers: anybody may ask for anything |
| `WarehouseProofs` | theorems and proofs about it: approvals, ledger and documents, tasks, quarantine | |
| `MobileSync` | the device and the command log, over `Warehouse` | `mobile/mobile-command.service.ts`, `apps/web/lib/mobile/` |
| `OutboxRelay` | outbox, relay, consumers as it sees them | `outbox/`, `projections/operational-fact.consumer.ts`, `notifications/notification.consumer.ts` |
| `OutboxRelayProofs` | theorems and proofs about it | |
| `Notifications` | deliveries and senders, over `OutboxRelay` | `notifications/delivery/`, `notifications/notification.consumer.ts` |
| `NotificationsProofs` | theorems and proofs about it, over those of the relay | |
| `Sums` | lemmas: least naturals, sums over finite sets | |
| `MC...` | instances for TLC | |

A definition whose comment begins with "Fault:" is not part of a model. It is
the definition after it with a plausible mistake; `PROJECT.json` ("mutants")
pairs each property with the fault that breaks it.

### InventoryPosting

`balance`, `movements` and `sequence` are the committed tables; `draft` and
`out` are what the open transaction of a call has written. `rowLock` and
`seqLock` are the row locks of READ COMMITTED. An action is what happens
between two points at which a transaction may wait or be seen:

- `Submit`: an entry point up to the transaction, that is the look-up by key;
- `Reverse`: `reverseMovement` up to the transaction;
- `LockRow`: `lockOrCreateBalance`, and the row as it is then seen;
- `Insert`: guards, balance update, `nextNumber`, insert of the movement;
  `Refuse`: the guards fail; `LoseKey`: the unique key was taken meanwhile;
- `Commit`, `ReadWinner` (the catch block), `DeadlockVictim`, `Fail`.

A balance row stands for product, variant, warehouse and lot. The direction
table of the constants is modelled type by type; a line may also carry explicit
deltas, as reversals, releases and receipts into quarantine do. The three
sources of permission to go negative are one flag. What a movement is worth is
in `Costing`.

`StockLedger` has the same journal and rows and one action: a command takes
effect whole, if its key is new and every line is admissible in turn.
`InventoryPosting!ImplementsLedger` is the refinement: the mapping is the
identity on committed state, so all the rest stutters.

### Reservations

A worker is a request being handled, or the expiry timer. `Load...`, `FindDue`
and `LoadPost` are the reads outside a transaction; `job` holds what was read,
and the later actions use it, stale as it may be. A transaction is one step
when it locks what it reads, as those of confirm, expiry and the ledger do. The
second transaction of `post` is two (`Record`, `Close`), for it reads the other
lines of a reservation without locking them. `Validate` makes one step of
`validateConsumable` and the look at the lots: they only read.

The ledger's transaction is `StockLedger!Post`: `InventoryPosting` is shown to
implement it. `MayOverlap` says which operations may be under way on one
document at the same time; the code has no such lock, and the constant is there
to ask separately what holds without such races and what holds with them. A
product has a lot-less row, on which reservations are held, and possibly lot
rows, from which batch-tracked items leave. An item takes one lot. Drafting and
editing of documents come before the run, and serial numbers are left out.

### Documents, Warehouse

A worker is a request, `job` what it has loaded, `pc` where it is. All services
have one form: load and check outside any transaction (`Load...`), then either
one transaction that posts and writes the document (`Enter`, then `Close...`:
receipts, adjustments, counts, dispositions), or the
ledger's own transaction (`Take`) and another that records it (`Look`,
`Record...`: dispatch and receipt of transfers, intake of returns). A crash may
come between any two steps (`Fail`); so may any other handler. `Advance` is the
write of a status, which asks for nothing but the id. A document's transaction
holds the number-sequence row from its first movement to its commit, so no two
of them overlap (`SequenceFree`), and a refused one leaves nothing. Status and
items of a document, its quantities and its units are separate tables and
separate variables.

`StockLedger!Post` stands for the ledger, as in `Reservations`. `Serials` keeps
of each unit its status and its row; a unit moves with its line. Items name
their units from the start: the same document always brings the same ones.
`Warehouse` puts the services together: any user may ask for any operation that
its service lets begin. As in `Reservations`, `MayOverlap` says which operations
may be under way on one document at a time. In `documents` these are nearly all
of them: the exceptions are edits, the submission of an adjustment, entering and
submitting a count, intake and cancellation of a return. `ShareUnits = FALSE`
keeps two documents that name one unit from being handled at the same moment
(not from both naming it). What breaks without these is below.

Left out are the early returns of a request for what is done already, which
change nothing, and locations. A transfer is received whole, as `receive` has it.

`Counts` freezes what the books say when a count is made and posts the
difference, so it commutes with what moves in the meantime. In `CycleCounts` a
task has one count at most (unique index) and a row one active task (partial
unique index). `startTask`, `cancelTask` and the completion in `post` are each
two or three transactions.

### MobileSync

The journal of the device (`local`) is shared by its tabs, of which one may hold
the sync lock. A tab reads the journal, then submits command after command, as
read; `GiveUp` is the timeout, after which the request may still be on its way
(`wire`), at a worker, or gone. On the server `receipt` is the row of the
command log. `Accept`, `Intake`, `CompareVersion`, `Apply`, `GoOn` and `Answer`
are the statements of `submit`; the services they call are those of `Warehouse`,
step by step, with the mobile keys. A service that finds its work done
(`DoneBefore`) answers as if it had done it. `CONFLICT` and `REJECTED` differ in
wording only and are one state, DECLINED. A count and a receipt are two calls
(enter and submit; edit and post), and a crash between them is a step like any
other.

### Costing

Posters go through `Begin` (the lock of the row and the strategy read) and
`Commit`; the sequence row and the locks on layers make one step of what
follows. Costs are whole multiples of the smallest unit kept, with half-up
rounding (`Rounded`). The lots of a product in a warehouse have rows of their
own and share the layers of their scope. An inflow opens layers at its own cost,
at those of the movement it returns, or at the average; each returned serialized
unit is given the first cost of the movement that issued it, as the code has it.

### Notifications

The relay of `OutboxRelay` runs with the notification consumer, whose effect
writes the deliveries. Senders repeat its lease protocol, without receipts. `SendMessage`
is outside the database. `SendThrows` is the update to SENT that fails after the
message went out, which the code treats as a failed send.

### OutboxRelay

A worker is the poller of one API process. `Claim` is the claim transaction;
the following actions are the statements of `dispatch`, each a transaction of
its own. `Handle` is a consumer's transaction, which inserts under a unique
key or finds it taken; the notification consumer may find nobody to notify. An
`Enqueue` is the domain transaction that commits the event. The clock is
reduced to what it decides: whether a row is due, whether its lease has run out
(of a worker that is gone, or of one that is slow), which leaves any speed and
any skew possible. A batch is any set of eligible rows, since locked rows are
skipped.

## What is checked

| Run | Question | Bounds |
|---|---|---|
| `posting` | do concurrent postings keep journal, rows, keys and numbers, answer duplicates, end, and implement `StockLedger`? | 3 calls, 2 rows, 4 commands of up to 3 lines, 1 reversal |
| `reservations` | are reserved, consumed and status consistent while handlers of one document take turns, with a crash anywhere? | 2 users and the timer, 2 reservations of 3 lines, 2 releases of 2 items, 1 failure |
| `reservation_races` | what survives when all handlers overlap? | 2 users and the timer, 2 reservations, 2 approved releases |
| `reservation_double_post` | is a line consumed beyond its quantity? **Yes**, by two concurrent posts of one release | 1 release, 2 users |
| `documents` | does the ledger tell what documents say, are units where quantities are, is quarantine accounted for, with races and a crash? | 2 workers; transfer with adjustment, receipt or count of the same stock and units; a return; 2 tasks; 1 failure |
| `count_orphaned` | is the count of a cancelled task ever left open? **Yes** | 2 workers, 1 task |
| `mobile_sync` | is what the device shows as SYNCED done, and done once? | 2 tabs, 2 workers, 5 commands, 3 sends, 1 crash or closed tab |
| `mobile_double_dispatch` | may desktop and mobile dispatch one transfer twice? **Yes** | as before |
| `costing` | do layers cover stock and go oldest first, do transfers keep cost, is the average between the costs? | 2 posters, 3 rows in 2 warehouses, costs 1 and 4, 4 movements of up to 2 units |
| `outbox_relay` | safety of delivery | 2 workers, 2 events, 2 consumers, 2 attempts; 1 each of crash, overrun lease, transient error, retry |
| `outbox_liveness` | does every event settle, and every healthy one get published? | 2 workers, 2 events, 1 consumer, 3 attempts |
| `notifications` | from the commit of an event: is everybody told, does every delivery settle, does a second message have a cause? | 1 event, 2 deliveries (one broken), 2 senders, 3 attempts, 2 troubles |

The bounds are the smallest in which the races exist. Deadlock needs two calls
that lock two rows in opposite orders, a lost key two duplicates, and the third
call is there to commit in between. A write skew needs two lines of one
reservation and two releases. A receipt is only of use if an event is delivered
twice, which takes a second worker or a crash. A race for a document needs two
workers, and one that also dies between its transactions a failure; a third
document would only add another such pair, since documents meet in rows and
units alone (`MaxDocuments = 1` lets a document be created where there is none).
Costs need two prices for an order of layers to matter, two rows in one scope
for lots to share them, and four movements for buy, buy, sell, return or
transfer. A command meets itself when it is sent twice, and its closed tab when
a third time. Names of bounds: `MaxReversals`, `MaxFailures`, `MaxThrows`,
`MaxCrashes`, `MaxOverruns`, `MaxRetries`, `MaxTroubles`, `MaxDocuments`,
`MaxSends`, `MaxMovements`, `MaxQty`. Where a bound could matter for liveness it
is part of the claim: `HealthyPublished` and `EventsReachRecipients` hold
because the errors and crashes of those runs are fewer than the attempts
(three); an event that meets more of them than it has attempts is dead-lettered,
as it should be. `costing` switches deadlock checking off, for its journal is
bounded and then everybody stops.

The three runs that end in a violation are disagreements between the code and
its documents; `PROJECT.json` ("findings") quotes both.

### What the models show not to hold

Found while modelling: by TLC, with the race or fault in question let into the
model, or by reading where the models leave the step out.

- `openingBalance` twice at once under one key: the loser is answered with no
  movements, since the catch block looks for its own drawn reference
  (`inventory-posting.service.ts:383`). Quantities stay right.
- A release without a reservation takes what others have reserved: available
  goes below zero (`inventory-posting.service.ts:471`; `docs/adr/0001:13` says it
  cannot).
- A movement may be reversed twice (`inventory-posting.service.ts:284`).
- An event that kills its worker is claimed after each lease, for ever
  (`outbox-relay.service.ts:73`; `docs/adr/0010:67` says bounded). The same holds
  of a delivery, and there the message may have gone out each time.
- Two items of one release that name one reservation line are each checked
  against what the line has left, and consume more than that together
  (`releases.service.ts:255`). `DistinctLines`, a hypothesis below, rules it out.
- With edits allowed to overlap, an edit that loaded a DRAFT replaces the items
  of a transfer dispatched since, or of a receipt posted since.
- A cancel that loaded an APPROVED transfer overwrites IN_TRANSIT: the goods are
  not received any more. Likewise for counts, returns and releases.
- Two requests that submit one adjustment at once each write SUBMITTED and
  whether a second approver is wanted (`adjustments.service.ts:142`). If the
  later one comes when the adjustment has been approved by one and posted, and
  the average cost has risen by then, it wants an approval that was not given.
- Intake of a return tried again after a crash, with other quantities: the
  ledger has the first ones, the document the second.
- `dispose` does not ask whether a unit came with the line it disposes of.
- With `ShareUnits`, two documents pass the check of a unit before either has
  moved it (`serials.service.ts:535-562`).
- A count posted, and a crash before its task is completed: posting again
  returns early, the task stays IN_PROGRESS, `cancelTask` refuses it and the
  index keeps the row from being counted again.
- A count that lists serialized units cannot be posted once one of them moved.
- With `SwitchUnderWay`, a switch to FIFO races with a receipt: stock without
  layers, which no sale can be costed from and all are refused. A reversed
  receipt leaves its layers behind (`docs/adr/0013` §9 promises otherwise), so
  `Reversible` has sales only. Goods dispatched under average cost are refused
  at their destination if the strategy has become FIFO by then.
- On the device: a command that was SYNCING when its tab closed is never
  submitted again (`submit.ts:95`), and a failed capture that is built anew
  under its old command id fails for ever. Retry from the inbox of conflicts is
  always answered with the first answer. A late answer to an abandoned attempt
  overwrites APPLIED with CONFLICT in the log. A document that the desktop
  client cancels while its command is applied may be taken for done.

### Fairness

- `InventoryPosting!FairSpec`: weak fairness of each call's own steps. Node
  goes on with a request and Postgres grants a lock when it is free and aborts a
  transaction of a cycle. Failing is never forced.
- `Reservations!FairSpec`: handlers go on, and the timer of
  `reservations.module.ts` fires again and again. Users need do nothing.
- `Notifications!NotifyFairSpec`: the same of its relay, and of the senders of
  `notification-delivery.poller.ts`. A lease that runs out on a live sender, an
  error or an opt-out is never forced.
- `OutboxRelay!FairSpec`: pollers tick and go on with their batch
  (`outbox-poller.ts`), and time passes: a due date arrives, an abandoned lease
  runs out. A worker that has died is the poller of the restarted process. A
  consumer that never returns would block its poller and is not assumed away
  in the safety runs, which have no fairness.

## What is proved

`InventoryPostingProofs` proves of `InventoryPosting!Spec`, for any sets of
calls, rows, commands, keys and any length of commands:

- `TypeCorrect`: `[]TypeOK`;
- `NeverOversold`: `[]NoOversell`;
- `KeyPostsOnce`: `[]OncePerKey`;
- `NumbersLeaveNoGap`: `[]NumbersDense`;
- `TransactionsImplementLedger`: `ImplementsLedger`, the refinement;
- `JournalExplainsBalance`: `[]Reconciled`;
- `ReplaysAnswerAsFirst`: `[]ReplayAnswersAsFirst`, if `KeysNameDocuments`: a key
  comes with one document, and not with reversals. The services' own keys are
  made from the document's id; that a caller who chooses keys keeps to it,
  nothing checks.

None of the first four but the types is inductive: each is about committed state, and what a
commit makes of it depends on what the transaction has written and on what
others could not do in the meantime. The invariant `IndInv` adds

- `TransactionInv`: where a transaction is, how many movements it has inserted,
  and that it holds the row it is about to write and, once it has inserted
  anything, the sequence row;
- `InsertedInv`: what it has inserted bears the numbers after the committed
  ones, and a key, on the first movement only, that no committed one has. This
  survives the commits of others because only the holder of the sequence row
  has inserted anything;
- `DraftInv`: the rows it has locked satisfy what `NoOversell` asks, with the
  override, if there is one, either committed or in its own insertions.

There is one lemma per action (`SubmitStep`, `LockRowStep`, `InsertStep`,
`CommitStep`, `RollbackStep`, `ReadWinnerStep`), and `IndInvariant` puts them
together.

The other three need what a transaction sees. `Viewed` says of each call that
its command is one that was asked for (`Asked`), that what it has inserted are
the movements of its first lines (`Inserted`), and that the balance it sees -
its draft where it holds the lock, the committed row elsewhere - is what those
lines make of the committed balance, one admissible line after the other
(`Sees`, `Walks`). A commit of somebody else changes only rows that this
transaction has not locked, so the walk can be rebased on the new balance
(`WalksRebased`). At the commit the walk is complete, and `StockLedgerProofs`
says that the ledger's fold over the lines is such a walk: the step is a `Post`
(`CommitIsLedgerStep`), and every other step stutters (`OthersStutter`).
`Reconciled` follows line by line, both sides being sums over the journal and
its extension. Replays rest on `ReplayInv`: each movement is in the answer of
exactly one posting, whose reference it bears, and one of them has its key; so
the movements found by reference are those that the posting answered with.

Assumed are `CommandsAssumption` (a command has a line; a drawn
reference is nobody's document) and `NullsAssumption` (null values are not
values); TLC evaluates both. The proof does not assume that sets are finite.

`OutboxRelayProofs` proves of `OutboxRelay!Spec`, for any events, consumers and
workers and any values of the bounds: `TypeCorrect`, `ConsumersTakeEffectOnce`
(`[]EffectOnce`), `PublishedMeansDelivered` (`[]PublishedWasDelivered`),
`ClaimsAreExclusive` (`[]ClaimedByOne`) and `AttemptsAreUsedUp`
(`[]NotGivenUpEarly`). Its `IndInv` adds to these

- `ProgressInv`: a worker at the i-th consumer of an event has the receipts of
  those before it, and one that is about to write a receipt has seen the effect;
- `HoldersInv`: an event in a worker's hands is PROCESSING under a live lease
  and in nobody else's, unless it overran or was retried by hand;
- `CountInv`: no count of attempts, on the row or in the hands of a worker, is
  ahead of the attempts that were begun, so a stale write can only lower it.

The types are inductive alone, and the three parts are each inductive with
them: one lemma for each. Assumed is `RelayAssumption` (the consumers are a
sequence, the limits numbers, the null event no event), which TLC evaluates.

`NotificationsProofs` proves of `Notifications!NotifySpec`, the relay and the
senders together, `MessagesAreAccountedFor` (`[]SecondMessageHasCause`) and the
types. `SecondMessageHasCause` counts what has gone out; the invariant
`AccountInv` adds what still may without a further fault: the senders that have
a delivery in hand before sending, and the row if it can be claimed. What has
gone out and what may add up to one, and one for each crash, error and lease
that ran out. A claim moves one from the row to a sender, a send from the sender
to the recipient, and only a fault makes a new one.

`CostingProofs` proves of `Costing!Spec`, for any rows, costs, quantities and
posters:

- `OldestUsedFirst`: `[]OldestFirst`. What an outflow takes of a layer
  (`Taken`) is the difference of two partial sums, which telescopes;
- `TransfersKeepCost`: `[]TransferKeepsCost`. `PaidInv` adds that layers of one
  movement stay together and keep what they cost;
- `AverageStaysBetween`: `[]AverageWithinCosts`, if `OnlyOutflowsReversed`. A
  rounded blend lies between what is blended (`BlendBetween`), as long as neither
  weight is negative; the reversal of a receipt can make one so, and the average
  then leaves the range;
- `LayersAreTheStock`: `[]LayersCoverStock`, if `OnlyOutflowsReversed` and
  `~SwitchUnderWay`: both hypotheses exclude what is listed above as not holding,
  and `CoverInv` says what the switch itself finds: layers are exactly the stock
  under FIFO, and used up under average cost.

All four use `CostingInv`, the types with what entries and postings under way
refer to: an earlier movement, whose units are those of the layers consumed.

`ReservationsProofs` proves of `Reservations!Spec`, for any documents, products,
lots, quantities and workers, with no hypothesis but the assumptions on constants:

- `ReservationsTypeCorrect`: `[]TypeOK`;
- `RowsStayNonNegative`: `[]RowsNeverNegative`, along the lines of a posting;
- `ConfirmsWithinStock`: `ConfirmNeverOversells`, the action property: what the
  rows have free covers what a confirmation writes on them;

and under hypotheses on which handlers overlap, which are those of the runs:

- `ReleasesLeaveOnce`: `[]StockLeavesOnce`, if `OwnKeys`: releases are posted
  under the service's own key. `KeyInv` adds that a handler past the ledger
  leaves the key in the journal, whatever became of the release;
- `ReservationsEndOnce` (`EndedStaysEnded`) and `StatusesTellConsumption`
  (`[]StatusTellsConsumption`), if `Exclusive`: on one document only the expiry
  timer overlaps. `FactsInv` says that what a handler has loaded is then still
  so, which `reservation_double_post` shows to fail without the hypothesis;
- `ConsumptionWithinQuantity` (`[]ConsumedWithinQuantity`), if moreover
  `DistinctLines`: items of a release name lines of their own;
- `ReservedStaysHeld` (`[]ReservedHeld`), if all three. `HeldInv` turns the
  three sums of the property - over reservations, over half-posted releases,
  over rows - into one over lines (`HeldSum`), and each step changes that sum
  by what it writes on the balance.

`WarehouseProofs` proves of `Warehouse!WarehouseSpec`, for any documents of any
kind, users and workers:

- `LedgerMovesWhatDocumentsSay` (`[]LedgerTellsDocuments`) and
  `TasksCompleteCounted` (`[]CompletedMeansCounted`), if `RequestsInOrder`;
- `QuarantineIsAccountedFor` (`[]QuarantineAccounted`), if moreover `ReturnsInOrder`;
- `NothingMovesUnapproved` (`[]TwoPeopleApproved`), if two requests do not
  submit one adjustment at once (edits may overlap, which the run leaves out).

All steps of other documents, about forty actions, are dealt with at once:
`Step(w, D)` says what a handler of documents `D` may do to statuses, items,
journal and workers, and `WhoSteps` that every step of the system is one of
these. `Journal` and `JobInv` say that what a request is about to post are lines
the ledger takes, under a key it came with; so, by `StockMoves`, a step moves
stock for the document of its own handler only, and uses no key but that of its
request.

`RequestsInOrder` says three things. Requests to post a receipt, an adjustment
or a count come with one key, and the two postings of a transfer with one each,
which no other document uses; as the services make them from the document's id
when a caller brings none (`transfers.service.ts:256,328`,
`receiving.service.ts:222`, `adjustments.service.ts:259`,
`counts.service.ts:271`). And who rewrites the items of such a document, or
enters a count, is alone with it; nothing in the code sees to that, and what
becomes of it otherwise is said above. Everything else may overlap: approvals,
cancellations, two posts, two dispatches, a dispatch with a receipt, steps of a
task; each may fail between its transactions and be asked for again.

What a document says, what the ledger has and what requests are about to do then
have to be told together, which `LedgerInv` does, kind by kind:

- `OnceInv`, of what is posted in one transaction with its document: as long as
  it may be edited nothing is posted; if it is, the ledger has moved what its
  items say (`Due`), and has its key. So a second request to post it either
  loaded the same items, and the ledger refuses the key, or has nothing to move,
  and changes nothing. A request that decides on a status decides on none that
  would make the document editable, or POSTED;
- `TransferInv`, of what is posted in a transaction of the ledger's and recorded
  in the next: the two keys tell what has moved (`LedgerHas`); what is on the
  items has moved (`OnItems`), the converse being false after a crash; and a
  request past the ledger has its key there, whether it is the request that
  posted or one that found the key taken;
- `CountInvs`, of counts and tasks: whoever submits, approves or posts a count
  has loaded it counted, and what is counted stays so, which is why a completion
  finds it; the status COMPLETED comes with the completion's event.

`LedgerInv` as a whole is inductive (`LedgerInitially`, `LedgerStepKeeps`) and
contains the two properties (`LedgerInvImplies`). One step of a document's own
handler is a lemma per action; `OnceAside`, `TransferAside` and `CountsElsewhere`
are the rest.

`QuarantineInv` adds to `LedgerInv` what `QuarantineAccounted` needs, which equates
a row's bucket with a sum over the lines of all returns:

- `BooksInv`: every bucket of every row holds what it opened with and what the
  documents have moved there, a sum over documents. Each posting adds to one
  term (`StockStepKeepsBooks`);
- `OthersSpareQuarantined`: no document but a return moves quarantined stock. It
  follows from `LedgerInv`, since what each other document moves is known, and
  from the direction table; so the sum is one over returns (`SumPart`);
- `ReturnInv`: the ledger has in quarantine for a return what is left of its
  lines (`Accounted`), and for one that is not received all that was asked for or
  nothing, as the key tells (`Awaited`); no more is disposed of than was received
  (`Numbers`); and a disposition that holds the sequence row takes no more than
  is left and is alone there (`ReturnRequest`), which is why lines read without
  a lock add up to the right status.

`ReturnsInOrder` says that who receives or cancels a return is alone with it, and
that requests to receive it come with one key, as `receive` makes it from the
return's id (`returns.service.ts:253`), and with one quantity for each line.
The code sees to neither the first nor the last: a cancellation that overtakes a
receipt overwrites its status, and an intake that is tried again after a crash with
other quantities is answered by the ledger with the first (both are listed above as
not holding). Dispositions overlap with each other as they like, and any
step may fail.

For `NothingMovesUnapproved` the ledger is not needed. Nothing but what was loaded keeps a handler
from writing a status, so the invariant is about requests under way
(`RequestInv`): a submission is alone with its draft, so whether two approvers
are wanted is settled before anybody approves; then a first approval under way
leads to PENDING_SECOND_APPROVAL whatever has become of the adjustment, a second
one comes from somebody who is not the only approver, and a posting, loaded or
half done, has seen both. `ElsewhereKeeps` says that steps of other documents
change nothing of it.

Assumed is what the modules state of their constants, which TLC evaluates: a
document has a kind, a first version and a status to start with, that of a return
from before its receipt, and there are finitely many (`DocumentsAssumption`,
`StartsAssumption`), tasks a count each
(`CountsAssumption`), items name rows, quantities and types of adjustment as the DTOs ask for them
(`TransfersAssumption`, `ReceiptsAssumption`, `AdjustmentsAssumption`,
`ReturnsAssumption`, `TalliesAssumption`), there are finitely many units
(`UnitsAssumption`), rows begin with numbers, and a disposition is of a quantity
and to one of the outcomes (`StockAssumption`).

Sums and folds are recursive functions of the community modules, and the
library's induction theorems cannot be used. `Sums` gets by without: a set of
naturals that is not empty has a least member and a set of finite sets a
smallest, so a statement that failed would fail at a least place, which the
recursive equation refutes. The equation itself is had the same way. So sums over
sets of any size, the fold over the lines of a command and the selection of
layers are proved about, not only checked.

Only model-checked:

- `SerialsMatchStock` of `Warehouse`. It equates numbers of units in a row with
  its quantity, through every order in which documents that share units move
  them: a cardinality for each state of a unit, where `BooksInv` has one sum;
- `SyncedMeansDone` of `MobileSync`, which runs the documents with overlapping
  edits and mobile keys, where `RequestsInOrder` does not hold;
- all liveness (`EveryCallEnds`, `Settles`, `DeliveriesSettle` and the like),
  which is out of the prover's reach.

## What is not modelled, and the plan

Next, the most important first:

1. Theorems: of `Warehouse`, `SerialsMatchStock`, from `BooksInv`; of
   `MobileSync`, `SyncedMeansDone`.
2. Units of releases, in `Reservations`, as `Transfers` has them.
3. RELEASE_PICK and dependency chains in `MobileSync`.
4. Expiry facts: a scan that inserts facts under a unique key and enqueues.

Left out for good:

- master data, imports and exports, reports, search, analytics, audit rows, and
  `reconcile()` of the ledger: reads and writes of single rows. `reconcile()`
  reads three times without a snapshot and may report drift where there is none;
- the pages and components of the web client, which are presentation. They are
  the greater part of the repository's lines: with contracts, API client, DTOs
  and master data they are about two thirds of it, which bounds the share of
  lines that definitions can stand for;
- sessions, password hashing and tokens;
- two items of one release that name the same reservation line
  (`releases.service.ts:255`): the API takes them, no client sends them, and
  what becomes of them is said above;
- Postgres itself, of which row locks, unique indexes and deadlock detection are
  modelled as documented.
