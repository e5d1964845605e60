# A TLA+ model of the EventOS API

EventOS is a NestJS API over Prisma and PostgreSQL (`apps/api`) with a Next.js
user interface (`apps/web`). This directory holds TLA+ modules for the part of the
API where several requests meet on the same rows, the TLC configurations that check
them on small instances, and theorems that TLAPS proves for all instances.

The API has no background jobs, no queues and no in-memory state that outlives a
request. Everything that can go wrong over time therefore has one of these shapes,
and the models are about nothing else:

- two handlers interleave their statements on shared rows;
- a handler decides on rows it read in an earlier statement or in an older snapshot;
- a handler writes in several transactions and stops between two of them;
- a sequence of requests, each legal, reaches a state the code claims to exclude.

Contents: [Components](#components) ·
[How the database is modelled](#how-the-database-is-modelled) ·
[Modules](#modules) · [Runs](#runs) · [Disagreements found](#disagreements-found) ·
[Observations](#observations) · [Proofs](#proofs) · [Not modelled](#not-modelled) ·
[Plan](#plan)

## Components

Paths are under `apps/api/src`. "Isolation" is what the writing transactions ask for;
where nothing is said it is PostgreSQL's default, READ COMMITTED.

| Component | State it keeps | Operations that change state | Modelled |
|---|---|---|---|
| Resource engine `resources/resource-engine.service.ts` | `Resource`, `ResourceReservation`, `EventResourceAllocation`, `EventResourceOutstanding` | create, update, archive, restore a resource; create, update, confirm, release, cancel a reservation; reserve resources for an event; release an event's allocations. Admissions are SERIALIZABLE and take an advisory lock per resource | yes |
| Events `events/events.service.ts` | `Event` | create, update, remove; update and remove call the resource engine | update, remove |
| Event execution `event-execution/` | `EventExecution`, tasks, gates, readiness, run of show, closeout items | creation, plan, status, completion, archive, closeout; reserveResources and releaseResources write the table of the resource engine | these; not tasks, gates, go-live, run of show |
| Event lifecycle `event-lifecycle/` | none of its own | synchronize: creates what is missing in execution and finance | yes |
| Finance control `finance-control/` | workspaces, budget versions, changes, commitments, invoices, payments, reconciliations, close items | about twenty, each a check followed by a write | budgets, invoices, payments, the close; not owners and amounts |
| Asset management `asset-management/` | assets, reservations, inspections, maintenance, incidents, disposals | reservation with an availability check, without lock; changes of the status of an instance | these; not batches, kits, places, operations |
| Event design, mood boards | numbered versions with approval (SERIALIZABLE), reviews of boards | create a version, approve, review | yes, but for render requests and comments |
| Requirements, requirement impact | requirement sets, overrides, impact reports (SERIALIZABLE) | create, approve, override, report, apply a report | yes |
| Procurement `procurement/` | packages, their solutions | analyse, select a solution, request quotations | from the package on |
| Commercial workspaces `commercial-workspaces/` | RFQs, quotes, substitutions, awards, order drafts | generate, revise, approve, send, quote, review, award, prepare and approve orders | yes |
| Inventory `inventory/inventory.service.ts` | `StockLevel`, `StockMovement`, items, locations | opening balance, adjustment, transfer, receipt movements | stock, not the records |
| Purchase orders `purchase-orders/purchase-orders.service.ts` | `PurchaseOrder`, its lines, `GoodsReceipt` | create, update, archive, restore, delete, six status changes, goods receipt (which moves stock) | yes |
| Order drafts `purchase-orders/purchase-order-drafts.service.ts`, `ai-drafts/` | `AiDraft` | extract, review, commit (SERIALIZABLE; creates a purchase order) | yes |
| Quotations, contracts, marketplace | documents and listings | status changes, publication | no |
| Suppliers, supplier products, tasks, notes, contacts, dashboard, organizations, auth | records | one statement per request | no |
| Web application `apps/web` | none the server relies on | - | no |

How they interact: events, event execution and the resource engine share the
reservation rows; a goods receipt runs the stock operation inside its own
transaction; the commit of a draft runs the creation of an order inside its own;
designs, requirement sets, boards, packages and quotations are each made from an
approved version of the one before; `synchronize` reads awards and asset incidents and
calls execution and finance one after the other; the close of finance reads the status
of the execution.

What makes each modelled component correct:

- *Resource engine*: a resource is never overbooked; an admission is decided on
  capacity that is really there; what an event asked for is reserved or outstanding;
  an allocation is settled once and gives back its capacity; every transaction ends.
- *Events*: an event that was completed, cancelled or deleted successfully holds
  nothing; no allocation outlives its event.
- *Event planning*: versions are numbered without gaps, built on approved ones and never
  changed; what the planner fixed (an overridden quantity, a locked object) survives
  later versions; dependencies stay one-way; a verdict has a review.
- *Sourcing*: nothing is quoted, awarded or ordered without the approvals before it, and
  nothing twice; one quote of a supplier is current.
- *Finance*: one budget version of a type is in force; what an invoice shows as paid is
  the sum of its cleared payments, each counted once.
- *End of an event*: `synchronize` may stop and be repeated, and makes everything once;
  finance closes after the execution was completed.
- *Assets*: a reservation that was checked fits; what was disposed of stays out of use.
- *Inventory*: stock is never negative; it is what its movements say.
- *Purchase orders*: what was received is what the receipts say, stays with its
  order and its line, and an order that says FullyReceived is.
- *Order drafts*: a draft is committed as it stands, once per review.

Several of these are not kept unconditionally by the code. Where two requests at once,
or a change by hand, can break one, a history variable marks it (`crossed`, `recleared`,
`reopened`, `late`, `overlapped`, `unchecked`, `overtaken`, `stale`), and the property says
that nothing else can: it is the condition under which the promise holds. Where the
repository states the promise without it, a run shows the counterexample (see
[Disagreements found](#disagreements-found)).

The behaviours that are hard to test are listed as `hazards` in `PROJECT.json`, each
at its line, with the properties that cover it or the reason why none does.

## How the database is modelled

The correctness of this code rests on what PostgreSQL guarantees. These are the
assumptions, each an operator or an action of its own.

*SERIALIZABLE* (`ResourceReservations`, `PurchaseOrderDrafts`, `EventPlanning`)

- The snapshot is taken by the first statement of the transaction (`Begin`,
  `CommitRecheck`). In `createReservation` and `reserveResourcesForEvent` that is a
  read before the lock; in the others it is the statement that waits for the lock.
  Either way the snapshot may be older than the moment the lock is obtained.
- `EventPlanning` needs only one consequence, and a unique index gives the same: of two
  transactions that read the same latest version one fails (`VersionFree`).
- A transaction that wrote a row changed since its snapshot does not commit
  (`UpdateConflict`, `WriteConflict`).
- Of two concurrent SERIALIZABLE transactions that each wrote a row the predicate of
  the other's read matches, at most one commits (`SerializationConflict`). PostgreSQL
  aborts more than that; `Abort` may happen at any time.
- Statements of READ COMMITTED transactions are not tracked: they cause write
  conflicts and no serialization conflicts.
- Nobody retries an aborted transaction. That is the code: error P2034 is answered with
  a rejection or not caught.

*READ COMMITTED* (everything else)

- Each statement sees what is committed when it runs and what its own transaction
  wrote (`Visible`); a written row stays locked to the end (`RowAvailable`).
- Prisma's `upsert` with a plain value is an absolute write, `increment` is computed by
  the database.
- A row that a foreign key with `onDelete: Restrict` refers to cannot be deleted, and
  the delete waits for a transaction that is inserting such a reference
  (`LinesDeletable`); `onDelete: Cascade` deletes in the same statement
  (`CascadeToAllocations`).

- A unique index rejects the second insert (`VersionUnused`, `AwardFree`, `WithoutDraft`,
  `InsertExecution`, `InsertWorkspace`); where the schema has none, there is no such guard.
- `updateMany` and `deleteMany` change the rows their statement finds (`clearSelected`,
  `supersedeOthers`, `DeleteLines`, `deleteRfqLines`); what is committed later than its
  start is not among them, also when the statement had to wait.

*Crashes.* A handler may stop between any two database calls (`Abort`, `HandlerFails`,
`ReserveFails`, `ReceiptAbort`, `DropChange`, `CommitFails`, `Throw`, `Stop`, `Drop`). What was committed stays;
an open transaction leaves nothing. The API keeps nothing in memory across requests, so
a restart is the end of the handlers that were running, and the same requests may come
again.

*Fairness and liveness.* One liveness property is checked, `EveryTransactionEnds`, under
`FairSpec` of `ResourceReservations`. The allocation of a list of resources is the one
place where handlers wait for each other: it takes an advisory lock per resource, in the
order of the list, and keeps it to the end.

- `SF` of a handler's next statement, or of its end by an exception where that statement
  cannot succeed (`Advance`, `Reject`): Node resumes every handler whose statement has
  returned, and PostgreSQL grants a lock in the order of the requests, so a statement
  that is possible again and again is performed. Weak fairness would not do: a waiting
  handler is not enabled all the time.
- `WF` of `DetectDeadlock`: PostgreSQL looks for a cycle of waiting transactions after
  `deadlock_timeout` and aborts one of them. A cycle does not go away by itself.
- None of any request, nor of aborts that nothing forces.

Elsewhere the code has no loop, timer or retry that would have to finish something, and
nobody need finish what a stopped handler has begun: those specifications state no
fairness. `EventResources`, `PurchaseOrderDrafts` and `Sourcing` allow deadlock
(`CHECK_DEADLOCK FALSE`): a deleted event, all orders deleted and all drafts committed,
or a package with two selected solutions, which no request accepts (see
[Observations](#observations)), end what can be asked.

## Modules

| Module | What it models |
|---|---|
| `Booking` | abstract: what the resource engine is for its clients, a table that changes in whole steps |
| `ResourceReservations` | the resource engine; implements `Booking` |
| `EventResources` (extends it) | with `EventsService.update` and `remove`; implements `Booking` too |
| `ExecutionReservations` (extends it) | with the two operations of `EventExecutionService` that write reservations |
| `StockLedger` | stock levels and movements |
| `PurchaseOrders` (extends it) | orders and goods receipts over that stock |
| `PurchaseOrderDrafts` | drafts, reviews and commits, with the orders they create |
| `VersionLog` | abstract: logs of versions that build on approved ones |
| `EventPlanning` | briefs, designs, requirement sets, impact reports, boards; implements `VersionLog` |
| `Sourcing` | from the procurement package to the order drafts |
| `FinanceControl` | budget versions, invoices, payments |
| `EventLifecycle` | execution, closeout and finance workspace of an event, and `synchronize` |
| `AssetManagement` (extends it) | asset reservations, instances and disposals; incidents feed `synchronize` |
| `Tables` | tables as functions, and inserts into them |
| `...Proofs` | theorems; those about `AssetManagement` are in `EventLifecycleProofs`, those about `StockLedger` in `PurchaseOrdersProofs` |
| `MC...` | instances for TLC |

Every definition that stands for code is listed with its lines under `map` in
`PROJECT.json`. Names follow the source where TLA+ allows. Where a faulty variant of a
definition stands beside it, it is one that a run must refute (see [Runs](#runs)).

### ResourceReservations

`resource`, `reservation` and `allocation` are the tables. `txn[p]` is the transaction
of handler `p`: the request it still has to work through (`todo`), the snapshot it reads
together with its own writes (`catalog`, `rows`, `allocs`), the advisory locks it holds,
and what PostgreSQL tracks about it (`stale`, `claims`, `rivals`). A handler is
`Begin...` (its checks of the input, the start of the transaction), one step per
resource it locks (lock, check, write), and `Commit` or `Abort`. `reserveResourcesForEvent`
loops over its requests and keeps all locks; `releaseEventAllocations` loops over the
allocations of the event and then closes the outstandings. Releasing or cancelling a
reservation by hand and editing a resource are single plain updates.

Simplifications:

- `computeAvailability` adds up *all* reservations that overlap the requested window,
  also those that do not overlap each other, and so do we; the *property* looks at
  instants. Instants are the starts of windows: where the load of half-open windows has
  a maximum, one of them starts.
- The sum of quantities is the cardinality of a set of units (row, 1..quantity), so that
  it needs no recursion. `Float` quantities are whole numbers.
- The statuses and conditions that `operationalUnavailable` tests are one flag.
- `seen` is a history of the mode and total each resource has had. A client may lower
  the total below what is reserved, so "never overbooked" can only mean: never more than
  the largest total so far. `AdmissionWithinCapacity` is the exact statement for each
  admission.
- `updateResource` reads and writes in one step; it writes only what the client sent.
- Whether an allocation has an outstanding row is its `open` flag and quantity.

### Booking

What a client of the engine may believe: there are two tables, and each step makes or
changes a reservation (`Book`), frees one (`Free`), meets *all* requests of an event
(`Allocate`), settles allocations together with their reservations and outstandings
(`Settle`), removes the allocations of a deleted event (`Delete`) or edits a resource
(`Edit`). Transactions, snapshots, locks, and the order of the statements inside a
transaction do not exist, and what is booked fits the rows *as they are then*. The
refinement (`BooksAtomically`) is the identity on `reservation`, `allocation` and `seen`:
what a transaction has not committed is not there, a commit is one step, everything else
a stutter.

### EventResources

`eventStatus` is the status column; `handler[p]` is the `update` or `remove` in progress.
`update` reads the event, writes the status (which commits), and only then, if the status
changed to Completed or Cancelled, calls `releaseEventAllocations` in a transaction of its
own. `remove` releases first and deletes afterwards. Both call the engine's actions; the
engine's own requests run beside them. `owed` and `vouched` are history: what an event
held when its status changed, and which of that a handler reported as done.

### ExecutionReservations

`EventExecutionService.reserveResources` inserts RESERVED rows one statement at a time and
then sets its status; `releaseResources` is one `updateMany`. They take no lock and no
snapshot and look at no capacity.

### StockLedger

`level` is `StockLevel.quantityOnHand`, `recorded` the signed sum of the `StockMovement`
rows (of damaged goods the movement is counted, with no effect on the level). `work[p]` is
the transaction of a stock operation: its remaining legs, the level it read, what it wrote
and the rows it has locked. An adjustment is one leg, a transfer two, source first. Each
leg is a read (with the check of a decrease) and a write of `read + delta`.
`overtaken` is a history of the cells on which such a write replaced a level the handler
had not seen: that lost update can happen, and `LevelIsSumOfMovements` says it is the
*only* way level and movements can part. `quantityReserved` is left out, as nothing in the
code writes anything but 0 to it. `getMovementContext` (an inactive item or location) is a
rejection before any write, covered by `RollBackStock`.

### PurchaseOrders

Every change of an order is two steps, the read with its checks (`submitForApproval`,
`approve`, ...) and a write that looks at nothing (`WriteChange`); between them other
handlers run. A goods receipt is one READ COMMITTED transaction of many steps: order read,
lines read and checked and receipt inserted, per line an increment and the stock movement,
lines read again, status written. Lines are rows with generated ids that are deleted and
created again by `updateDraft`, in two statements of one transaction (`DeleteLines`,
`ReplaceLines`): the lines a second `updateDraft` has committed in between stay, and those
created then are `late`, a history. The deletion becomes visible with the commit, so the
rows are removed there. Prices, dates and permissions are left out.
`createGoodsReceipt` reads the order with its lines in one `findUnique`, which Prisma
executes as one statement per table: hence two steps.

### PurchaseOrderDrafts

`draft` is the `AiDraft` row, with the number of reviews saved so far as history;
`purchaseOrder` keeps of a purchase order its number and, as history, the draft, review and
content it was created from. A payload is a number and whether a required field is missing. `commit[p]` is
a commit after its first read (`check`) or after the read of its transaction (`create`).
A review writes the draft without looking at it.

### EventPlanning and VersionLog

`doc[kind]` maps version numbers to rows; `approved` holds the designs and sets with that
status, `report` the impact reports, `review` the status of boards with their reviews. A
handler that adds a version checks and prepares it from what it reads outside the
transaction (`Prepare`), reads the latest number (`ReadLatest`) and inserts
(`CommitVersion`); the three are separate steps. `approveEventDesignVersion` and
`approveSet` check and write in one action, because a second handler that passed the
check writes the same again. The review of a board is a check and a later write.

`validateDependencyGraph` is translated as the depth-first search it is, and compared
with the reference definition (`Reachable`) for all graphs over the codes in
`MCEventPlanning`; `GraphCheckExact` proves the same for all graphs. An item keeps its quantity and whether it was overridden; the
comparison of two items by their JSON text (which orders keys) is a choice (`unchanged`).
`from` and `planned` are history: the set a set was cloned from and the planner's
overrides he has not withdrawn.

`VersionLog` is what a reader of the documents relies on: logs that only grow, by
versions whose basis is approved when they are appended. `EventPlanning` implements it
under the mapping that turns `doc[kind]` into a sequence (`VersionsFormLogs`).

### Sourcing

One package. `call[p]` is a handler whose checks passed, with the parameters and what it
read; the write is a later action that looks at nothing but what the database enforces.
Solutions are plans (a supplier for each item); how `analyse` finds and ranks candidates
is a choice from `Ranked`. `passed`, `approvedAt`, `sentAt` and `requestedAt` are the
dates in the rows. A revision of an RFQ deletes its lines and creates others in two
statements (`deleteRfqLines`, `reviseRfq`); two that overlap leave the lines of both where
they name different items. The quantity check of `award`, made in its transaction, is made with
the other checks: the offered quantity of a quote never changes.

### FinanceControl

The approval of a budget version is `supersedeOthers` and `changeBudgetStatus`, the
clearing of a payment `readInvoice` and `changePaymentStatus`: the two statements of one
transaction, between which others commit. `crossed` is a history of the types and
invoices for which two such transactions overlapped, `recleared` one of the invoices with
a payment that was Cleared already when it was cleared, `reopened` of those with a payment
that was Cleared and was given another status, which takes nothing off the invoice.
Statuses that no check tells apart are one (`Other`, `Open`). Amounts are whole numbers.

### EventLifecycle

`synchronize` is translated statement by statement: `request[p].step` names the next one.
It takes the awards and incidents it has read one at a time, looks each up and creates
what is missing. `synced` counts the records it made of a source, `byHand` are the
commitments of users. What is counted by `closeWorkspace` is one flag per kind of record
(`open`), counted by one statement each, in any order (`MeetCondition`). `completedAt`
and `cancelledAt` are the dates in the row. `overlapped` is a history.

### AssetManagement

`createReservation` is four statements: the sum of what overlaps, the capacity, the count
for the wanted instance, the insert. A request is `late` once another has inserted a row
after its sum; `unchecked` are the rows inserted late or put back in force by
`changeReservationStatus`. `changeLifecycle` and the execution of a disposal are a read
with its check and a later write; `overtaken` are the instances whose `archivedAt` the
write of an older value took back. Two definitions stand for all: a serialized one,
whose instances are counted, and one with a quantity nothing changes. An instance has at
most one disposal. The statuses other than Active and Archived are treated alike.

## Runs

All passing runs use two handlers: every conflict in this code is between two
transactions, and a third one would add only more of the same pairs.

| Run | Module, configuration | Question | Bounds and why they are enough |
|---|---|---|---|
| `admission` | `MCResourceReservations`, `MCAdmission` | can create, update and confirm overbook a resource, also while it is edited? | 3 rows, quantities 1-2, 3 units, two windows that overlap without being equal: two reservations may or may not fit, a third never does; or, explored apart, one unit whose mode and service change |
| `allocations` | `MCResourceReservations`, `MCAllocations` | do allocation, release and manual cancellation keep their accounts, and end? | two lists that lock two resources of one unit in opposite orders, met in part or not at all: partial, full and no allocation and the deadlock occur |
| `event_resources` | `MCEventResources` | does a completion or deletion leave something behind, and is every commit a step of `Booking`? | one event, one unit, two allocations, of which at most one can hold a reservation; no `Book` or `Edit`, for which see the theorem |
| `goods_receipts` | `MCPurchaseOrders` | do order, receipt lines and stock agree? | one order of one or two lines, three line ids (so that two edits at once can replace them), two locations, receipts of one line, both lines, a damaged unit, and one that names a line twice; two movements |
| `planning` | `MCEventPlanning` | do versions form logs, and does what was fixed survive? | three sets over two items and a code for a third, one report; three boards over two objects: a chain of two revisions in each; sets and boards explored apart |
| `sourcing` | `MCSourcing` | is every step of sourcing approved and taken once, and a draft committed as it stands, once per review? | one supplier, two items of which the RFQ sent names one, two solutions, two versions of a quote, quantities within and above the offer; or, explored apart, two drafts, two orders, two numbers, two reviews per draft: a second order is available to every path that would create it |
| `lifecycle` | `MCAssetManagement` | does `synchronize` survive stops and repetition, do assets fit, is one budget in force, is what is paid what was cleared? | one award, one incident, two closeout items; two instances, a stock of 3, two reservations that overlap in part; three budget versions of a type; an invoice of 3 and two payments of 2, so that one is partial and both overpay; six parts explored apart |

"Explored apart" means a state constraint, and for `lifecycle` and `sourcing` the
specification `ApartSpec`, explained in the MC modules: parts of an instance that share no
state that matters are explored one after the other instead of in their product. What the
parts do share stays together: asset incidents occur while `synchronize` runs. That assets do
nothing else to the lifecycle is a theorem (`AssetsKeepLifecycle`), so its properties
carry over.

Handlers, and ids that nothing orders, are symmetric in the runs that check safety only.

`MaxQuantity`, `MaxMovements`, `MaxReviews`, `MaxVersion`, `MaxReports`, `MaxCode`,
`MaxKey`, `MaxSolutions`, `MaxBudget`, `MaxPaid`, `MaxCloseout`, `MaxPlan`,
`MaxReservations` and the sets of row ids are the only bounds; each limits how often
something happens and not what is true when it does. The proofs below do not depend on
any of their values.

Every property of a passing run has a mutant in `PROJECT.json`: a faulty variant of one
mapped definition, next to it in the module, under which TLC finds the property violated.

## Disagreements found

| Run | What the repository says | What happens |
|---|---|---|
| `terminal_event` | `events.service.spec.ts`: 'releases resource allocations when event transitions to completed' | the status commits first; if the release fails, the event is Completed, its allocations stay Reserved, and repeating the request does nothing because the status no longer changes |
| `execution_bypass` | `resource-engine.service.spec.ts`: 'prevents serialized double-booking' | the execution inserts reservations beside the engine; one unit is reserved twice |
| `over_receipt` | `createGoodsReceipt`: 'Received quantity exceeds outstanding quantity on purchase-order line' | two overlapping receipts, or one that names a line twice, receive more than was ordered |
| `double_clearing` | `changePaymentStatus`: 'Only submitted payments may be marked cleared' | two requests to clear one payment both see it Submitted, one waits for the other and clears it again: the invoice shows its amount twice |
| `close_cancelled` | `docs/PHASE_2_LIFECYCLE_CHECKPOINT.md`: 'Financial Close requires operational completion and resolved financial controls', and the close item of `createWorkspace`, 'Event Execution is complete with approved closeout evidence' | `archive` accepts a cancelled execution, and `closeWorkspace` an archived one: finance closes for an event that was never completed |

Each of these runs checks one property and ends in a counterexample of TLC. What still
holds is checked by the passing runs beside them: `SuccessfulTransitionReleases` is what
is left of the first, `ReceivedIsReceipted` and `FullyReceivedIsReceived` of the third.
Of the fourth it is `PaidIsCleared`: an invoice without a payment that was cleared again
or taken back shows what its cleared payments sum to, less only if two clearings of it
overlapped, and never more. Of the last nothing is left to check: each condition of the
close was met at some time, and none need be when it is written.

## Observations

What the models also showed, without a run of its own. None is a violation of a property
that is checked; the properties say what holds nevertheless.

- *Resource engine.* The comment in `lockResource` promises that the lock serializes
  competing reservations, but the snapshot is older than the lock, so the waiter decides
  on old rows (`resource-engine.service.ts:1551`). SERIALIZABLE aborts it, and nobody
  retries.
- *Purchase orders.* Two `updateDraft` requests at once leave the lines of both
  (`purchase-orders.service.ts:434`): the second deletes those it found, not those the
  first has created since. If goods complete the order in between, it says FullyReceived
  with a line open. Two receipts at once that complete different lines leave it
  PartiallyReceived, as neither sees the other's increments (`:909`).
- *Order drafts.* A review saved after the commit resets the status of the draft, and the
  next commit creates a second order, for the new review
  (`purchase-order-drafts.service.ts:345`).
- *Planning.* Two overrides that clone the same set both succeed, and the newest set has
  only one of them. A report that two handlers apply at once leads to two sets. The code
  of the last requirement is used again once that one is removed. A board that is
  approved and sent back at once keeps the later status and both reviews.
- *Sourcing.* Two concurrent `selectSolution` calls leave two solutions selected; if a
  third request then asks for quotations on what it checked before, neither procurement
  nor `generate` accepts the package any more (`procurement.service.ts:274`, `:310`). An
  RFQ may be revised after it was approved, by a handler that checked before, and two
  revisions at once leave the lines of both (`commercial-workspaces.service.ts:253`). Awards made
  after the order drafts were prepared are in none. A late `analyse` resets the status of
  a package whose quotations were requested.
- *Finance.* A payment that is cleared, submitted and cleared again counts twice: the way
  back takes nothing off the invoice. Of two payments of an invoice that are cleared at
  once one addition is lost. Two approvals at once leave two budget versions in force.
  `closeWorkspace` closes although a record was opened after it was counted.
- *End of an event.* When `synchronize` stops between the creation of the execution and
  its plan, no later call builds the plan. Two calls at once record an award twice.
- *Assets.* Two overlapping `createReservation` calls overbook an asset: there is neither
  lock nor SERIALIZABLE. `changeReservationStatus` puts a cancelled reservation back in
  force without a check. A change of lifecycle writes back the `archivedAt` it has read
  and can take back the archival of a disposal. Completed maintenance makes an instance
  Active that was lost or disposed of; its `archivedAt` alone keeps the latter out of use.

## Proofs

The theorems hold for any number of handlers, resources, rows, events, versions, items,
suppliers, orders and drafts, from the assumptions named in the modules
(`ConstantsAssumption`, `StockAssumption`, `PurchaseAssumption`, `DraftsAssumption`,
`PlanningAssumption`, `SourcingAssumption`, `FinanceAssumption`, `LifecycleAssumption`,
`AssetAssumption`: sets of ids do not contain their null values, windows are proper,
bounds are numbers).

| Theorem | Says |
|---|---|
| `EngineBooksAtomically`, `EventsBookAtomically` | `Spec` and `EventSpec` implement `Booking` |
| `TypeCorrect`, `OverbookingFree`, `AdmissionSound` | `TypeOK`, `NoOverbooking`, `AdmissionWithinCapacity` of `Spec` |
| `AllocationsAreAccounted`, `SettledOnce`, `SettlingFrees` | `AllocationsAccounted`, `AllocationSettledOnce`, `SettlingFreesCapacity` of `Spec` |
| `EventTypeCorrect`, `NoOrphanAllocations`, `TransitionReleases` | `EventTypeOK`, `AllocationsHaveEvent`, `SuccessfulTransitionReleases` of `EventSpec` |
| `EventsOverbookNothing`, `EventsAdmitWithinCapacity` | `NoOverbooking`, `AdmissionWithinCapacity` of `EventSpec` |
| `EventsKeepAccounts`, `SettledOnceByHandlers`, `EventsSettlingFrees` | `AllocationsAccounted`, `AllocationSettledOnce`, `SettlingFreesCapacity` of `EventSpec` |
| `StockTypeCorrect`, `NonNegativeStock`, `LevelsExplained` | `StockTypeOK`, `StockNeverNegative`, `LevelIsSumOfMovements` of `StockSpec` |
| `OrdersImplementLedger` | `PurchaseSpec => StockSpec`: every step of orders and receipts is a step of the ledger or leaves stock alone |
| `NonNegativeStockWithOrders`, `LevelsExplainedWithOrders` | the stock properties of `PurchaseSpec`, from the theorem above |
| `PurchaseTypeCorrect`, `ReceiptsAddUp`, `FullyReceivedIsTrue`, `ReceivedLinesStay` | `PurchaseTypeOK`, `ReceivedIsReceipted`, `FullyReceivedIsReceived`, `ReceiptsKeepTheirOrder` of `PurchaseSpec` |
| `DraftTypeCorrect`, `CommittedDraftsAsReviewed`, `OneOrder` | `DraftTypeOK`, `CommittedAsReviewed`, `OneOrderPerReview` of `DraftSpec` |
| `PlanningTypes`, `OverridesSurvive`, `LocksSurvive`, `ReviewsHaveRecords` | `PlanningTypeOK`, `OverridesKept`, `LockedObjectsKept`, `ReviewsRecorded` of `PlanningSpec` |
| `GraphCheckExact`, `DependenciesAreOneWay` | `validateDependencyGraph` accepts the one-way graphs and no others; `DependenciesOneWay` of `PlanningSpec` |
| `VersionsAreLogs` | `PlanningSpec` implements `VersionLog` under its refinement mapping |
| `SourcingTypes`, `OneCurrent`, `Approved`, `AwardsReviewed`, `NoAwardTwice` | `SourcingTypeOK`, `OneCurrentQuote`, `ApprovalChain`, `SubstitutionsApproved`, `OrderedOnce` of `SourcingSpec` |
| `FinanceTypes`, `OneBudgetInForce`, `PaymentsAddUp` | `FinanceTypeOK`, `OneEffectiveBudget`, `PaidIsCleared` of `FinanceSpec` |
| `LifecycleTypes`, `SynchronizeOnce`, `SynchronizeWhole` | `LifecycleTypeOK`, `SynchronizedOnce`, `SynchronizedWhole` of `LifecycleSpec` |
| `AssetTypeCorrect`, `ReservationsFit`, `DisposedStayOut` | `AssetTypeOK`, `CheckedReservationsFit`, `DisposedStaysOut` of `AssetSpec` |
| `AssetsKeepLifecycle` | `AssetSpec => LifecycleSpec`: what holds of the lifecycle holds with the assets |

**No overbooking.** `NoOverbooking` is not inductive: it says nothing of transactions that
have checked and not committed. `IInv` adds four facts about each transaction in
progress. *Tracked*: a capacity-consuming row it did not write is in the table as it sees
it, or lies in a window that one of its rivals claimed. *Claimed*: every capacity-consuming
row it wrote lies in a window it claimed itself. *Bounded*: at every instant of a window it
claimed, the load it sees is within the total it sees, of a resource it sees active and in
service. *Known*: that total is one the resource has had. When the transaction commits,
no rival overlaps a claim (`SerializationConflict`); so at an instant of a claim the rows
of the table are among those it sees (`Tracked`), and the load after the commit is at most
the one `Bounded` limits; at any other instant the commit raises nothing (`Claimed`).
Plain updates only lower loads. The lock is not used anywhere in the argument: what
prevents overbooking is SERIALIZABLE.

**Allocations.** What is accounted for in the tables must be accounted for in every view a
transaction may publish. `AllocInv` says so of each (*ViewInv*: what is reserved is backed
by a row no other allocation has; an outstanding is open only while its allocation is
Reserved, or is about to be closed by the release that settled it), and ties the view to
the tables: rows and allocations keep their event and resource (*RowsFollow*,
*AllocsFollow*), what PostgreSQL has not marked stale is as it was seen (*AllocsFresh*), a
settled allocation has given up its row (*Freed*), a release that is about to commit has
settled all allocations of its event that it sees (*ReleaseWhole*), and ids are inserted by
one transaction (*Exclusively*). A commit that writes nothing stale then merges the view
into the tables and keeps all of it; that a release settles nothing twice is *AllocsFresh*:
two that saw the same Reserved allocation have a write conflict.

**Whole steps.** That a commit is one step of `Booking` is a statement about rows other
handlers may have changed since the snapshot; `PreparedInv` says it of those rows only
that are not stale, and a commit has no other. The rows a transaction has not written are
those of the tables (*RowsFresh*); it writes one reservation alone, or reservations of
allocations it writes too (*Paired*); it inserts allocations of its event into unused ids,
each with the reservation that meets it (*Inserts*), or settles Reserved ones of its event
with their reservations, as its reason says (*Settles*). `Informed` is the one fact about
the others: what they change, a transaction in progress finds marked stale. Together with
`AllocInv`, and `NoOverbooking` of the tables that result, a commit is `Book`, `Allocate` or
`Settle` according to what was written (`CommitBooks`, `CommitAllocates`, `CommitSettles`).
A delete of an event informs in the same way (`DeletePrepared`).

**Events.** Every step of `EventSpec` is one of the engine or the delete of an event, and
the delete keeps the invariants of the engine because it marks the rows it takes away
stale for everybody else; so the theorems about `Spec` hold again. `EventInv` adds that
every allocation, also one not committed yet, is of an event (*NamedInv*; an insert fails
whose event was deleted before it commits), and that the transaction a handler waits
for releases all that the handler owes (*HandlersInv*). What a handler has vouched for was
settled by that transaction or by another one, and stays settled.

**Stock.** The value an operation writes is computed from the level it checked, and between
the read and the write nothing but this value matters for the sign. `StockInv` says that
what is about to be written is not negative (*Checked*), that no two transactions hold the
same row (*Exclusive*), and that what a transaction has written but not committed is not
negative and is the committed level plus its own movements, except on cells it marks stale
(*Pending*). The commit turns the last into `LevelIsSumOfMovements`.

**Orders implement the ledger.** The refinement is the identity on the stock variables; a
receipt calls `applyGoodsReceiptMovements`, its stock legs are `StockStep`, and its commit
is `CommitStock`. The invariant needed (`PurchaseInv`) is that of the ledger and the types of
receipts: the quantities of their lines are in the range the ledger allows.

**Receipts.** The increments are the database's, so the committed amounts are right if each
receipt adds what it recorded: *Progress* says that what a receipt has added so far are the
units of the lines of its request it is done with. The sum is a cardinality of a set of
units, and a line that is named twice counts twice. From its insert on the receipt refers
to its lines, which therefore stay lines of its order; a line that was received for stays
one too (*LinesInv*). When a receipt decides on FullyReceived it sees all lines in full
together with its own additions. What lines have received only grows. An `updateDraft` that
creates lines meanwhile cannot have found all lines of the order, since one of them was
received for and could not be deleted (*FullInv*, *LinesDeletable*); so its lines are late,
and the others are still received in full when the status is written.

**Drafts.** `Fresh`: a commit that is not stale is about to write what the draft shows, and
the draft is not Committed. `Spent`: while an order carries the current review of its
draft, the draft is Committed. `Counted`: orders come from reviews the draft has had. A
review makes the number current that no order has; a commit that ends is fresh, so by
`Spent` no order has the number it writes.

**Planning.** What a handler reads before its transaction, a version, an approval, a
submission, never goes away (`Grows`), so the row it has prepared is as right when it is
inserted as when it was read (`InsertOK`). Overrides and locks are then facts about single
rows and the row each is made from (`SetOK`, `BoardRevises`). The number inserted is
the next one: every number up to the one that was read has a row, and the inserted one
has none; that the largest number of a finite set exists is taken from the well-founded
order of the numbers. With that, an insert appends to the sequence of `VersionLog`, and
its basis is approved because approvals stay.

**Dependencies.** `GraphCheckExact` is about the recursive search itself, for graphs of any
size. The size of a call is the number of unseen codes, and then of the nodes to visit; the
calls that `visit` makes are smaller, so that answers to all calls up to a size can be built
one size after the other, and the recursion is defined (`VisitDefined`). By induction on the
size, an answer without a cycle leaves the path as it was, has done all its nodes, and what
is done leads only to what is done and never back to itself; an answer with a cycle has
found a code that follows itself (`Means`). Inductions are over least counterexamples, as
the induction theorems of the library cannot be instantiated. Later versions copy the
dependencies, or some of them, between items that are kept.

**Sourcing.** Again what was checked stays: solutions, RFQs, quotes, the dates of approval
and sending, a review that passed (`Grows`, `Found`). It is this, and not the current
statuses, that makes the stale checks harmless. Where one handler must come before another
of its kind the database decides: a version of a quote, an award of a line and a draft of
a supplier are unique.

**Finance.** A transaction between its statements that is the only one of its type or
invoice has seen all that is there now (`BudgetSeen`, `PaidSeen`); if it is not the only
one, the type or invoice is `crossed`. In any case what it has seen paid is at most the sum
of the payments that are Cleared, among which its own is not: that sum, counted as a set of
units of money, only grows while no payment is taken back, and the clearing adds to it the
units of a payment that was not Cleared.

**End of an event.** `Progress`: whatever a call of `synchronize` has passed, execution,
workspace, records, closeout items, is there, since none is ever removed. `Missing`: while
no two calls overlap, what a call has found missing and not yet made is still missing or
made by hand.

**Assets.** `StillTrue`: until another row is inserted, reservations only leave, so the
load a request has summed up is an upper bound, and no row holds its instance. The new
row fits at every instant because rows in force together with it at one overlap it: the sum
has counted them all. It makes every other request in progress late, which ends what is
known of those. Loads are cardinalities of sets of units; `LoadWith` and `LoadMonotone` are
the facts about them. `DisposalInv`: an approval is never forgotten, and only a change of
lifecycle that read the instance before the disposal takes its archival back.

Every invariant and action property of a passing run is stated by one of these theorems.
Only model-checked is the liveness property `EveryTransactionEnds`: liveness under
fairness, and `ENABLED` in its conditions, are out of the prover's reach. The runs that
expect a violation show a counterexample, which needs no proof.

To repeat: `tlc -config MCAdmission.cfg MCResourceReservations` (and so on, see
`PROJECT.json`), `tlapm ResourceReservationsProofs.tla`.

## Not modelled

- Permissions, validation of formats, search and other reads: they come before or beside
  the state changes and change nothing.
- Money other than invoices and payments: prices, taxes, totals, comparisons of quotes.
- Text extraction of quotations, the matching of products and the ranking of suppliers:
  any payload or plan may result.
- Creation of events, items, locations, suppliers, contacts, tasks, notes: one statement,
  no interplay. Owners of finance roles, commands and run of show of an execution, places
  and operations of assets: records on which no modelled check depends.
- Quotations, contracts and marketplace: status machines of single documents, each checked
  and written by one handler.
- User interface and authentication.

## Plan

1. **Go-live of an execution**: tasks, gates and their assessment, supplier bookings, and
   `approveGoLive`, which checks all of them and writes afterwards.
2. **Marketplace**: enquiries that become quotations and contracts.
