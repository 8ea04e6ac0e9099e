# Bizengine in TLA+

Bizengine is a Go server that runs the back office of a small company: stock,
orders, bookkeeping, personnel, messages.  It is one process.  Every HTTP
request runs in a goroutine of its own, all state is in PostgreSQL (sessions
and idempotency markers are in Redis), and the modules speak to each other
through an in-process event bus that starts one goroutine per subscriber.

This directory holds TLA+ models of that program, TLC configurations that check
them, and TLAPS proofs about them.  The paths below are relative to the
repository; the TLA+ names follow the Go names.

## 1. Inventory

| Component | State | Operations | Talks to | Hard behaviour | What makes it correct |
|---|---|---|---|---|---|
| `internal/module/warehouse` (stock) | `stock_levels` rows (quantity, reserved, min_quantity), `stock_movements` | Receive, Ship, Transfer, Adjust, Reserve, Unreserve, low-stock check | entity service, bus; called by REST and by the order.* subscribers | reads outside the transaction, absolute upserts, row locks taken in the order of the request, publication before or after the commit | no negative stock, movements explain quantities, reservations are covered, a transfer is atomic |
| `internal/module/warehouse` (stocktaking) | `inventories`, `inventory_items` | StartInventory, CountItem, ApplyInventory, CancelInventory | stock rows | a long session with goods moving; status checked on a stale copy | applied once, sets what was counted, final states are final |
| `internal/module/order` | `orders`, `order_items`, `refunds`, `order_number_sequences` | Create, Submit, Confirm, Pay, Ship, Deliver, Cancel, Update, Refund | entity service, bus | whole-row updates of copies, two transactions per creation | life cycle, consecutive numbers, totals, events after commits |
| `internal/core/event`, `postgres/event_store.go` | `events` table, the subscription list, running goroutines | Append, AppendTx, Publish, Subscribe* | every module | fan-out without order, waiting or redelivery | stored before heard, delivered unless the process dies |
| `internal/core/entity` | `entities`, `components` | Create, CreateWithComponents, Update, Delete, SetComponent, DeleteComponent | event store, bus; used by most modules | statements on the pool inside a transaction, lost updates | tables and event store agree |
| `cmd/server` | the subscriptions | start-up, event handlers, shutdown | orders to stock and finance to messages and notifications | handlers of two events race, errors are only logged, shutdown waits for no handler | reservations follow the order, books follow the money |
| `internal/core/process` | `process_instances`, the definitions map | HandleEvent, RegisterDefinition, TriggerManual | bus, both ways | read-modify-write of an instance by concurrent goroutines, unguarded map | each event advances an instance once |
| `internal/module/finance` | accounts, transactions, lines, periods, invoices, cash operations | CreateTransaction, PostTransaction, ClosePeriod, CreateAutoTransaction, ... | bus; called by cmd/server | check, then act in another transaction; ignored errors | debits equal credits, nothing is posted in a closed period |
| `internal/core/auth`, `storage/redis` | sessions, seances, the set of seances of a session | Login, Logout, Unlock, SwitchOrganization | Redis | read-modify-write without a transaction, expiry | a deleted session stays deleted |
| `internal/api/rest/idempotency.go`, `ratelimit.go` | request markers with a TTL, a token window | the middleware | Redis | a marker that expires under a slow request | a request is executed once |
| `internal/storage/postgres/pool.go` | at most 25 connections | Acquire, Release | every handler | a handler holds one and asks for another | not everyone waits |
| `internal/module/hr` | shifts, timesheets, payroll, absences | ClockIn, ClockOut, Approve*, CalculatePayroll, ... | entity service, bus | check, then insert | one open timesheet, one approval |
| `internal/module/messenger` | conversations, members, messages | Create*, SendMessage, MarkRead, ... | bus | look up, then create | one direct conversation per pair |
| `internal/module/logistics` | routes, stops | StartRoute, ArriveAtStop, CompleteStop, CompleteRoute | bus | status checks on copies | stops follow their route |
| `internal/module/banking`, `integration/bank*` | statements, matches | Pay*, callbacks, AutoReconcile | finance | bookings in transactions of their own inside the reconciliation | a booking belongs to a reported match |
| `internal/module/catalog` | products and categories (entities), price rules | Create*, Update*, Delete*, CalculatePrice | entity service | the SKU is looked up before the insert; chains of discounts in integers | one product per SKU, prices stay in bounds |
| `internal/module/crm` | customers, suppliers, tags | Create*, Update*, UpdateTags | entity service | a component is merged on a copy | no tag is lost |
| `internal/graphs` | the live views on clients' screens | event to changed columns, re-run of dependent graphs | bus; the sync engine | events without an identifier, missing, or too early | a view shows what is stored |
| settings, space, file | their tables | create, read, update, delete | entity service | little | as the entity service |
| webhook, notification | webhooks, notifications | Dispatch, Send* | bus, the network | sent and forgotten | none promised |
| dataimport, export, documents, analytics, integrations, REST | none of their own | parse, format, query, forward | the services | little | pure I/O and formatting |

`PROJECT.json` lists every component with its status, and under `hazards`
each place where the code is hard to test, with the properties that watch it or
the reason why none does yet.

## 2. Plan

Order of work, most important first.  1 to 9 exist.

1. `Warehouse`, refining `StockBook`; proofs in `WarehouseProofs`.
2. `Stocktaking`; proofs in `StocktakingProofs`.
3. `Orders`, refining `OrderLifecycle`; proofs in `OrdersProofs`.
4. `EventBus`, and `EntityStore` composed with it; proofs in `EntityStoreProofs`.
5. `OrderSaga`: the subscriptions of `cmd/server` over `EventBus`, with the
   overlapping requests of orders, the reads and writes of stock rows and the
   automatic entries; proofs in `OrderSagaProofs`.
6. `Finance`: posting, periods, automatic entries, cash operations; proofs in
   `FinanceProofs`.
7. `ProcessEngine`: instances, two events at once, a start that races an advance;
   proofs in `PlatformProofs`.
8. `Sessions` and `Idempotency`: Redis with expiry; proofs in `PlatformProofs`.
9. `HR`, `Messenger`, `Logistics`, `Banking`, `Catalog`, `CRM`: services that
   check and then act, over the common `Records`, with proofs in
   `ServicesProofs`; `LiveViews` over what all of them publish, with proofs in
   `PlatformProofs`.
10. `ConnectionPool`: not written.  That every handler holds one connection while
    it waits for another needs as many handlers as connections to go wrong; the
    hazard is listed, and the order in which each operation takes connections
    can be read off its module.

Every safety property of the passing runs is stated by a theorem (section 6).
Proofs still worth doing: that what the services over `Records` take in one step, a
write of the entity service, is what `EntityStore` promises of it, and that the
requests of `OrderSaga` are those of `Orders` with fewer columns.

## 3. Modules

`X.tla` declares state and actions of a component and states its properties.
`MCX.tla` names the model values and small sets that the `MCX*.cfg` files give
to the constants.  `XProofs.tla` holds theorems.  A definition whose comment
starts with "Mutant of" is a faulty variant of the one after it; it appears in
no specification and serves to confirm that a property can fail.

All models share a view of the database.  A Go handler that calls a
`WithTx` function is split where other handlers can get in between: at each
read through the pool and at the commit.  A statement that changes a row
takes its row lock until the commit; statements under READ COMMITTED see what
is committed when they start.  What one transaction does before its commit
is visible to nobody else, so it is one step with the commit where no lock can make
it wait.  A request that is refused changes nothing and is no step.

**Warehouse** (`service.go` 93-438, 759-801; `warehouse_repo.go` 134-155,
380-391).  `stock`, `present`, `ledger` are the committed rows and the sum of
the committed movements; `lock` the row locks; `pc`, `request`, `target`,
`draft`, `delta` what each handler has read and is about to write.  The six
operations are the actions that read and check; `UpsertStockLevel`,
`TransferDestination`, `PublishInTx`, `Commit`, `Publish`, `CheckLowStock` and
`Return` carry on, `Rollback`, `BreakDeadlock` (PostgreSQL aborts a cycle) and
`Crash` go wrong.  A failed read in `getOrCreateStockLevel` yields an empty row,
as in the code.  The look for low stock after a shipment is `CheckLowStock`, or
`LowStockUnread` when its query fails, which nobody hears of.  `stale`, `blind`,
`tainted` and `overcounted` are history: which commits wrote over a row they had not
seen.  So is `overlooked`: the rows whose look for low stock failed, or died with the
process.

**StockBook** is the abstract specification: each operation one atomic step, or
a `BlindWrite` that admits to know nothing of some rows.  The refinement is
the identity on `stock` and `ledger`; `blind` says which commits may be blind,
so that the abstract specification never gets that freedom otherwise.

**Stocktaking** (`service.go` 523-755).  Sessions with a status and one item per
product.  `Open` reads and checks the status; `CountItem`, `LoadItems` with
`UpsertItem` (one row lock after the other, in item order) and `ApplyInventory`,
and `CancelInventory` write later without checking again.  `Move` and
`CommitMove` are a receipt or shipment, reduced to its read and its commit.

**Orders** (`internal/module/order/service.go` 50-653, `order_repo.go`).
`CreateEntity`, `NextOrderNumber`, `CommitCreate` are the steps of Create: the
entity is committed alone, then the number, the row and the items together.
The other operations read with `GetOrder` (and `GetOrderItems`), and write with
`UpdateOrder` or `CreateRefund`; Update first deletes the items its snapshot
shows (`SelectOrderItems`, `DeleteOrderItems`).  `Publish` follows the commit.
The items of one request are one line with the value of their total.
`stale`, `overwritten` and `reached` are history.

**OrderLifecycle** is the promise about the status: one edge per operation,
or an `Overwrite` that marks the order.

**EventBus** (`bus.go`, `persistent_bus.go`, `event_store.go`).  `stored`,
`running`, `handled`; `Publish` appends (or fails to, which is only logged) and
starts a goroutine per matching subscriber.  A module that EXTENDS it passes
what its own transaction leaves in the store.

**EntityStore** (`internal/core/entity/service.go`, `entity_repo.go`) composes
with `EventBus`.  An entity has a row of columns and one component with its
version.  `Create` and `SetComponent` are transactions with their events.
`Update` and `SoftDelete` are committed by the pool before `AppendEvent`
stores the event, since the statement does not run in the transaction.
`DeleteComponent` has no transaction.  `PublishNext` hands the events to the bus.
`Shutdown` waits for the requests and for no handler (`main.go` 364-380); `cut` is
the history of the handlers it did not wait for.

**OrderSaga** (`cmd/server/main.go` 405-594, `order/service.go`, the stock rows of
`warehouse/service.go`) instantiates `EventBus` with the subscriptions of the server.
A request is served by a worker in the steps it has in the code: `Create`, or
`GetOrder` with its check of the status and, for a confirmation,
`CheckAvailability`; then `UpdateOrder` writes all columns of the copy, or `Refund`
inserts its row; then `PublishEvent`.  All nine operations are there (`Allowed`,
`Becomes`, `Tells`), so two cancellations, or a payment and a cancellation, overlap
and both publish.  The goroutines of the subscribers go from item to item: for
each they read the stock row through the pool (`GetStockLevel`) and write all of it
later (`Reserve`, `Unreserve`, `ReturnItem`), so two of them overwrite each other as
well; `SkipItem` is an error, which is at most logged, `Post` an automatic entry.
`Crash` is the death of the process.  `moved`, `astray` and `disturbed` are history:
what was reserved or released for whom; the products whose row was written from a
stale copy, or released for an order that had not reserved; the orders that were
written from a stale copy, or whose event died with the process before it was
published.

**Handlers** and **Records** hold what the smaller services have in common.
`Handlers` is a pool of goroutines with a task each.  `Records` is a table of rows by
id and the four shapes a request has: a check followed by an insert (`Plan`,
`Insert`), a check on a copy followed by an UPDATE of some columns (`Read`, `Write`),
one statement (`Statement`, `Add`, `Set`), and a sequence of entity components
(`SetParts`, `SetComponent`); `Publish` follows, and `Abandon` ends any of them early.
`With`, `Without` and `Updated` are the table after an insertion, after a deletion, and
a row after an UPDATE of some of its columns.
`stale` is history: the rows that were written from a copy, or inserted after a check,
that another request had outdated meanwhile; `news` are the events published.

**Finance** (`internal/module/finance/service.go`, `finance_repo.go`) extends
`Handlers`.  `CreateTransaction` and `IsPeriodOpen` ask before the transaction of
`InsertTransaction`; a period that cannot be read is open.  `AutoTransaction`,
`FindAccounts`, `InsertTransaction`, `ReadCreated` and `UpdateTransaction` are the
steps of CreateAutoTransaction; `CreateCashOperation` and `InsertCashOperation` come
before them for a cash operation.  `overtaken` and `given_up` are history.

**HR**, **Logistics**, **Catalog**, **CRM**, **Banking**, **Messenger** extend `Records`
with one action per endpoint and one per write, and have each a specification of
their own (`HRSpec` and so on; so have the four modules below).  A product of
`Catalog` may come without a SKU, or with a barcode that is not the SKU that was
looked up (`checked` is history: was the stored code looked up and not found?); the
module also has the arithmetic of `CalculatePrice`.  An update of `CRM` sets any of
its four fields, each in a transaction of its own (`SetField`).  `Banking` keeps the two counts of a stored
reconciliation at zero, as the code does.  In `Messenger` an edit restores the
text of a message that was deleted meanwhile, the look-up of a direct
conversation does not mind further members, and one that fails counts as "none"
(`LookUp`).

**ProcessEngine** (`internal/core/process/engine.go`): an event is handled by
`HandleEvent`, `StartProcess`, `ReadActive`, then `ExecuteActions` and
`UpdateInstance` for each active instance.  `SaveDefinition` and `DeleteDefinition`
write the table and later the map (`WriteMap`); after a `Restart` the map holds only
what comes from files, because nothing calls LoadDefinitions.  The map is the row
`Engine`, whose id no table uses.  `HistoryIsAPath` asks that each entry of a history
is a transition of some version of the definition, as versions change under the
instances.

**Sessions** (`internal/core/auth/auth.go`, `storage/redis`): a session, each of its
seances and the set of its seances are Redis keys, and every Redis command is
a step; `Expire` drops a key at any time.

**Idempotency** (`internal/api/rest/idempotency.go`): `SetProcessing`, `Execute`,
`Respond`, `Replay`, with `ExpireMarker` at any time and a Redis that does not answer
(`RunUnmarked`).  The handler may fail, before or after it has committed something;
the key is deleted either way.

**LiveViews** (`internal/graphs`): every graph with the tables its query reads and
the columns it depends on, `EventToChanges` with its branch for each module, and one
operation for every kind of write of the server with the event it publishes.
An operation is announced after its commit, unless it is `early`: reservations,
releases and applied counts are announced inside their transaction, which may then
fail (`PublishFirst`, `CommitLast`).  An update or deletion of an entity is `pooled`:
it is committed although its event may be lost (`LoseEvent`).
Finance, route and stop events carry no entity, clocking in and out is published as a
shift, and an edit of an order publishes nothing: those writes are named in
`Unheard`.  An event type that lacks a part has `None` there.

## 4. Runs

| Run | Bounds | Checks | Distinct states |
|---|---|---|---|
| `MCWarehouse` | 2 handlers, 1 product, 2 warehouses, 3 requests of any kind, failing reads, crashes | TypeOK, NonNegativeStock, LedgerExplainsStock, ReservedWithinQuantity, refinement of StockBook | 839 000 |
| `MCWarehouseLive` | the same with 2 requests | EveryRequestEnds, LowStockIsAlerted | 106 000 |
| `MCStocktaking` | 2 handlers, 1 session, 2 products, 6 requests | LedgerExplainsCounts, OneApplicationPerSession, ApplySetsWhatWasCounted, EveryRequestEnds | 291 000 |
| `MCOrders` | 2 handlers, failures, crashes; either 6 requests of any kind on 1 order, or 4 that create and submit 3 orders | TypeOK, NumbersAreConsecutive, MilestonesMatchStatus, TotalMatchesItems, EventsFollowCommits, refinement of OrderLifecycle | 722 000 |
| `MCEntityStore` | 2 handlers, 1 entity, 2 columns, 3 requests, failing appends, crashes, shutdowns | VersionsAreLogged, DeletedOnce, UpdatesKeepOtherColumns, HeardIsStored, EventsAreHandled | 293 000 |
| `MCFinance` | 2 handlers, 3 requests of any kind, 2 months, 3 accounts, failing queries, handlers that give up | FinanceTypeOK, AutoEntriesArePosted, CashIsBooked, ClosedMonthsStayShut, PostedIsFinal | 133 000 |
| `MCOrderSaga` | failing steps and crashes in three scenes, below | ReservationsFollowOrders, CustomersOweWhatIsOpen | 762 000 |
| `MCServices` | each of ten services by itself: 2 handlers, 3 requests of any kind (2 for the views) | one or two properties of each service, below | 1 097 000 |

`MCServices` has one variable more, the service its behaviour is of, so that one
run covers the ten modules over `Records`: WorkIsDecidedOnce (HR),
StopsAreVisitedInOrder (Logistics), SKUsAreUnique and PricesAreSound (Catalog),
TagsAreKept (CRM), BookingsAreReported (Banking), HistoryIsAPath (ProcessEngine),
LogoutIsFinal (Sessions), ConversationsAreUnique (Messenger), RetriesAreAbsorbed
(Idempotency), ViewsCatchUp (LiveViews).  PricesAreSound is a check of a pure
function: all lists of up to three of the five sensible rules, four prices,
quantities up to five, with the discounts of 100 % and more than the price among
them.  A sixth rule takes 150 %, which the code stores and applies as it is;
`Sensible` leaves it out.

Why these bounds: the anomalies of this code need two handlers on one row (the
locks and the stale copies are per row), a third request to be hurt by what two
have done, and for the orders a whole life cycle (create, submit, confirm, and
then two that overlap) which is the six requests.  Two warehouses are the
least a transfer needs and give opposite lock orders; two products the least
that an order of locks needs.  For the numbers one handler may hold the lock of the
counter while the other waits, and three orders let one follow a creation that failed.  The bounds are constants (`MaxRequests`, `OpeningStock`, the sets), and
the proofs do not depend on their values.  In `MCOrders` and `MCOrderSaga` a variable
`scene` narrows them further, so that one run looks at several small instances; its
bounds are conjuncts of `MCNext` and stand in the record `Scenes`.
Symmetry is used only where no liveness property is checked.

The saga has three scenes.  In `share` two submitted orders, of which one has a second
item, are confirmed and cancelled: two orders and one product they share are the least
in which one order can release what another has reserved, and three events let one
order be confirmed and cancelled while the other one is confirmed; their goroutines
overwrite each other on the one stock row.  In `overlap` two requests at a time serve
one submitted order, the least in which requests overwrite each other, and three
events let both publish after a third has; shipments, deliveries and refunds are among
them.  In `life` four events take one order, whose total may change, from its creation
through confirmation and payment to a cancellation or a refund.  What the scenes do
not combine is left to the proofs of section 6, which have no bounds.

For the services two requests are enough to overlap and a third to find what they left.
Of the four fields of a counterparty two are updated (`FewFields`): the profile, which
holds the tags, and one that is written before it.

The properties in words: each is stated above its definition.  The ones that
say "unless" (`tainted`, `overcounted`, `unexplained`, `contested`,
`overwritten`, `stale`, `overtaken`, `given_up`, `astray`, `disturbed`, `overlooked`,
`cut`) are exact about the
exception: the history variable is set only by a step that was admitted on a
copy, or after a check, that somebody else had outdated since (for `contested`, by a
finalisation while another one of the same session is under way; for
`overcounted`, by an adjustment below what is reserved; for `given_up`, by a
handler that failed; for `astray`, also by a release for an order that had reserved
nothing; for `disturbed`, also by a crash before the event was published; for
`overlooked`, by a query that failed or a crash before it; for `cut`, by a
shutdown).  So they say what the code guarantees, and the exceptions are behaviour
the models contain.  Those a reader of the code should know:

* a transfer, receipt or reservation writes over a stock row that changed since
  it was read, and any error of the stock query counts as "no row";
* two overlapping requests apply one stocktaking session twice;
* a payment that read the order before a cancellation revives it (`stale` in
  `Orders`, `Overwrite` in `OrderLifecycle`);
* refunds are compared with the order, not with what was refunded before, and the
  amount of a payment is not looked at;
* two overlapping cancellations release and reverse twice, and a payment that
  overlaps a cancellation is booked along with the reversal (`disturbed`);
* the cancellation of an order that never reserved (from draft or new) releases what
  other orders hold; the reversal of a cancelled order books its present total;
* nobody releases the reservation of an order that was shipped;
* a shipment whose look for low stock fails raises no alert, then or later;
* a route whose stops could not all be inserted keeps those that were;
* after the row of a marker has expired, a slow request and its retry both run; and
  a request that failed after it had committed a part commits that part again when
  it is retried;
* a product that comes with a barcode and no SKU, or another one, duplicates a code,
  and a look-up that fails counts as "no such SKU" and "no such conversation";
* an applied stocktaking is announced before it is committed, so a view may be
  refreshed too early and then stays behind;
* nothing checks a pricing rule when it is stored: a percentage over 100 makes a
  price negative.

Four runs find what a document of the repository rules out:

| Run | Violated | What the code does, and what contradicts it |
|---|---|---|
| `MCEntityStoreLog` | MutationHasEvent | Update and Delete run on the pool inside a transaction that holds only the event; `docs/ARCHITECTURE.md:98` |
| `MCOrderSagaCancel` | CancelledOrdersHoldNothing | the goroutine of order.cancelled overtakes that of order.confirmed, and the goods stay reserved; `docs/EVENT_SYSTEM.md:155` |
| `MCEntityStoreShutdown` | HandlersOutliveShutdown | shutdown closes the pool while handlers of published events still run; `docs/ARCHITECTURE.md:227` has it wait for them, up to ten seconds |
| `MCLiveViewsJournal` | JournalViewsCatchUp | finance events carry no entity and change no view; `docs/ARCANA_INTEGRATION.md:101` |

Deadlock checking is off in every cfg: a state in which all requests are
served and the bound is reached has no successor but is no fault.  Handlers
that wait for each other are caught by `EveryRequestEnds`.

## 5. Fairness

Safety is checked and proved without fairness.  The liveness runs use
`FairSpec`: weak fairness of `Progress(w)`, the next step of a handler that is
already serving a request.  The Go scheduler runs every runnable goroutine and
PostgreSQL answers every query, so a step that stays enabled is taken; a
row lock that is released and taken again by others is not enough for weak
fairness, and the properties hold without strong fairness because requests are
finite.  `BreakDeadlock` is fair as well: PostgreSQL looks for cycles after
`deadlock_timeout`.  In `EntityStore`, `Handle` (the event goroutines) is fair
for the same reason.  New requests, rollbacks, crashes and shutdowns are never fair,
and `EventsAreHandled` gives up when the process dies or is shut down, since nothing
redelivers.  `Progress(w)` does not say how a step ends: the query for low stock may
fail (`LowStockUnread`), and fairness never asks for the other outcome.

## 6. Proofs

Proved with TLAPS for all values of the constants under the assumptions each
module names (`WarehouseAssumption`, `StocktakingAssumption`, `OrdersAssumption`,
`EntityStoreAssumption`, `OrderSagaAssumption`, `FinanceAssumption`,
`CatalogAssumption`, `HandlersAssumption`, `HRAssumption`, `ProcessAssumption`: the sets have the right
kind, the reserved value "no worker" is not a worker, some key, order or column
exists, an order of `OrderSaga` has each product once and a total above nothing, "no SKU" is
no SKU, the employee of `HR` has a row
of before the first request, definitions loaded from files are definitions, with
positive ids).  TLC evaluates them in the runs.

`WarehouseProofs`:

* `TypeCorrect`: `Spec => []TypeOK`, inductive as it stands.
* `StockNeverNegative`, `LedgerExplains`, `ReservationsCovered` follow from
  `Invariance`, the inductive `IInv == OpenLocks /\ DraftInv /\ StockInv`.
  The invariants are not inductive alone: a commit installs `draft` rows, so
  `DraftInv` says of every open transaction that what it is about to write is
  non-negative, that it differs from the row it read by exactly the movements
  it is about to insert (`DraftsAccounted`), and that it covers its
  reservations (`DraftsCovered`) unless the handler is stale for that key; `OpenLocks`
  says that only a transaction in progress holds a row.  The lemmas
  `PrepareKeepsInv`, `LeaveKeepsInv` and `CommitKeepsInv` carry the argument
  for the three shapes a step has.

In the same module, `StockBookImplemented`: `Spec` implements `StockBook`.
The inductive `FlightInv` says what is in flight: for every row a handler
holds and is not stale for, draft and movement are what its request makes of the
committed row, whose guard still holds (`DraftsPerform`); the locks of a handler
are the rows its request has upserted so far (`LocksTold`); and it is stale only for
rows it holds (`StaleHeld`).  So a commit with nothing stale is the operation
itself (`CommitIsOperation`), and any other is a `BlindWrite` of the rows it
locked (`CommitIsBlindWrite`).

`StocktakingProofs`:

* `CountsExplained`: the inductive `CountInv` adds to `LedgerExplainsCounts` that
  what a session or an applying handler expects of a product is its stock,
  unless the product drifted since the snapshot (`SnapshotInv`), and that the
  quantity a movement has read is still its stock, unless another commit outdated
  it (`MoveInv`).
* `AppliedOnce`: `OnceInv` adds that a handler about to finalise a session finds
  it still in progress, unless the session is in the history of contested ones.
* `CountsApplied`: `LoadedInv` says that all items of an applying handler were
  counted, and still equal the items of the session unless those were counted again.
* All rest on `StatusInv`: one handler starts a session nobody else knows, the
  others work on sessions that exist.

`OrdersProofs`:

* `TypeCorrect`, with the side invariant `Numbered` (a served request has an
  id, which becomes the line it stores).
* `MilestonesMatch`: the inductive `StampInv` says that all rows AND all copies
  handlers hold are `Legitimate`, and that each copy was admitted in a status its
  operation accepts.  `AfterIsLegitimate` is the case analysis over the
  operations; after that, overlapping handlers do no harm, as every one
  writes a whole legitimate row.  `Legitimate` also excludes the status
  "assembling", which Ship accepts but nothing reaches.
* `EventsFollow`: `EventInv` adds that a handler about to publish has already
  committed the status its event announces (`Entitled`); statuses once reached
  stay in the history `reached`, so nothing published becomes false.
* `NumbersConsecutive`: `NumberInv` adds that a handler holding a number
  holds the lock on the sequence and its number is the next one, that the orders
  being created are absent and pairwise distinct, and that orders with a copy
  in some handler exist (so `UpdateOrder` never makes an order appear).  The
  counting step is `OneMore`, from the library's theorems on finite sets.

* `LifecycleImplemented`: `Spec` implements `OrderLifecycle` under the mapping of
  the status.  The step that carries it is `Fresh`: the copy of a handler that is
  not stale is the row of the table (`FreshCopies`), so its commit is an edge from
  the present status (`OutcomeIsEdge`); the commit of a stale handler is an
  `Overwrite`.  It uses `StampInv` and `NumberInv`.
* `TotalsMatch`: `ItemsFresh` says the same of the item lines an Update is about to
  replace, so it removes them all and total and items are replaced together.

`EntityStoreProofs` first reduces the actions to seven kinds of steps
(`StepsOfStore`: Creates, Opens, Updates, Deletes, Commits, Publishes, Stops), and
all invariants are proved about those.

* `SubscribersHearWhatIsStored`: `HeardInv` adds that what is in the outbox of a
  handler, except a removal, is already in the store (`OutboxTold`).
* `DeletionsAreSingle`: `DeleteInv` counts the stored deletion and the handler
  on its way to one together, and ties both to the state of the row.
* `VersionsLogged`: `VersionInv` adds `FreshIds`, by which each request stores an
  event nobody has stored, so the set of events grows by exactly one
  (`OneMoreSet`, from the library's theorems on finite sets).
* `OtherColumnsKept`: `UpdatesKeepOtherColumns` is inductive with the types, as
  `overwritten` tells exactly which rows were written from an older copy.

`OrderSagaProofs`: `ReservationsFollow`.  The inductive `SagaInv` has five parts:
events are numbered and their goroutines are those of their subscribers (`BusInv`); a
request works on an order there is, with a copy its operation accepts (`TaskInv`); an
order that is not `disturbed` is created, confirmed, paid and cancelled once each,
counting the events that requests have still to publish, and its row tells of which
(`LifeInv`, `Agrees`); what was moved was moved by a handler that has that item
behind it, so nothing is moved twice (`MovedInv`); and, for a product whose row and
whose orders are in order (`Clean`), `reserved` is the number of orders that reserved
and did not release it (`KeptInv`).  The steps that carry it are `WrittenAgrees`, by
which a copy that agrees with the events yields a row that agrees with one more,
and `NotYetMoved`, by which the item a goroutine is at was not moved before.  Once
nothing is still held for a cancelled order, the orders that keep something are the
confirmed, paid, shipped and delivered ones (`KeptAreHolding`).

In the same module, `CustomersOwe`.  `MoneyInv` says that each entry is that of
one event or of before the first one (`JournalInv`), and that a posting under
way is of an event of its type (`PostersInv`).  Once nothing is on its way, `LifeInv`
says of an order that is not disturbed which events it has (`QuietAccounts`).  So
the entries of an undisturbed order are those of its events, one for each
(`EntriesOfEvents`), and all come to its total or to minus its total;
`BookedTwoWays` counts the two kinds.  An order two of whose requests overwrote each
other is not covered: two cancellations of one order do book two reversals.
What is owed is a sum over the amounts that occur, a recursive function that then
has at most two terms (`OwedOfTwo`).

`FinanceProofs`: the inductive `FinanceInv` is `FinanceTypeOK` with four parts.
`Drafts` says that a handler's entry belongs to its own request and is not posted
before it is inserted; `AutoInv` and `CashInv` follow an automatic entry and a
cash operation from step to step, up to the posted entry or to `given_up`; `AskedInv` says
that the month of a handler about to insert is open or the handler is in
`overtaken`.  From it `AutoEntriesPosted`, `CashBooked`, and the action properties
`ClosedMonthsShut` and `PostedForGood`.

`ServicesProofs` and `PlatformProofs` treat the ten modules over `Records`, whose
table holds rows of different shapes under one variable.  All but the
process engine's use `TasksOK`: goroutines that are not idle have requests of their
own, so ids made from the number of a request are new.  Each module then has an inductive invariant of the
same form: what a row looks like for its kind (`HRRowsOK`, ...), what a goroutine
knows of the table at each step of its request (`HRTasks`, ...), and the property,
strengthened where it is not inductive.  Its lemmas follow the shapes of `Records`: a
request begins, a row is added, planned and inserted, some columns are written, an
event is published.

`ServicesProofs`:

* `DecidedOnceOnly` (HR).  Counting published decisions is not inductive: two
  approvals may be on the way to their publication.  `DecidedOnce` counts the
  announced decisions and the goroutines about to announce one (`Telling`) together:
  for a row that is not stale there is at most one, and none while the row is
  undecided.  A decision that overtook another one has marked the row.
* `StopsInOrder` (Logistics).  An arrival that was admitted has all stops before its
  own `Passed` until it writes; stops of a route still being created come in
  increasing order, so no stop appears before one that was visited.
* `SKUsStayUnique` (Catalog).  The planned product of each creation is absent and
  well-formed; the mark set at the insertion is exactly the negation of the check,
  and the exceptions (a barcode nobody looked up, a look-up that failed) are the
  products that are not `checked`.
* `PricesStaySound` (Catalog).  `AppliedKeepsPriced` is the step: a sensible rule leaves
  a price between nothing and what it was, and a quantity that covers the ordered
  one.  The price of a list of rules is a recursive function of how many were
  applied; `CalculatedIsPriced` takes the least number at which it would go
  wrong (`Least`, from the library's theorem on well-founded relations).
* `TagsStay` (CRM), an action property.  Rows keep their shape and ids their
  requests, so a step that takes a tag away is the one that sets a profile or the
  one that writes the merged tags, and that one takes only what it was asked to
  when its copy is up to date.
* `ConversationsStayUnique` (Messenger).  `BothAreIn`: the two of a direct
  conversation are members of it until somebody leaves, so the look-up of the
  next creation, which goes by members, finds it unless it fails; the insertion of a
  conversation beside one the look-up would find now is marked, whether the look-up
  had failed or was overtaken.
* `BookingsReported` (Banking).  A reconciliation under way has its bookings among the
  lines it has done, at entries that say "matched"; only it adds rows with its number.

`PlatformProofs`:

* `RetriesAbsorbed` (Idempotency).  `OnceInv`: of a key whose marker never expired and
  was never bypassed, there is at most one goroutine between marker and response,
  at most one success, no success without a marker, and the success there is at each
  step of that goroutine.  `ReplayInv`: a stored response names a success.  What
  failing requests have committed is in the table and counted by nobody.
* `LogoutEndsSessions` (Sessions).  `Ended` says of a session whose logout has
  passed that it is gone and what seances refer to it are marked; this needs that
  no request will yet store a session or a seance under an old key (`Seen`, `Used`),
  and that a logout in the middle has removed the seances it knew of.
* `HistoriesArePaths` (ProcessEngine).  Not only rows are paths but also the copies
  handlers hold (`CopiesOK`), and these were active when read: an UPDATE writes a
  whole row, a path prolonged by one transition (`Takes`) of a definition.  So
  overlapping events lose transitions but never leave a broken history.
* `ViewsDoCatchUp` (LiveViews).  `Excused`: of every write a view does not show, the
  event is still to be announced, or its notification is pending, or the view depends
  on none of the columns it names (`Deaf`), or it is marked: as committed after its
  announcement was handled, or as one whose event was lost.  That a
  view hears of every write to a table it depends on, unless the write is `Unheard`,
  is a case analysis over all graphs and all operations of the server
  (`EventsAreHeard`).

Checked with TLC only: liveness, that is `EveryRequestEnds` (of `Warehouse` and of
`Stocktaking`), `LowStockIsAlerted` and `EventsAreHandled`, for liveness under fairness and
ENABLED are out of the prover's reach; and what the four runs refute, which is
no theorem.

## 7. Abstractions and what is left out

* Amounts are integers where the code has `float64` quantities; rounding is not
  modelled.  Money is `int64` and far from its bounds.
* One organisation, except in `Sessions`: every statement is scoped by
  `organization_id`.
* Names, texts, ids and payloads are model values; the data of events is left out except
  for what a property reads.
* Validation that looks only at the input is reflected in the sets the inputs
  come from.
* A commit either happens or fails; a commit whose answer is lost looks to the
  handler like a failure and is not modelled separately.
* Crashes lose every goroutine and keep the database.
* `OrderSaga` has one warehouse, one of each product in an order, no discounts,
  payments of the total and refunds of the whole order.  Stock moves by the
  subscribers only (the requests of the warehouse and their overlaps with
  reservations are in `Warehouse`), row locks are left out since each transaction
  there locks one row, and `order.submitted`, `order.shipped` and `order.delivered`
  are left out since nobody there subscribes to them.  Publishing an event always stores it there, as nothing
  in the module reads the events table; an append that fails is in `EntityStore`.
* In the modules over `Records` an operation of the entity service is one step
  (its inside is in `EntityStore`), and each service runs by itself: they share
  no row but through the entity service and the events.
* Conditions of process transitions are a choice; the actions of a transition
  are one step.
* Not modelled: the connection pool (section 2); the rate limiter, one Redis
  script; webhooks and notifications, which are sent and forgotten; settings,
  spaces and files, single-row statements; import, export, documents and
  analytics, loops over other services or read-only queries; the integrations
  with remote services; decoding, encoding, routing and permissions of REST; the
  command-line tools, the schema and generated code.  `PROJECT.json` gives the
  status and the reason for each.
