# The transactional core of Saleor in TLA+

The repository is a deployment of Saleor, a headless commerce backend: Django
models over PostgreSQL, a GraphQL API for storefronts and staff, Celery workers
for background tasks, and webhooks to apps. This directory models the part of it
where several requests and tasks work on the same rows: the stock of a shop, the
promises made on it to checkouts and orders, the fulfillment of orders, the
completion of checkouts, the events and amounts of payment transactions, the
delivery of webhooks, and the circuit breaker that guards synchronous ones.

Paths below are relative to `src/saleor/`.

## Inventory

### Parts, their state and operations

| Part | State | Operations | What makes it correct |
| --- | --- | --- | --- |
| Stock management, `warehouse/management.py` | `Stock.quantity`, the denormalised `Stock.quantity_allocated`, `Allocation` rows (order line x stock) | allocate, increase, decrease, deallocate, decrease_stock, increase_stock, delete | no unit is promised twice; the counter is the sum of the rows; a live line keeps its open quantity allocated |
| Reservations, `warehouse/reservations.py` | `Reservation` rows (checkout line x stock) with `reserved_until` | reserve, replace, prolong, reserve unchecked before a payment, expire, delete | a checked reservation takes only what nobody else holds |
| Warehouse tasks, `warehouse/tasks.py` | none of their own; values read before they write | delete empty allocations, repair counters, delete expired reservations | they converge and destroy nothing that is in use |
| Order fulfillment, `order/actions.py`, `order/utils.py` | `Fulfillment` and `FulfillmentLine` rows, `OrderLine.quantity_fulfilled`, `Order.status` | fulfill, approve, cancel, refund, return, replace, cancel the order | quantities are conserved and bounded; the status is what the quantities say; stock covers allocations |
| Fulfillment mutations, `graphql/order/mutations/` | Python objects read before any lock | validation, then the action | decisions still hold when they are carried out |
| Order expiry, `order/tasks.py` | none | expire, delete expired | only unpaid, unconfirmed, old orders go |
| Checkout completion, `checkout/complete_checkout.py` | `Checkout`, voucher usage, `Payment`, gift card balances, reservations | payment flow: prepare and reserve, pay, create the order; transaction flow: count the voucher, create the order | one order at most, with its payments and its money; no use of a voucher left uncounted |
| Transactions, `payment/` | `TransactionItem` amounts, `TransactionEvent` log | event reports, requests and answers, updates, recalculation | amounts are the ledger of the events; a repeated report changes nothing |
| Circuit breaker, `webhook/circuit_breaker/` | per app state and event counts in Redis with a TTL | open, half-open, close, reset by staff | each change is one decision; no endless open state; a failing app is cut off |
| Async webhooks, `webhook/transport/` | `EventPayload` with its file, `EventDelivery`, Celery tasks | create, generate deferred payloads, send, retry (5 times), give up, clear, retry by staff, delete old payloads | no delivery is forgotten, payloads live as long as they are needed |
| Gift cards, vouchers, promotions | balances, usage counters, rule sets | use, release, toggle | no overspending |
| Catalogue, taxes, shipping, accounts, apps, plugins, CSV, invoices, search | configuration and CRUD data | - | sequential; no protocol |

### How they interact

A checkout reserves stock while it is edited, and once more, without a check,
before its payment is made. Completing it, or completing a
draft order, calls `allocate_stocks`. Staff edit the lines of an unconfirmed
order (`increase_allocations`, `decrease_allocations`), fulfill it from a
warehouse (`create_fulfillments` -> `decrease_stock`), cancel fulfillments
(`cancel_fulfillment` -> `increase_stock`), refund or return lines, and cancel
the order (`deallocate_stock_for_order`). `expire_orders_task` closes
unconfirmed orders that nobody pays. `checkoutComplete` and a Celery task turn a
checkout into an order, charging its payment or relying on transactions, whose
events payment apps report and answer. Changes trigger webhooks: asynchronous
ones through delivery rows and tasks, synchronous ones (taxes, shipping,
payments) through the breaker of their app. Every GraphQL request and every task is a
thread of its own; they meet in database rows and, for the breaker, Redis keys. Inside a transaction
`select_for_update` serialises them, but a mutation reads and validates before
its transaction, and the objects it read are what it later writes from.

### What is hard

The hazards are listed, with their lines, in `PROJECT.json`. In short: values
read before a lock and written after it (`quantity_fulfilled`, `Order.status`,
the repair task's counters); checks not repeated after the lock (cancel,
approve, expire); aggregate updates that keep one of several increments
(`bulk_update`); a generator that is read twice; work left to `on_commit`, which
a killed worker never does; expiry racing with use; amounts calculated after the
lock under which their events were recorded; a state that is deleted and written
in two Redis commands; a payload that two successful deliveries clear at once.

## Modules

| Module | Content |
| --- | --- |
| `Quantities` | sums over rows (SQL `Sum`), signed sums (`Total`), the least key, and the take-from-each-row loop |
| `Warehouse` | stocks, allocations, reservations, the tasks, and the orders as far as they move stock |
| `Fulfillment` | the fulfillments of one order, with the steps of concurrent requests |
| `CheckoutComplete` | threads that complete checkouts, their vouchers and payments |
| `TransactionItem` | the events and amounts of one payment transaction |
| `Breaker` | what a circuit breaker promises |
| `CircuitBreaker` | the breaker of one app, one step per Redis call; refines `Breaker` |
| `WebhookDelivery` | one event, its payloads and deliveries, and the tasks that send them |
| `MCWarehouse`, `MCFulfillment`, `MCCheckoutComplete`, `MCTransactionItem`, `MCCircuitBreaker`, `MCWebhookDelivery` | the values of the constants for TLC |
| `QuantityFacts` | lemmas about sums, signed sums and the loop |
| `WarehouseProofs`, `FulfillmentProofs`, `FulfillmentSequenceProofs`, `CheckoutCompleteProofs`, `TransactionItemProofs`, `CircuitBreakerProofs`, `WebhookDeliveryProofs` | theorems about the specifications |

### Warehouse

| Variable | Code |
| --- | --- |
| `stocks`, `quantity`, `quantity_allocated` | rows of `Stock` and two of its columns |
| `rows`, `allocation` | rows of `Allocation`; an empty row differs from no row |
| `status`, `ordered`, `shipped` | `Order.status` as far as stock depends on it, `OrderLine.quantity`, `quantity_fulfilled` |
| `reservation`, `expired` | rows of `Reservation`, and those whose `reserved_until` has passed |
| `mismatched`, `emptied` | what the two unlocked tasks have read |

A function that locks the stock rows before it reads is one action, the whole
function: choice of stocks by the channel's strategy (`SortedBefore`), rows,
counter, order. The two tasks that read without a lock are two actions each. A
request that raises `InsufficientStock` is rolled back, so its action is
disabled. `BulkUpdateCounter` is the database's treatment of
`bulk_update(stocks, ["quantity_allocated"])` with several instances of one pk:
`CASE WHEN pk = ... THEN quantity_allocated + n` applies the first branch. Which
allocation comes first is left open. `AllocationsSeen` is the map that
`allocate_stocks` computes: empty when the generator `stocks_id` was consumed by
the reservations query before.

`CancelOrder` and `ExpireOrders` take any order that is not a draft: what
`can_cancel` and the task's query require is read without a lock, for expiry
from a replica, and is not looked at again. A closed order stays closed in
this module even when a fulfillment gives it another status; `Fulfillment` has
the real status.

`ChangeOrderLineQuantity` and `DeleteOrderLine` are the line edits of an
unconfirmed order. They take the quantity `old` that the request has read before
its transaction. With `OverlappingEdits` it may be any quantity and the order
may have left `UNCONFIRMED` in the meantime, which covers every delay between
read and write; without it requests that edit an order run one at a time.

Reservations change in three ways. `AddVariantsToCheckout` is an edit of a
checkout, `req` the new quantities of the lines it creates, updates or deletes:
`ReserveStocks` checks and replaces the reservations of these lines only, against
what is allocated and what any other line has reserved. Then
`reserve_stocks_and_preorders` gives all other reservations of the checkout a new
`reserved_until` without looking at the stock, so that one which has expired, but
has not been deleted, counts again. `reserving` says whether reservations are
enabled and a line is created or updated; an edit that only deletes lines prolongs
nothing. `ReserveStocksWithoutAvailabilityCheck` is what the payment flow does
between its first two transactions: it adds the whole quantity of every line to the
last stock found for its variant. The test of the variant's total that precedes it
(`check_stock_and_preorder_quantity_bulk`, which locks nothing) is left open, since
others may take the units after it. `reserved_until` belongs to a row, so rows
expire one by one (`ReservationExpires`). That the fail handler of a completion
deletes nothing of this is the code's behaviour: such a reservation ends by its time.

Left out: lines without `track_inventory` (as far as they have no stock to
reserve), preorders, back-in-stock events,
several warehouses in one fulfillment request (each is a `decrease_stock` of its
own here), a draft with two lines of one variant (`DraftLines`).

### Fulfillment

One confirmed order whose lines have one stock each. `request[p]` is the memory
of request `p`: what it asked for and the values its Python objects hold.

| Step of the code | Action |
| --- | --- |
| `OrderFulfill.clean_input`, lock and second check, `create_fulfillments` | `FulfillRead`, `FulfillLock`, `CreateFulfillments` |
| `FulfillmentApprove.clean_input`, `fulfillment.save()`, the rest of `approve_fulfillment` | `ApproveRead`, `ApproveLock`, `ApproveFulfillment` |
| `FulfillmentCancel`, `select_for_update` and the lines, `cancel_fulfillment` or `cancel_waiting_fulfillment` | `CancelRead`, `CancelLoad`, `CancelFulfillment`, `CancelWaitingFulfillment` |
| refund products: `clean_input`, `create_refund_fulfillment` | `RefundRead`, `CreateRefundFulfillment` |
| return products: `clean_input`, `create_fulfillments_for_returned_products`, `order_returned` on commit | `ReturnRead`, `CreateFulfillmentsForReturnedProducts`, `OrderReturned` |
| `OrderCancel`, `cancel_order` | `CancelOrderRead`, `CancelOrder` |
| an error, a rollback, a killed worker | `Fail` |

`LinesFree` and `RowFree` are the row locks that decide what a request may read
next. `StatusAfter` is `update_order_status`, with its comparison against the
request's own `Order` object. `fstatus` distinguishes a fulfillment that never
existed from one whose row was deleted, since `save()` of a deleted object
inserts it again.

Left out: payment capture and refunds, amounts, the draft order that a
replacement creates, events and e-mails, `allow_stock_to_be_exceeded` and
several stocks per line (in `Warehouse`), orders with gift card lines (which
`FulfillmentCancel` refuses). A warehouse to restock in is always given:
`validate_fulfillment` requires it unless the fulfillment is waiting, and
`cancel_waiting_fulfillment` does not restock.

### CheckoutComplete

| Variable | Code |
| --- | --- |
| `open`, `counted`, `completing` | the `Checkout` row, `is_voucher_usage_increased`, `completing_started_at` while it is recent |
| `locked` | the thread that holds the row between the steps of the first transaction |
| `used` | `VoucherCode.used` |
| `pay` | `Payment` rows: active, charges held, the last accepted refund, assigned to an order, and `answer`: nothing pending, answered with PENDING, or reported after that |
| `orders` | orders made of the checkout, with their flow |
| `thread` | where a thread is, the flag and voucher it has read, the payment it works with |
| `overlapped` | history: two threads have worked on the checkout at the same time |

| Step of the code | Action |
| --- | --- |
| first transaction of `complete_checkout_with_payment` | `LockCheckout`, then `Prepare`, or one of its errors `RefusePrepare`, `FailRefund`, `FailTaxes` |
| second transaction, `_process_payment` | `Charge`, `Decline`, `Deactivated` |
| third transaction, `complete_checkout_post_payment_part` | `AskCustomer`, `GiveUp`, `FailOrder`, `FinishOrder` |
| `create_order_from_checkout` | `ValidateVoucher`, `CountVoucher`, `CreateOrder`, `FailCreate` |
| a later transaction finds no checkout | `FindOrder` |
| `checkoutPaymentCreate`, the completion lock time, `delete_expired_checkouts` | `CreatePayment`, `LockTimeout`, `Expire` |
| the gateway ends a refund, or reports on a pending payment; a thread is killed | `RefundArrives`, `PendingReported`, `Kill` |

The transactions of the payment flow commit even when they raise
(`transaction_with_commit_on_errors`), so an error is an action that changes rows;
the second transaction of the other flow rolls back, so `FailCreate` changes
nothing. The second and third transaction are one step each because the row is
locked throughout and nothing else reads what they write. Which flow a request
takes depends on authorizations outside the model and is left open. All checkouts
have the same voucher code with a limit; amounts are multiples of the total.

`Charge` is the gateway's answer: it has captured the money (`Captured`),
authorized it (`Authorized`), accepted the payment with `PENDING` and holds no
money yet, finds it charged already, or asks for an action; `Decline` is a refusal.
After `PENDING` the code goes on and creates the order with a captured amount of 0.
What becomes of the money is reported later by a notification
(`payment/gateways/adyen/webhooks.py`): `PendingReported` captures or authorizes
it, and gives it back when a newer payment has made this one inactive, or cancels
the payment. `payment_refund_or_void` does nothing while `charge_status` is
PENDING, since `can_refund` and `can_void` ask for other values. A completion that
a notification starts is a thread like the others.

Left out: notifications about payments that are not pending (a capture that fails
later, the cancellation of an authorization), the `cancel_order` that follows the
cancellation of an order's payment, gift cards, prices and taxes (an error that may occur), once-per-customer
and single-use codes, partial payments, an order with total 0, stock (in
`Warehouse`; creating the order may fail here).

### TransactionItem

| Variable | Code |
| --- | --- |
| `events` | `TransactionEvent` rows, with `include_in_calculations` and `created_at` |
| `item` | the eight amounts of the `TransactionItem` row |
| `asked` | requests whose task has no answer of the app yet |
| `worker` | what a request or task is doing, and the amounts its instance holds |
| `told` | history: what the app has told, repetitions left out |
| `disturbed`, `refused` | history: the last save overlapped other work or was missed; an event was refused |

`Calculations` is `calculate_transaction_amount_based_on_events`, part by part:
which event of a type and reference is kept, when a request is pending, when a
success counts, what the newest adjustment hides. It yields a set, since rows
with equal `created_at` come in an order the database chooses.
`transactionEventReport` is `ReportNew`, `ReportRepeated` or `ReportConflicting`
under the row lock, then `RecordFailure` or `Calculate` and `Save` without it.
`transactionRequestAction` is `RequestAction`; the task's answer is
`AnswerNothing`, or `AnswerReference` followed by `AnswerEvent`.
`transactionUpdate` is `UpdateRead`, `UpdateStore` (all columns are saved),
`UpdateMeasure`, `UpdateAdjust`, and the recalculation.

Left out: transaction sessions, granted refunds, info and action-required events
(which move no amount), and what follows for the order or checkout.

### Breaker and CircuitBreaker

`state`, `age`, `errors` and `total` are the Redis keys of one app, with times kept
as ages; `pc` and `seen` are the workers'. `ReadState`, `ReadTotal`, `ReadErrors`,
`ClearState`, `SetState`, `RegisterError` and `RegisterTotal` are one Redis command
each, `ReenableClear` and `ReenableSet` those of `appReenableSyncWebhooks`,
`Respond` is the webhook's request. While `trouble` holds, a read may return its
default, a write may do nothing, and workers may be killed.

`Breaker` is the promise: from each state only the decision of that state, in one
step, and a cooldown that is kept. `CircuitBreaker` implements it under a
refinement mapping that shows the old state while the keys are deleted and not
yet written, up to the first disturbance: two updates at once, a failed command, a
kill. There the code promises nothing, and `Breaker` allows anything; that the
breaker finds its way back is the liveness part.

### WebhookDelivery

| Variable | Code |
| --- | --- |
| `status`, `payload` | `EventDelivery` rows and the payload each refers to |
| `rows`, `files` | `EventPayload` rows and their files |
| `active`, `expired` | `Webhook.is_active`; deliveries older than the delete period |
| `unsent`, `generator`, `task` | what is to be published, the deferred-payload task, the send tasks with Celery's retry counter |
| `accepted`, `lost` | history: accepted by the receiver; left by a kill, an empty deferred payload or a late replica |

`TriggerEvent`, `PublishGenerator` and `Publish` are
`trigger_webhooks_async_for_multiple_objects`, `Generate` is
`generate_deferred_payloads`. A send task is `StartMissing`, `StartInactive` or
`Start`, then `Accept`, `Refuse` or `Fail`; after `Accept`,
`clear_successful_delivery` is `DeleteDelivery`, `ListFiles`, `DropPayload` and
`UnlinkFiles`, since it takes no lock. `EventDeliveryRetry` starts a second task of
the same row; its write of PENDING and its publish are one step. `DeletePayloads` is
one step too: it works on payloads whose deliveries are all old, and `Expire` makes
old only what nobody works on, as 14 days are long against five minutes of retries.
A kill inside either is left out: in the first it leaves a PENDING row without a
task, in the second a file whose row is gone because the task that deletes files
was not yet published or was lost.

Left out: several objects per event, queues, telemetry, the contents of attempts,
deletion of webhooks and apps, observability events.

## Runs

| Run | Instance | Shows |
| --- | --- | --- |
| `warehouse_drafts` | two stocks of one variant with 2 and 1 units, two one-line orders of up to 2 units, both collection point choices, staff edits, fulfillments that exceed the stock | every edit, partial fulfillment, restock, cancellation and expiry keeps the counter equal to the rows (`CounterInSync`) and each live line covered (`LineCovered`); 57,996 states |
| `warehouse_reservations` | three stocks of one unit, two of them of one variant; two checkouts, one of which has lines of both variants | no checked reservation takes what is held (`NeverOverbooks`), across expiry, replacement, deletion, completion and overbooking by the two unchecked ways to reserve; 9,932 states |
| `warehouse_repair` | one stock, two orders, edits from stale reads, batches of two in the expiry task, the empty-allocations task, deletable stock | once other steps cease, the counter becomes right and stays right (`CounterRepaired`), even when the task had already read; stale edits promise no unit twice (`NeverOversells`); 67,425 states |
| `fulfillment_concurrent` | one unit, two requests of all six mutations, two fulfillments, kills before `on_commit` | stale reads and double commits never leave an allocated unit without stock (`AllocationsBacked`); 351,236 states |
| `fulfillment_sequential` | two units, one request at a time, fulfill, cancel, refund, return and replace, four fulfillments | `quantity_fulfilled` is the number of units in live fulfillments (`FulfilledCounted`) and within the order (`NeverOverfulfilled`); 110,839 states |
| `fulfillment_approval` | two units, manual approval, five fulfillments | allocations, status and stock agree after every sequence (`OpenUnitsAllocated`, `StatusCurrent`, `NoPhantomStock`); 8,920 states |
| `checkout_overlap` | one checkout, two threads, both flows, two payments, a voucher with one use, kills | one order at most (`OneOrder`) with every payment made for the checkout (`PaymentsAssigned`) and untouched money (`OrderKeepsPayment`); attempts that follow each other leave no use of the voucher uncounted (`VoucherHeld`) and no order of the payment flow without money or a pending payment (`OrderPaid`); 1,680,937 states |
| `transaction_events` | two workers, two references, three rows, seven possible reports with two times and conflicting amounts, requests to charge and refund, updates, kills | an event counts once (`SingleEvent`), undisturbed amounts are what the app told (`LedgerShown`), a manual amount is the amount shown (`UpdateSticks`); 1,773,795 states |
| `breaker_traffic` | two workers, minimum of two errors, cooldown of one and TTL of two ticks | refinement of `Breaker` (`AtomicBreaker`); a healthy app is let in for good (`SuccessHeals`), a failing one is cut off again and again (`FailureTrips`); 455,414 states |
| `breaker_outage` | one worker, Redis errors and kills | the same liveness from whatever an outage leaves behind; 457,000 states |
| `webhook_delivery` | two deliveries of a shared payload, one of them retried by staff, one deferred whose webhook is switched, one retry each, kills, a late replica | payload and file are there when needed (`PayloadAtHand`) and gone when not (`NoOrphans`), no delivery is forgotten (`PendingHasTask`), kept after acceptance (`AcceptedRemoved`) or removed without reason (`RemovedForReason`); 2,702,680 states |

One run shows where the code departs from what its docstring says, with an entry
under "findings": `warehouse_oversold`. A completed checkout ignores existing
allocations, because `stocks_id` is a generator that the reservations query has
consumed.

The same models reach further situations that the passing runs exclude by a
constant or a condition; they are hazards in `PROJECT.json`, each with the constant
to change:

| Situation | Reached with |
| --- | --- |
| closing two orders in one batch frees one counter increment only | `ExpireBatch = 2`, `CounterInSync` |
| two overlapping edits of a line allocate the difference twice; a deletion leaves the counter too high | `OverlappingEdits = TRUE`, `LineCovered`, `CounterInSync` |
| the empty-allocations task deletes a row that was filled again | `EmptyAllocationsTask = TRUE`, `LineCovered` |
| prolonging a checkout's reservations revives an expired one whose units another checkout has taken | `NeverOverbooks` without `~Revives(s)` |
| the payment flow reserves units that another checkout has reserved | `NeverOverbooks` without `~ReservesUnchecked` |
| two lines of one variant in one checkout reserve the same unit | a `LineVariant` that gives them one variant, `NeverOverbooks` |
| an order is created while the gateway's answer is PENDING; the money is given back, or never comes, if the payment is deactivated or cancelled | `OrderPaid` without the second or third case of `Backed` |
| of two fulfillments of a line the second overwrites `quantity_fulfilled` | two `Staff`, `FulfilledCounted` |
| a status equal to the one in the request's old `Order` object is not saved over the current one | two `Staff`, `StatusCurrent` |
| two cancellations of one fulfillment restock it twice | two `Staff`, `NoPhantomStock` |
| cancelling a refunded fulfillment restocks units that never left; refunding units that wait for approval leaves their allocation | refunds in `Operations`, `NoPhantomStock`, `OpenUnitsAllocated` |
| overlapping completions count a voucher twice, or release the use of the other's order | `VoucherHeld` without its condition |
| two checkouts exceed the usage limit; one gets the voucher uncounted | two `Checkouts` in the transaction flow, `VoucherHeld` |
| a report that read fewer events saves last; a kill before the save, and the repetition is not recalculated; a refused event hides a later failure | `LedgerShown` without its conditions |
| a failing app with one call per tick is never cut off | `MinCalls = MaxCalls = 1`, `FailureTrips` |
| a shared file is left without a row; a killed process or an empty deferred payload leaves a delivery PENDING | `NoOrphans`, `PendingHasTask` without `lost` and the exception |

### Bounds

`MaxQty`, `MaxStock`, `MaxCounter` and `MaxFulfillments` bound quantities and
rows; each appears in the guard of the action that would pass it, or in the set
its argument is taken from. Two units and two orders or requests are the least
with which a line is partly fulfilled, an order competes with another, and one
request reads before and writes after another's commit. Two stocks make the
choice of stock and deallocation across warehouses visible; a second variant in
`warehouse_reservations` is a line that an edit may leave alone. A third request adds no kind of
conflict, since each conflict is between one reader and one writer; the
theorems cover any number. `fulfillment_concurrent` has a single unit to keep
all six mutations in one run; the theorems about it have no such bound. Its
`Staff` are symmetric: requests differ in nothing but their name, as do the
`Threads` and `Workers` of the two payment models.

`checkout_overlap` has one checkout, the only thing two threads compete for besides
the voucher; `MaxPayments = 2` lets a payment replace another, `MaxHeld = 2` lets
two overlapping attempts both charge one, or a late report follow a second charge. Three rows in `transaction_events` hold a
request, its success and a failure or an adjustment, in any order of arrival; the
reports are chosen so that each conflict of `deduplicate_event` occurs, and two
times make a late failure differ from a new one. In the breaker runs two errors
trip it, so that one error of each of two workers does, and two successes recover
it; a cooldown shorter than the TTL lets expired and valid events coexist; events
older than the TTL share one age. `MinCalls` is the rate of calls that
`FailureTrips` needs: enough for the minimum of errors to fall within the TTL.
In `webhook_delivery` one retry distinguishes the first, a further and the last
attempt, two deliveries share a payload, and `Own` payloads behave like the
deferred one after its generation; the theorems cover any number of each.

All runs switch deadlock checking off: an order that is closed, or a bound that
is reached, is a legitimate end.

### Fairness

`warehouse_repair` assumes weak fairness of reading and of writing
in `update_stocks_quantity_allocated_task`. Celery beat starts the task every
day (`settings.py`, `update-stocks-quantity-allocated`), and a started task
finishes or is started again the next day. The breaker runs assume weak fairness
of the clock and of each worker's next call: requests and Redis commands end by
their timeouts, and `MinCalls` calls start before each tick, so traffic goes on.
Both liveness properties are conditional on the app staying up, or down, and on
Redis and the workers being well from some time on; without traffic the breaker of
the code does not move at all. Nothing is assumed of customers, staff or the other
tasks, and the safety runs assume no fairness.

## Proofs

Proved by TLAPS for every value of the constants that satisfies the named
assumptions:

| Theorem | Statement |
| --- | --- |
| `WarehouseProofs!TypeCorrect` | `Spec => []TypeOK`: allocations, reservations and fulfilled quantities are never negative |
| `WarehouseProofs!DraftsNeverOversell` | with `CheckoutOrders = {}` and reservations off, `Spec => NeverOversells` |
| `WarehouseProofs!CountersAgree` | under `OneLinePerVariant` and `Undisturbed`, `Spec => []CounterInSync` |
| `WarehouseProofs!LinesStayCovered` | under both and with `DeletableStocks = {}`, `Spec => []LineCovered` |
| `WarehouseProofs!ReservationsNeverOverbook` | under `OneLinePerVariant`, `Spec => NeverOverbooks`, the two unchecked ways to reserve excepted |
| `FulfillmentProofs!FulfillmentTypeCorrect` | `Spec => []TypeOK` |
| `FulfillmentProofs!StockBacksAllocations` | `Spec => []AllocationsBacked`, for any number of concurrent requests |
| `FulfillmentProofs!StaleWritesWithinOrder` | without fulfillment cancellation `Spec => []NeverOverfulfilled` |
| `FulfillmentSequenceProofs!SequenceCountsUnits` | under `Sequential`, `Spec => []FulfilledCounted`, for all six mutations |
| `FulfillmentSequenceProofs!SequenceWithinOrder` | under `Sequential`, `Spec => []NeverOverfulfilled`, cancellations included |
| `FulfillmentSequenceProofs!SequenceRestocksTaken` | under `Sequential` and `Unmoved`, `Spec => []NoPhantomStock` |
| `FulfillmentSequenceProofs!SequenceKeepsAllocated` | under both and without `OrderCancel`, `Spec => []OpenUnitsAllocated` |
| `FulfillmentSequenceProofs!SequenceShowsStatus` | under `Sequential` and `Settled`, without kills, `Spec => []StatusCurrent` |
| `CheckoutCompleteProofs!CheckoutTypeCorrect` | `Spec => []TypeOK` |
| `CheckoutCompleteProofs!BecomesOneOrder` | `Spec => []OneOrder`, for any number of threads in both flows |
| `CheckoutCompleteProofs!NoPaymentMissing` | `Spec => []PaymentsAssigned` |
| `CheckoutCompleteProofs!OrderMoneyUntouched` | `Spec => OrderKeepsPayment` |
| `CheckoutCompleteProofs!OrdersArePaid` | `Spec => []OrderPaid`, a pending payment counting as paid |
| `CheckoutCompleteProofs!VoucherCounted` | under `Secluded`, `Spec => []VoucherHeld` |
| `TransactionItemProofs!TransactionTypeCorrect` | `Spec => []TypeOK` |
| `TransactionItemProofs!EventCountsOnce` | `Spec => []SingleEvent` |
| `TransactionItemProofs!AmountsAreTheLedger` | `Spec => []LedgerShown` |
| `TransactionItemProofs!UpdateSetsAmount` | `Spec => UpdateSticks` |
| `CircuitBreakerProofs!TypeCorrect` | `Spec => []TypeOK` |
| `CircuitBreakerProofs!Atomic` | `Spec => AtomicBreaker`: the Redis calls of any number of workers implement `Breaker` |
| `WebhookDeliveryProofs!TypeCorrect` | `Spec => []TypeOK`, the bound on retries included |
| `WebhookDeliveryProofs!NoDeliveryForgotten` | `Spec => []PendingHasTask` |
| `WebhookDeliveryProofs!AcceptedIsRemoved` | `Spec => []AcceptedRemoved` |
| `WebhookDeliveryProofs!PayloadStays` | `Spec => []PayloadAtHand` |
| `WebhookDeliveryProofs!OnlyRemovedForReason` | `Spec => RemovedForReason` |
| `WebhookDeliveryProofs!NothingLeftBehind` | `Spec => []NoOrphans` |

Assumptions: sets of stocks, orders, lines, checkouts and references are finite,
there is a checkout, one stock per warehouse and variant (the table's unique
constraint), quantities are natural numbers, the order is covered by its stock when
it is confirmed (`Ordered[l] <= Stocked[l]`), thresholds and times of the breaker
are natural numbers, the three kinds of deliveries are disjoint, names like `NoRef`
and `NoThread` are nobody's.

Some theorems have a hypothesis of their own. Each excludes a situation in which
the code really breaks the property (the table of situations above), so that the
theorem and the counterexample together say where the property holds:

- `OneLinePerVariant` and `ExpireBatch <= 1`: with two changes in one stock, one
  `bulk_update` applies one of them to the counter; with two lines of one variant
  in one call, both are served from the same units. A batch of the code's expiry
  task may be larger; the theorem then speaks of those that close one order.
- The rest of `Undisturbed`: an edit from a stale read, and the empty-allocations
  task, which deletes rows by ids read earlier.
- `DeletableStocks = {}`: the allocations of a deleted stock go with it, so its
  lines are no longer covered; the counters agree even then.
- `Sequential`: overlapping fulfillment requests write back what they have read.
- `Unmoved`, no `OrderCancel`: refunds and returns move units that never left the
  stock or stay allocated, a cancelled order has nothing allocated.
- `Settled`, no kills: a refund does not update the status, a cancelled order has
  a status of its own, and a process killed before `order_returned` leaves the old
  one.
- `Secluded`: one checkout, or no transaction flow. With two checkouts a request
  that found the voucher used up by another checkout when it was to count it may
  find it released when `_create_order` looks it up again
  (`complete_checkout.py:1609`), and grants it without having counted it.

Sums. `SumOf(f, S)` is the cardinality of the set of single units that the
entries hold, which is what a sum of quantities is and which gives the proofs
the library's theorems on cardinality; a recursive sum would need induction.
`QuantityFacts` derives that sums are monotone, change by the change of one
entry, add up over two columns, and are the same after a renaming of the rows;
`Total` is the difference of two of them, for events that add and subtract. The
loop `Greedy` takes from each row no more than it offers, and in total exactly what
is asked for when the rows can cover it (`GreedyTotal`), or everything
(`GreedyAll`). That is a statement about every number of rows; it is proved without
induction over them from the row at which the running sum passes the demand, the
pivot: rows before it are emptied, rows after it are left alone. The pivot is the
first row of a non-empty set of rows, and every non-empty set of rows in one order
(`InTurn`) has a first one, since the number of rows before a row is a natural
number.

`DraftsNeverOversell` is an action property: for each action, either the stock's
rows do not grow, or they grow by at most what the lock-protected check found
free. `IncreaseAllocations` needs that the line's own rows are removed before
availability is computed; `DecreaseStock` that deallocation only lowers other
sums; `IncreaseStock` that quantity and allocation rise together.

The edits of order lines are covered whatever quantity they have read: the theorem
holds with `OverlappingEdits` as well.

`CountersAgree` and `LinesStayCovered` share the invariant `Ledger`: a line has
allocations in stocks of its own variant only (`OwnVariant`), the counter of every
stock, deleted ones included, is its sum, the two tasks have read nothing, and
allocated and fulfilled units of a line are together no more than ordered, exactly
as many while the order lives (`LineInOrder`). `OwnVariant` is what makes a call of
one order change one allocation per stock, and so `BulkUpdateCounter` exact. That a
line is given and loses exactly what is asked for is `GreedyTotal`, for the order
of `sort_stocks` under both strategies (`SortedOrder`) and for the order by key of
`deallocate_stock` (`PkOrder`). That an unconfirmed order has nothing fulfilled
lets an edit compute with `OrderLine.quantity` alone.

`ReservationsNeverOverbook` needs no invariant but the types. `NeverOverbooks`
excepts, for a stock, the edits that revive an expired reservation in it
(`Revives`) and the reservations of the payment flow (`ReservesUnchecked`): the
code takes no look at the stock there and TLC finds the overbooked stock. After any
other step a stock has more reserved only because of an edit, and then by one
edited line at most, which takes no more than what is neither allocated nor
reserved by any line that is not edited, those of its own checkout included. That
holds in overbooked stocks too, where nothing is left to take.

`TypeOK` and `AllocationsBacked` are not inductive alone: a refund or return
writes back the quantity it read from a fulfillment line less the units moved,
which stays a natural number only if it asks for no more than it read, and an
approval or cancellation must be about a real fulfillment. `RequestsCoherent`
says both of the requests in progress; the invariant proved is
`Safe == TypeOK /\ AllocationsBacked /\ RequestsCoherent`. Given it, each step
lowers allocations, checks the stock under its lock, or raises stock and
allocation by the same amount (the restock of a cancelled fulfillment).

`NeverOverfulfilled` survives lost updates because each request checks the value
it adds to. The invariant `Within` carries that into the request's memory: for
every request in progress, the units it asks for fit between the quantity it has
seen and the order's. A request that cancels subtracts instead, and of two such
requests the second can go below zero, which is why the theorem excludes
`FulfillmentCancel`; with two `Staff` TLC finds the counterexample.

When requests follow each other, `Books` adds that what the request in progress has
read is what the database holds (`Current`), that rows are created in the order of
their keys and a deleted row has no lines (`RowsInOrder`). `Store` relates the
stock and the allocations to the units in each kind of fulfillment; `Shows` says
that the status may lag behind only between the commit of a return and
`order_returned`, and its proof follows the units of all lines through
`DetermineOrderStatus`: moving units that wait for approval changes what is
fulfilled and what waits by the same amount.

`OneOrder`, `PaymentsAssigned` and `OrderKeepsPayment` follow from `Inv` of
`CheckoutCompleteProofs`: an order closes its checkout and has all its payments, one
payment at most is active (`RowsOK`), a thread in its first transaction holds the
lock of a checkout that is there, and a thread that pays has a payment that was
made (`ThreadsOK`); the uses of the voucher are at least the checkouts that say
they counted one (`UsesCounted`). `History` adds, for checkouts on which no two
threads overlapped, that the thread at work is alone (`Lone`), that the money it
charged is held, pending or on its way back (`PaidAt`, `Sound`), that the payment
of an order holds money that is not on its way back or is pending (`PaidOrder`,
`Secure`), and that what it has read of the voucher is so
(`CountedAt`).

For transactions `Inv` says that keys are unique, that a request which is still to
be answered is there, and that of the counted events with a type and reference
there is one (`Unique`). `Books` follows the amounts: a worker that is alone has no
other beside it, every event with a reference is what the app told and the reverse
unless one was refused (`Known`), the amounts of such a worker, and those saved,
are the ledger of what was told (`Ledgered`), and a correction is what the
calculated amount lacks (`Adjusted`). Events and messages correspond one to one, so
their sums are equal by renaming.

`Atomic` rests on `Undisturbed`: while nothing is disturbed, at most one worker is
between its first read and its last write (`OneUpdates`), and what it has read of
state and age is still what Redis holds, or what the deleted key held
(`ReadStands`). Then `ClearState` is a stutter of the abstract breaker, `SetState`
is the decision taken in the state that was read, and a tick ages both alike. The
abstract cooldown needs that the age a worker has read grows with the clock.

The webhook invariant adds to the properties how payloads and deliveries belong
together: a payload row has the deliveries that were created with it (`Owned`), a
file that a task has listed belongs to a payload nobody uses any more (`Listed`),
nothing exists before the event or is published twice (`Fresh`, `PublishedOnce`),
and a task past its acceptance has no row left (`Cleared`). `PayloadAtHand` then
follows since a delivery that exists keeps its payload out of `Listed` and out of
the old ones, and `RemovedForReason` since a cascade only starts from an unused or
old payload.

`NoOrphans` needs `Tidy`: a row has its file (`Paired`), and as long as nothing was
lost a row without a delivery has a task about to delete it (`RowNeeded`) and a
file without a row one about to unlink it (`FileListed`). Between the steps of two
tasks that clear one payload this is what carries the promise.

Only model-checked: `CounterRepaired`, `SuccessHeals` and `FailureTrips`, liveness
properties under fairness, which are out of the prover's reach.

## Plan

Order of the work to come; the most valuable first.

1. Weaker hypotheses: `CountersAgree` for batches of orders without a variant in
   common, `VoucherCounted` for several checkouts with a limit that is not reached.
2. Gift card balances in `CheckoutComplete`, with payment totals: an order is
   priced with balances read in the first transaction and the cards are debited in
   the third. Transaction sessions in `TransactionItem`.
3. `LockOrder`: the order in which operations take row locks, and where two of
   them wait for each other.
4. `OrderAge`: the expiry formula against the age in minutes.
5. Preorder thresholds.

## Not modelled

Prices, taxes and discounts (decimal arithmetic and external calls without
shared state); catalogue, accounts, permissions and apps (CRUD and access
control); CSV export, invoices, thumbnails and search (I/O); plugins (dispatch
to external services); GraphQL parsing and database routing. They are most of the
repository by size and hold sequential queries, schema types and formatting without
a protocol to check. Gift cards, preorders, transaction sessions, granted refunds
and order bulk create have state worth modelling and are in the plan or listed as
hazards.
