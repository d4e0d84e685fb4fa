------------------------------ MODULE Warehouse ------------------------------
(***************************************************************************)
(* Stocks, allocations and reservations of saleor/warehouse, driven by the *)
(* orders and checkouts that call it.                                      *)
(*                                                                         *)
(* A function of warehouse/management.py or reservations.py that locks the *)
(* stock rows (select_for_update, ordered by pk) before it reads anything  *)
(* and runs in one transaction is one action.  A request that raises       *)
(* InsufficientStock is rolled back and leaves no trace: its action is not *)
(* enabled.  The two celery tasks that read without a lock and write later *)
(* are two actions each.  Only lines of variants with track_inventory and  *)
(* no active preorder reach this code (get_order_lines_with_track_         *)
(* inventory); the other lines of an order are not in Lines.               *)
(***************************************************************************)
EXTENDS Quantities

CONSTANTS
    Stocks,               \* primary keys of the Stock rows that may exist
    StockVariant,         \* Stock.product_variant
    StockWarehouse,       \* Stock.warehouse
    SortOrder,            \* ChannelWarehouse.sort_order, per warehouse
    Strategy,             \* Channel.allocation_strategy
    CollectionPoints,     \* collection_point_pk of a request, or NoPoint
    InitialQuantity,      \* Stock.quantity at the start
    Orders,
    CheckoutOrders,       \* the orders that are created from a checkout
    Lines,                \* order lines, and the checkout lines they come from
    LineOrder,            \* OrderLine.order
    LineVariant,          \* OrderLine.variant
    ReservationsEnabled,  \* is_reservation_enabled(site.settings)
    ExpireBatch,          \* EXPIRE_ORDER_BATCH_SIZE
    EmptyAllocationsTask, \* delete_empty_allocations_task is scheduled
    OverlappingEdits,     \* edits of an order may overlap with other requests
    AllowExceeded,        \* values of allow_stock_to_be_exceeded in requests
    StaffQuantities,      \* quantities that staff may set a stock to
    DeletableStocks,      \* stocks that staff may delete
    MaxQty,               \* bound on the quantity of an order line
    MaxStock,             \* bound on the size of Stock.quantity
    MaxCounter            \* bound on the size of Stock.quantity_allocated

NoPoint == "no collection point"
Warehouses == {StockWarehouse[s] : s \in Stocks}
LinesOf(o) == {l \in Lines : LineOrder[l] = o}

ASSUME StocksAssumption ==
    /\ Stocks \subseteq Nat /\ IsFiniteSet(Stocks)
    /\ InitialQuantity \in [Stocks -> Nat]
    /\ SortOrder \in [Warehouses -> Nat]
    /\ Strategy \in {"PRIORITIZE_HIGH_STOCK", "PRIORITIZE_SORTING_ORDER"}
    /\ NoPoint \notin Warehouses

\* unique_together = [["warehouse", "product_variant"]] on Stock.
ASSUME OneStockPerWarehouse ==
    \A s, t \in Stocks :
        /\ StockWarehouse[s] = StockWarehouse[t]
        /\ StockVariant[s] = StockVariant[t]
        => s = t

ASSUME LinesAssumption ==
    /\ Lines # {} /\ IsFiniteSet(Lines) /\ IsFiniteSet(Orders)
    /\ LineOrder \in [Lines -> Orders]
    /\ CheckoutOrders \subseteq Orders

(***************************************************************************)
(* draft_order_complete allocates line by line, a checkout allocates all   *)
(* its lines in one call.  For lines of different variants the two are the *)
(* same; the drafts considered have no two lines of one variant.           *)
(***************************************************************************)
ASSUME DraftLines ==
    \A l, k \in Lines :
        /\ LineOrder[l] = LineOrder[k]
        /\ LineOrder[l] \notin CheckoutOrders
        /\ LineVariant[l] = LineVariant[k]
        => l = k

ASSUME BoundsAssumption ==
    /\ MaxQty \in Nat /\ MaxStock \in Nat /\ MaxCounter \in Nat
    /\ ExpireBatch \in Nat
    /\ StaffQuantities \subseteq Nat
    /\ ReservationsEnabled \in BOOLEAN /\ EmptyAllocationsTask \in BOOLEAN
    /\ OverlappingEdits \in BOOLEAN
    /\ AllowExceeded \subseteq BOOLEAN
    /\ DeletableStocks \subseteq Stocks

VARIABLES
    stocks,             \* the Stock rows that exist
    quantity,           \* Stock.quantity
    quantity_allocated, \* Stock.quantity_allocated, denormalised
    rows,               \* the Allocation rows that exist, as <<line, stock>>
    allocation,         \* Allocation.quantity_allocated, 0 without a row
    status,             \* of each order: see OrderStatuses
    ordered,            \* OrderLine.quantity
    shipped,            \* OrderLine.quantity_fulfilled
    reservation,        \* Reservation.quantity_reserved of a checkout line
    expired,            \* reservations whose reserved_until has passed
    mismatched,         \* rows and values read by the counter repair task
    emptied             \* rows read by the empty allocations task

stockVars == <<stocks, quantity>>
orderVars == <<status, ordered, shipped>>
reservationVars == <<reservation, expired>>
taskVars == <<mismatched, emptied>>
vars == <<stocks, quantity, quantity_allocated, rows, allocation, status,
          ordered, shipped, reservation, expired, mismatched, emptied>>

(***************************************************************************)
(* "draft": a draft or a checkout, nothing is allocated yet; "unconfirmed";*)
(* "open": confirmed or with fulfillments; "closed": cancelled or expired  *)
(* once, also if a fulfillment has given it another status since then.     *)
(***************************************************************************)
OrderStatuses == {"draft", "unconfirmed", "open", "closed"}

NotRead == -1

\* Every variable has its type; quantities of rows are never negative.
TypeOK ==
    /\ stocks \subseteq Stocks
    /\ quantity \in [Stocks -> Int]
    /\ quantity_allocated \in [Stocks -> Int]
    /\ rows \subseteq Lines \X Stocks
    /\ allocation \in [Lines -> [Stocks -> Nat]]
    /\ status \in [Orders -> OrderStatuses]
    /\ ordered \in [Lines -> Nat]
    /\ shipped \in [Lines -> Nat]
    /\ reservation \in [Lines -> [Stocks -> Nat]]
    /\ expired \subseteq Lines \X Stocks
    /\ mismatched \in [Stocks -> Nat \cup {NotRead}]
    /\ emptied \subseteq Lines \X Stocks

-----------------------------------------------------------------------------
(* Queries.                                                                *)

NoUnits == [s \in Stocks |-> 0]

StocksOf(l) == {s \in stocks : StockVariant[s] = LineVariant[l]}
StockIn(l, w) == {s \in StocksOf(l) : StockWarehouse[s] = w}

\* Sum("quantity_allocated") over the Allocation rows of stock s.
AllocatedIn(matrix, s) == SumOf([l \in Lines |-> matrix[l][s]], Lines)
Allocated(s) == AllocatedIn(allocation, s)

\* Sum("quantity_reserved"), not_expired().exclude_checkout_lines(own).
ReservedByOthers(s, own) ==
    SumOf([l \in Lines |-> reservation[l][s]],
          {l \in Lines \ own : <<l, s>> \notin expired})

\* What is in stock s and promised to no order.
Free(s) == quantity[s] - Allocated(s)

(***************************************************************************)
(* sort_stocks: the warehouse of the collection point first, then by the   *)
(* channel's strategy, both over rows already sorted by pk (a stable sort, *)
(* also with reverse=True).  left is the quantity the strategy looks at.   *)
(***************************************************************************)
SortKey(left) ==
    [s \in Stocks |-> IF Strategy = "PRIORITIZE_HIGH_STOCK"
                      THEN -left[s] ELSE SortOrder[StockWarehouse[s]]]

SortedBefore(key, point, s, t) ==
    \/ StockWarehouse[s] = point /\ StockWarehouse[t] # point
    \/ /\ StockWarehouse[s] = point <=> StockWarehouse[t] = point
       /\ key[s] < key[t] \/ (key[s] = key[t] /\ s < t)

(***************************************************************************)
(* _create_allocations and _create_stock_reservations: the row of line l   *)
(* for q units.  Every line of a call is computed from the same avail: the *)
(* code does not subtract what an earlier line of the call takes.          *)
(***************************************************************************)
Picked(l, q, avail, key, point) ==
    LET earlier == [s \in StocksOf(l) |->
                       {t \in StocksOf(l) : SortedBefore(key, point, t, s)}]
        taken   == Greedy(q, avail, earlier, StocksOf(l))
    IN  [s \in Stocks |-> IF s \in StocksOf(l) THEN taken[s] ELSE 0]

\* Mutant: no InsufficientStock is raised.
SufficientAlways(l, q, avail) == TRUE

Sufficient(l, q, avail) == SumOf(avail, StocksOf(l)) >= q

\* Mutant: min() with the row's own quantity is dropped.
DeallocatedUncapped(row, n) == [s \in Stocks |-> row[s] - n]

\* deallocate_stock: n units off the rows of line l, lowest stock pk first;
\* fewer if the line has fewer (AllocationError, which its callers handle).
Deallocated(row, n) ==
    LET earlier == [s \in Stocks |-> {t \in Stocks : t < s}]
        taken   == Greedy(n, row, earlier, Stocks)
    IN  [s \in Stocks |-> row[s] - taken[s]]

RowsWithUnits(L, matrix) == {r \in L \X Stocks : matrix[r[1]][r[2]] > 0}

(***************************************************************************)
(* The F("quantity_allocated") updates of one call, sent to the database   *)
(* as one bulk_update.  Each Allocation brings a Stock instance of its     *)
(* own, and of several WHEN branches for one pk the first applies: when    *)
(* the call changes several allocations in one stock, the counter moves by *)
(* one of the changes only.                                                *)
(***************************************************************************)
Changed(new, s) == {l \in Lines : new[l][s] # allocation[l][s]}

BulkUpdateCounter(new) ==
    \E first \in [Stocks -> Lines] :
        /\ \A s \in Stocks :
              IF Changed(new, s) # {} THEN first[s] \in Changed(new, s)
                                     ELSE first[s] = CHOOSE l \in Lines : TRUE
        /\ quantity_allocated' =
              [s \in Stocks |-> quantity_allocated[s]
                                + (new[first[s]][s] - allocation[first[s]][s])]

-----------------------------------------------------------------------------
(* Orders.                                                                 *)

Init ==
    /\ stocks = Stocks
    /\ quantity = InitialQuantity
    /\ quantity_allocated = NoUnits
    /\ rows = {}
    /\ allocation = [l \in Lines |-> NoUnits]
    /\ status = [o \in Orders |-> "draft"]
    /\ ordered = [l \in Lines |-> 0]
    /\ shipped = [l \in Lines |-> 0]
    /\ reservation = [l \in Lines |-> NoUnits]
    /\ expired = {}
    /\ mismatched = [s \in Stocks |-> NotRead]
    /\ emptied = {}

(***************************************************************************)
(* allocate_stocks for the new order o.  With check_reservations the       *)
(* generator stocks_id is consumed by the query for reservations, so the   *)
(* query for allocations that follows runs over no stock at all and every  *)
(* stock counts as unallocated.  A checkout always checks reservations, a  *)
(* draft only when they are enabled.  The checkout's own reservations go   *)
(* with the checkout.                                                      *)
(***************************************************************************)
ChecksReservations(o) == o \in CheckoutOrders \/ ReservationsEnabled

\* Mutant: the generator is consumed for drafts as well.
AllocationsSeenNever(o) == NoUnits

AllocationsSeen(o) ==
    [s \in Stocks |-> IF ChecksReservations(o) THEN 0 ELSE Allocated(s)]

ReservationsSeen(o) ==
    [s \in Stocks |-> IF ChecksReservations(o)
                      THEN ReservedByOthers(s, LinesOf(o)) ELSE 0]

AllocateStocks(o, req, point) ==
    LET seen  == AllocationsSeen(o)
        held  == ReservationsSeen(o)
        avail == [s \in Stocks |-> quantity[s] - seen[s] - held[s]]
        key   == SortKey([s \in Stocks |-> quantity[s] - seen[s]])
        new   == [l \in Lines |->
                    IF l \in LinesOf(o)
                    THEN Picked(l, req[l], avail, key, point)
                    ELSE allocation[l]]
    IN  /\ status[o] = "draft"
        /\ \A l \in LinesOf(o) : Sufficient(l, req[l], avail)
        /\ allocation' = new
        /\ rows' = rows \cup RowsWithUnits(LinesOf(o), new)
        /\ BulkUpdateCounter(new)
        /\ status' = [status EXCEPT ![o] = "unconfirmed"]
        /\ ordered' = [l \in Lines |->
                          IF l \in LinesOf(o) THEN req[l] ELSE ordered[l]]
        /\ reservation' = [l \in Lines |->
                          IF l \in LinesOf(o) THEN NoUnits ELSE reservation[l]]
        /\ expired' = expired \ (LinesOf(o) \X Stocks)
        /\ UNCHANGED <<stocks, quantity, shipped, mismatched, emptied>>

ConfirmOrder(o) ==
    /\ status[o] = "unconfirmed"
    /\ status' = [status EXCEPT ![o] = "open"]
    /\ UNCHANGED <<stockVars, quantity_allocated, rows, allocation, ordered,
                   shipped, reservationVars, taskVars>>

(***************************************************************************)
(* OrderLinesCreate, OrderLineUpdate and OrderLineDelete read the line and *)
(* the order before their transaction.  When requests overlap, the         *)
(* quantity read may be one the line had earlier, and the order may have   *)
(* left UNCONFIRMED; a line deleted meanwhile makes the request fail.      *)
(***************************************************************************)
EditRead(l, old) ==
    LET state == status[LineOrder[l]]
    IN  /\ state = "unconfirmed" \/ (OverlappingEdits /\ state # "draft")
        /\ old = 0 <=> ordered[l] = 0
        /\ old = ordered[l] \/ OverlappingEdits
        /\ \A s \in Stocks : quantity_allocated[s] \in -MaxCounter .. MaxCounter

(***************************************************************************)
(* increase_allocations for the change from old, 0 for a new line, to new: *)
(* the rows of the line are deleted and what they held is allocated again  *)
(* with the difference, without looking at reservations.                   *)
(***************************************************************************)
IncreaseAllocations(l, old, new) ==
    LET others == [allocation EXCEPT ![l] = NoUnits]
        avail  == [s \in Stocks |-> quantity[s] - AllocatedIn(others, s)]
        total  == (new - old) + SumOf(allocation[l], Stocks)
        matrix == [others EXCEPT
                     ![l] = Picked(l, total, avail, SortKey(avail), NoPoint)]
    IN  /\ Sufficient(l, total, avail)
        /\ allocation' = matrix
        /\ rows' = (rows \ ({l} \X Stocks)) \cup RowsWithUnits({l}, matrix)
        /\ emptied' = emptied \ ({l} \X Stocks)
        /\ BulkUpdateCounter(matrix)

\* decrease_allocations: decrease_stock with update_stocks=False.
DecreaseAllocations(l, old, new) ==
    LET matrix == [allocation EXCEPT ![l] = Deallocated(@, old - new)]
    IN  /\ allocation' = matrix
        /\ BulkUpdateCounter(matrix)
        /\ UNCHANGED <<rows, emptied>>

\* change_order_line_quantity and, for a new line, create_order_line.
ChangeOrderLineQuantity(l, old, new) ==
    /\ EditRead(l, old)
    /\ \/ old < new /\ IncreaseAllocations(l, old, new)
       \/ old > new /\ DecreaseAllocations(l, old, new)
    /\ ordered' = [ordered EXCEPT ![l] = new]
    /\ UNCHANGED <<stockVars, status, shipped, reservationVars, mismatched>>

\* delete_order_line: decrease_allocations, then the rows of the line cascade.
DeleteOrderLine(l, old) ==
    LET matrix == [allocation EXCEPT ![l] = Deallocated(@, old)]
    IN  /\ EditRead(l, old)
        /\ old > 0
        /\ allocation' = [allocation EXCEPT ![l] = NoUnits]
        /\ BulkUpdateCounter(matrix)
        /\ rows' = rows \ ({l} \X Stocks)
        /\ emptied' = emptied \ ({l} \X Stocks)
        /\ ordered' = [ordered EXCEPT ![l] = 0]
        /\ shipped' = [shipped EXCEPT ![l] = 0]
        /\ UNCHANGED <<stockVars, status, reservationVars, mismatched>>

(***************************************************************************)
(* decrease_stock for a fulfillment from warehouse w: the lines are        *)
(* deallocated, wherever their allocations are, and the goods leave w.     *)
(* What is left in w must cover the allocations that remain there, unless  *)
(* the request allows the stock to be exceeded; a missing stock is then    *)
(* passed over.                                                            *)
(***************************************************************************)
DecreaseStock(o, w, req, exceeded) ==
    LET new  == [l \in Lines |-> IF l \in LinesOf(o) /\ req[l] > 0
                                 THEN Deallocated(allocation[l], req[l])
                                 ELSE allocation[l]]
        gone == [s \in Stocks |->
                    SumOf(req, {l \in LinesOf(o) : s \in StockIn(l, w)})]
    IN  /\ status[o] # "draft"
        /\ \E l \in LinesOf(o) : req[l] > 0
        /\ \A l \in LinesOf(o) : req[l] > 0 => req[l] <= ordered[l] - shipped[l]
        /\ exceeded \/ \A l \in LinesOf(o) :
                          req[l] > 0 => StockIn(l, w) # {}
        /\ exceeded \/ \A s \in Stocks :
                          gone[s] > 0 =>
                          quantity[s] - AllocatedIn(new, s) >= gone[s]
        /\ \A s \in Stocks : quantity[s] - gone[s] >= -MaxStock
        /\ allocation' = new
        /\ BulkUpdateCounter(new)
        /\ quantity' = [s \in Stocks |-> quantity[s] - gone[s]]
        /\ shipped' = [l \in Lines |-> IF l \in LinesOf(o)
                                       THEN shipped[l] + req[l] ELSE shipped[l]]
        /\ status' = [status EXCEPT
                        ![o] = IF @ = "closed" THEN "closed" ELSE "open"]
        /\ UNCHANGED <<stocks, rows, ordered, reservationVars, taskVars>>

\* Mutant: the new allocation is not added to the counter.
IncreaseStockUncounted(l, s, n) ==
    /\ StockVariant[s] = LineVariant[l] /\ n <= shipped[l]
    /\ quantity[s] + n <= MaxStock
    /\ stocks' = stocks \cup {s}
    /\ quantity' = [quantity EXCEPT ![s] = @ + n]
    /\ rows' = rows \cup {<<l, s>>}
    /\ allocation' = [allocation EXCEPT ![l][s] = @ + n]
    /\ shipped' = [shipped EXCEPT ![l] = @ - n]
    /\ UNCHANGED <<quantity_allocated, status, ordered, reservationVars, taskVars>>

(***************************************************************************)
(* increase_stock with allocate=True, for a cancelled fulfillment of n     *)
(* units that is restocked in stock s, which is created if it is missing.  *)
(***************************************************************************)
IncreaseStock(l, s, n) ==
    /\ StockVariant[s] = LineVariant[l]
    /\ n <= shipped[l]
    /\ quantity[s] + n <= MaxStock
    /\ quantity_allocated[s] + n <= MaxCounter
    /\ stocks' = stocks \cup {s}
    /\ quantity' = [quantity EXCEPT ![s] = @ + n]
    /\ rows' = rows \cup {<<l, s>>}
    /\ allocation' = [allocation EXCEPT ![l][s] = @ + n]
    /\ quantity_allocated' = [quantity_allocated EXCEPT ![s] = @ + n]
    /\ shipped' = [shipped EXCEPT ![l] = @ - n]
    /\ UNCHANGED <<status, ordered, reservationVars, taskVars>>

\* deallocate_stock_for_order(s): every allocation of the orders is emptied.
DeallocateStockForOrders(closing) ==
    LET new == [l \in Lines |-> IF LineOrder[l] \in closing
                                THEN NoUnits ELSE allocation[l]]
    IN  /\ allocation' = new
        /\ BulkUpdateCounter(new)
        /\ status' = [o \in Orders |->
                         IF o \in closing THEN "closed" ELSE status[o]]
        /\ UNCHANGED <<stockVars, rows, ordered, shipped, reservationVars,
                       taskVars>>

(***************************************************************************)
(* can_cancel, and the status UNCONFIRMED of orders to expire, are read    *)
(* without a lock, the latter from a replica, and not looked at again: the *)
(* orders may have been confirmed, fulfilled or closed since then.         *)
(***************************************************************************)
CancelOrder(o) ==
    /\ status[o] # "draft"
    /\ DeallocateStockForOrders({o})

ExpireOrders(batch) ==
    /\ batch # {} /\ Cardinality(batch) <= ExpireBatch
    /\ \A o \in batch : status[o] # "draft"
    /\ DeallocateStockForOrders(batch)

-----------------------------------------------------------------------------
(* Reservations of checkouts.                                              *)

\* Mutant: reservations of other checkouts are not looked at.
ReservableFree(edited) == [s \in Stocks |-> Free(s)]

Reservable(edited) ==
    [s \in Stocks |-> Free(s) - ReservedByOthers(s, edited)]

(***************************************************************************)
(* req gives the edited lines their new quantity, 0 for a line that is     *)
(* deleted: its reservations cascade.  reserve_stocks checks and replaces  *)
(* the reservations of the others among them, under the lock of the stock  *)
(* rows, and leaves the lines of the checkout that are not edited alone.   *)
(***************************************************************************)
ReserveStocks(req) ==
    LET avail == Reservable(DOMAIN req)
        key   == SortKey([s \in Stocks |-> Free(s)])
    IN  /\ \A l \in DOMAIN req : req[l] > 0 => Sufficient(l, req[l], avail)
        /\ reservation' = [l \in Lines |->
                             IF l \notin DOMAIN req THEN reservation[l]
                             ELSE IF req[l] = 0 THEN NoUnits
                             ELSE Picked(l, req[l], avail, key, NoPoint)]

(***************************************************************************)
(* add_variants_to_checkout.  reserving: reservations are on and a line is *)
(* created or updated, be it one whose inventory is not tracked.  Only     *)
(* then are stocks reserved, and reserve_stocks_and_preorders ends with a  *)
(* new reserved_until for every reservation of the lines not edited, also  *)
(* for one that has expired and not been deleted yet, with no look at what *)
(* others have taken since.  When it is off, updated lines are not in req. *)
(***************************************************************************)
AddVariantsToCheckout(o, req, reserving) ==
    /\ o \in CheckoutOrders
    /\ status[o] = "draft"
    /\ reserving => ReservationsEnabled
    /\ (\E l \in DOMAIN req : req[l] > 0) => reserving
    /\ ReserveStocks(req)
    /\ expired' =
          expired \ ((IF reserving THEN LinesOf(o) ELSE DOMAIN req) \X Stocks)
    /\ UNCHANGED <<stockVars, quantity_allocated, rows, allocation, orderVars,
                   taskVars>>

\* variants_stocks_map: of the stocks of a variant the last one stays.
LastStock(l) == CHOOSE s \in StocksOf(l) : \A t \in StocksOf(l) : t <= s

(***************************************************************************)
(* _reserve_stocks_without_availability_check, while a payment is made:    *)
(* the whole quantity of each line, req, is reserved in one stock.  A row  *)
(* of the line for that stock violates unique_together and the attempt is  *)
(* rolled back.  The check of the variant's total before it takes no lock  *)
(* and may have been passed with units that are gone by now.               *)
(***************************************************************************)
ReserveStocksWithoutAvailabilityCheck(o, req) ==
    LET stocked == {l \in LinesOf(o) : StocksOf(l) # {}}
    IN  /\ o \in CheckoutOrders
        /\ status[o] = "draft"
        /\ stocked # {}
        /\ \A l \in stocked : reservation[l][LastStock(l)] = 0
        /\ reservation' = [l \in Lines |-> [s \in Stocks |->
                             IF l \in stocked /\ s = LastStock(l)
                             THEN req[l] ELSE reservation[l][s]]]
        /\ UNCHANGED <<expired, stockVars, quantity_allocated, rows,
                       allocation, orderVars, taskVars>>

\* The clock passes reserved_until of a reservation.
ReservationExpires(l, s) ==
    /\ reservation[l][s] > 0
    /\ <<l, s>> \notin expired
    /\ expired' = expired \cup {<<l, s>>}
    /\ UNCHANGED <<stockVars, quantity_allocated, rows, allocation, orderVars,
                   reservation, taskVars>>

DeleteExpiredReservations ==
    /\ expired # {}
    /\ reservation' = [l \in Lines |-> [s \in Stocks |->
                         IF <<l, s>> \in expired THEN 0 ELSE reservation[l][s]]]
    /\ expired' = {}
    /\ UNCHANGED <<stockVars, quantity_allocated, rows, allocation, orderVars,
                   taskVars>>

-----------------------------------------------------------------------------
(* Staff.                                                                  *)

\* update_or_create_variant_stocks: get_or_create, then the quantity is set.
UpdateStock(s, q) ==
    /\ q # quantity[s] \/ s \notin stocks
    /\ stocks' = stocks \cup {s}
    /\ quantity' = [quantity EXCEPT ![s] = q]
    /\ UNCHANGED <<quantity_allocated, rows, allocation, orderVars,
                   reservationVars, taskVars>>

\* delete_stocks: allocations and reservations of the stock cascade.
DeleteStock(s) ==
    /\ s \in stocks
    /\ stocks' = stocks \ {s}
    /\ quantity' = [quantity EXCEPT ![s] = 0]
    /\ quantity_allocated' = [quantity_allocated EXCEPT ![s] = 0]
    /\ rows' = rows \ (Lines \X {s})
    /\ allocation' = [l \in Lines |-> [allocation[l] EXCEPT ![s] = 0]]
    /\ reservation' = [l \in Lines |-> [reservation[l] EXCEPT ![s] = 0]]
    /\ expired' = expired \ (Lines \X {s})
    /\ mismatched' = [mismatched EXCEPT ![s] = NotRead]
    /\ emptied' = emptied \ (Lines \X {s})
    /\ UNCHANGED orderVars

-----------------------------------------------------------------------------
(* Periodic tasks.                                                         *)

\* update_stocks_quantity_allocated_task: the mismatches are read unlocked ...
ReadMismatched ==
    /\ \A s \in Stocks : mismatched[s] = NotRead
    /\ \E s \in stocks : quantity_allocated[s] # Allocated(s)
    /\ mismatched' = [s \in Stocks |->
                         IF s \in stocks /\ quantity_allocated[s] # Allocated(s)
                         THEN Allocated(s) ELSE NotRead]
    /\ UNCHANGED <<stockVars, quantity_allocated, rows, allocation, orderVars,
                   reservationVars, emptied>>

\* Mutant: the counters are not among the saved fields.
WriteMismatchedUnsaved ==
    /\ \E s \in Stocks : mismatched[s] # NotRead
    /\ mismatched' = [s \in Stocks |-> NotRead]
    /\ UNCHANGED <<stockVars, quantity_allocated, rows, allocation, orderVars,
                   reservationVars, emptied>>

\* ... and stock_bulk_update writes the values read.
WriteMismatched ==
    /\ \E s \in Stocks : mismatched[s] # NotRead
    /\ quantity_allocated' = [s \in Stocks |->
                                 IF mismatched[s] # NotRead
                                 THEN mismatched[s] ELSE quantity_allocated[s]]
    /\ mismatched' = [s \in Stocks |-> NotRead]
    /\ UNCHANGED <<stockVars, rows, allocation, orderVars, reservationVars,
                   emptied>>

\* delete_empty_allocations_task: the ids of empty rows are read ...
ReadEmptyAllocations ==
    /\ EmptyAllocationsTask
    /\ emptied = {}
    /\ emptied' = {r \in rows : allocation[r[1]][r[2]] = 0}
    /\ emptied' # {}
    /\ UNCHANGED <<stockVars, quantity_allocated, rows, allocation, orderVars,
                   reservationVars, mismatched>>

\* ... and delete_allocations deletes the rows with these ids.
DeleteAllocations ==
    /\ emptied # {}
    /\ rows' = rows \ emptied
    /\ allocation' = [l \in Lines |-> [s \in Stocks |->
                         IF <<l, s>> \in emptied THEN 0 ELSE allocation[l][s]]]
    /\ emptied' = {}
    /\ UNCHANGED <<stockVars, quantity_allocated, orderVars, reservationVars,
                   mismatched>>

-----------------------------------------------------------------------------
OrderNext ==
    \/ \E o \in Orders, point \in CollectionPoints :
          \E req \in [LinesOf(o) -> 1 .. MaxQty] : AllocateStocks(o, req, point)
    \/ \E o \in Orders : ConfirmOrder(o)
    \/ \E l \in Lines, old \in 0 .. MaxQty, new \in 1 .. MaxQty :
          ChangeOrderLineQuantity(l, old, new)
    \/ \E l \in Lines, old \in 0 .. MaxQty : DeleteOrderLine(l, old)
    \/ \E o \in Orders, w \in Warehouses, exceeded \in AllowExceeded :
          \E req \in [LinesOf(o) -> 0 .. MaxQty] :
              DecreaseStock(o, w, req, exceeded)
    \/ \E l \in Lines, s \in Stocks, n \in 1 .. MaxQty : IncreaseStock(l, s, n)
    \/ \E o \in Orders : CancelOrder(o)
    \/ \E batch \in SUBSET Orders : ExpireOrders(batch)

ReservationNext ==
    \/ \E o \in CheckoutOrders, reserving \in BOOLEAN :
          \E edited \in SUBSET LinesOf(o) : \E req \in [edited -> 0 .. MaxQty] :
              AddVariantsToCheckout(o, req, reserving)
    \/ \E o \in CheckoutOrders : \E req \in [LinesOf(o) -> 1 .. MaxQty] :
          ReserveStocksWithoutAvailabilityCheck(o, req)
    \/ \E l \in Lines, s \in Stocks : ReservationExpires(l, s)
    \/ DeleteExpiredReservations

StaffNext ==
    \/ \E s \in Stocks, q \in StaffQuantities : UpdateStock(s, q)
    \/ \E s \in DeletableStocks : DeleteStock(s)

TaskNext ==
    \/ ReadMismatched \/ WriteMismatched
    \/ ReadEmptyAllocations \/ DeleteAllocations

Next == OrderNext \/ ReservationNext \/ StaffNext \/ TaskNext

Spec == Init /\ [][Next]_vars

\* The scheduler keeps starting the repair task, and a started task finishes.
FairSpec == Spec /\ WF_vars(ReadMismatched) /\ WF_vars(WriteMismatched)

-----------------------------------------------------------------------------
(* Properties.                                                             *)

\* The quantity of stock s was set by staff, or taken by a fulfillment where
\* fulfillments may exceed the stock.
Override(s) ==
    \/ \E q \in StaffQuantities : UpdateStock(s, q)
    \/ /\ TRUE \in AllowExceeded
       /\ quantity'[s] < quantity[s]
       /\ \E o \in Orders, w \in Warehouses :
             \E req \in [LinesOf(o) -> 0 .. MaxQty] :
                 DecreaseStock(o, w, req, TRUE)

(***************************************************************************)
(* allocate_stocks, increase_allocations and decrease_stock check under    *)
(* the row lock: apart from an explicit override no step leaves more units *)
(* of a stock promised to orders than it has, unless it was so already and *)
(* the step makes it no worse.                                             *)
(***************************************************************************)
NeverOversells ==
    [][\A s \in Stocks : Free(s)' >= 0 \/ Free(s)' >= Free(s) \/ Override(s)]_vars

(***************************************************************************)
(* The denormalised Stock.quantity_allocated, which the API and the back   *)
(* in stock notifications of staff edits use, is the sum of the            *)
(* allocations in the stock.                                               *)
(***************************************************************************)
CounterInSync ==
    \A s \in stocks : quantity_allocated[s] = Allocated(s)

(***************************************************************************)
(* A line of a live order has exactly its unfulfilled quantity allocated,  *)
(* through every edit, fulfillment and restock: nothing the customer was   *)
(* promised can be sold again and nothing stays blocked.                   *)
(***************************************************************************)
LineCovered ==
    \A l \in Lines :
        status[LineOrder[l]] \in {"unconfirmed", "open"}
        => SumOf(allocation[l], Stocks) = ordered[l] - shipped[l]

\* Units of stock s held by reservations that have not expired.
Reserved(s) == ReservedByOthers(s, {})

\* An edit of a checkout gives an expired reservation of stock s, of a line
\* that is not edited, a new reserved_until.
Revives(s) ==
    \E o \in CheckoutOrders : \E edited \in SUBSET LinesOf(o) :
        /\ \E l \in LinesOf(o) \ edited : <<l, s>> \in expired
        /\ \E req \in [edited -> 0 .. MaxQty] : AddVariantsToCheckout(o, req, TRUE)

\* The payment flow reserves stocks without a look at what is available.
ReservesUnchecked ==
    \E o \in CheckoutOrders : \E req \in [LinesOf(o) -> 1 .. MaxQty] :
        ReserveStocksWithoutAvailabilityCheck(o, req)

(***************************************************************************)
(* reserve_stocks promises to the edited lines of a checkout only what no  *)
(* order, no other checkout and no other line of the checkout holds, also  *)
(* when reservations expire, are replaced or are deleted in between and    *)
(* when the two steps that take no look at the stock have overbooked it    *)
(* already: the new reserved_until of an expired reservation and the       *)
(* reservations of the payment flow.                                       *)
(***************************************************************************)
NeverOverbooks ==
    [][\A s \in Stocks :
         Reserved(s)' > Reserved(s) /\ ~Revives(s) /\ ~ReservesUnchecked
         => Reserved(s)' + Allocated(s)' <= quantity'[s]]_vars

(***************************************************************************)
(* Once nothing but the repair task touches the stocks, the counters agree *)
(* with the allocations and stay so, whatever was lost before and even if  *)
(* the task had read its values before the last change.                    *)
(***************************************************************************)
CounterRepaired ==
    <>[][ReadMismatched \/ WriteMismatched]_vars => <>[]CounterInSync
=============================================================================
