----------------------------- MODULE Fulfillment -----------------------------
(***************************************************************************)
(* The fulfillments of one confirmed order: saleor/order/actions.py and    *)
(* the staff mutations of saleor/graphql/order/mutations that call it.     *)
(*                                                                         *)
(* A mutation reads and validates without a lock (its "read" step), may    *)
(* open a transaction that locks rows and reads again (its "loaded" step)  *)
(* and then writes everything in one commit.  What it read stays in the    *)
(* Python objects of the request, here request[p], and may be stale when   *)
(* it is written back.  A request that is refused, fails or is killed      *)
(* before its commit is rolled back.                                       *)
(*                                                                         *)
(* Every line has a variant of its own with one stock, from which it is    *)
(* fulfilled; Warehouse has the general case, and the requests that may    *)
(* exceed the stock.  Order and payment amounts are not modelled.          *)
(***************************************************************************)
EXTENDS Quantities, Sequences

CONSTANTS
    Lines,           \* the lines of the order
    Ordered,         \* OrderLine.quantity
    Stocked,         \* Stock.quantity of each line's stock at the start
    Staff,           \* the requests that may be in progress at once
    Operations,      \* the mutations in use
    AutoApprove,     \* site.settings.fulfillment_auto_approve
    Crashes,         \* a request may be killed between commit and on_commit
    MaxFulfillments  \* bound on the fulfillments ever created

Fulfillments == 1 .. MaxFulfillments
NoFulfillment == 0

ASSUME LinesAssumption == IsFiniteSet(Lines)
ASSUME QuantitiesAssumption ==
    /\ Ordered \in [Lines -> Nat]
    /\ Stocked \in [Lines -> Nat]
    /\ \A l \in Lines : Ordered[l] <= Stocked[l]
ASSUME SettingsAssumption ==
    /\ AutoApprove \in BOOLEAN /\ Crashes \in BOOLEAN
    /\ MaxFulfillments \in Nat

VARIABLES
    status,     \* Order.status
    fulfilled,  \* OrderLine.quantity_fulfilled
    fstatus,    \* Fulfillment.status, "ABSENT" before, "DELETED" after the row
    lines,      \* FulfillmentLine.quantity, 0 without a row
    onhand,     \* Stock.quantity
    allocated,  \* Allocation.quantity_allocated
    request     \* what each request in progress has read and asked for

vars == <<status, fulfilled, fstatus, lines, onhand, allocated, request>>

OrderStatuses == {"UNFULFILLED", "PARTIALLY_FULFILLED", "FULFILLED",
                  "PARTIALLY_RETURNED", "RETURNED", "CANCELED"}

FulfillmentStatuses == {"ABSENT", "DELETED", "WAITING_FOR_APPROVAL",
                        "FULFILLED", "REFUNDED", "RETURNED",
                        "REFUNDED_AND_RETURNED", "REPLACED", "CANCELED"}

Amounts == [Lines -> Nat]
Zero == [l \in Lines |-> 0]

AllOperations == {"OrderFulfill", "FulfillmentApprove", "FulfillmentCancel",
                  "FulfillmentRefundProducts", "FulfillmentReturnProducts",
                  "OrderCancel"}

(***************************************************************************)
(* A request: its mutation, the step it has reached, the fulfillment it is *)
(* about, the units asked for of order lines (ask) and of fulfillment      *)
(* lines (move), and the values it has read: quantity_fulfilled of the     *)
(* order lines (seen), quantity of the fulfillment lines (got), and        *)
(* Order.status (order).                                                   *)
(***************************************************************************)
Idle == [op |-> "none", phase |-> "idle", f |-> NoFulfillment, ask |-> Zero,
         move |-> Zero, seen |-> Zero, got |-> Zero, order |-> "UNFULFILLED",
         refund |-> FALSE, replace |-> FALSE]

Requests ==
    [op : AllOperations \cup {"none", "CancelWaiting"},
     phase : {"idle", "read", "loaded", "committed"},
     f : Fulfillments \cup {NoFulfillment},
     ask : Amounts, move : Amounts, seen : [Lines -> Int], got : Amounts,
     order : OrderStatuses, refund : BOOLEAN, replace : BOOLEAN]

\* Every variable has its type; allocations and fulfillment lines are never
\* negative.
TypeOK ==
    /\ status \in OrderStatuses
    /\ fulfilled \in [Lines -> Int]
    /\ fstatus \in [Fulfillments -> FulfillmentStatuses]
    /\ lines \in [Fulfillments -> Amounts]
    /\ onhand \in [Lines -> Int]
    /\ allocated \in Amounts
    /\ request \in [Staff -> Requests]

-----------------------------------------------------------------------------
(* The order's status.                                                     *)

\* The units of line l in fulfillments with a status of S, and of all lines.
UnitsIn(S, fs, ls, l) ==
    SumOf([f \in Fulfillments |-> IF fs[f] \in S THEN ls[f][l] ELSE 0],
          Fulfillments)
TotalIn(S, fs, ls) == SumOf([l \in Lines |-> UnitsIn(S, fs, ls, l)], Lines)

\* _calculate_quantity_including_returns and determine_order_status.
DetermineOrderStatus(ful, fs, ls) ==
    LET replaced == TotalIn({"REPLACED"}, fs, ls)
        returned == TotalIn({"RETURNED", "REFUNDED_AND_RETURNED"}, fs, ls)
        awaiting == TotalIn({"WAITING_FOR_APPROVAL"}, fs, ls)
        total    == SumOf(Ordered, Lines) - replaced
        sent     == Total(ful, Lines) - replaced - awaiting
    IN  IF sent <= 0 THEN "UNFULFILLED"
        ELSE IF 0 < returned /\ returned < total THEN "PARTIALLY_RETURNED"
        ELSE IF returned = total THEN "RETURNED"
        ELSE IF sent < total THEN "PARTIALLY_FULFILLED"
        ELSE "FULFILLED"

AllReplaced(fs, ls) == SumOf(Ordered, Lines) = TotalIn({"REPLACED"}, fs, ls)

\* Mutant: the new status is not saved.
StatusAfterUnsaved(seenStatus, ful, fs, ls) == status

(***************************************************************************)
(* update_order_status: the quantities are read after the order is locked, *)
(* but the new status is compared with that of the request's own Order     *)
(* object and not saved when they are the same.                            *)
(***************************************************************************)
StatusAfter(seenStatus, ful, fs, ls) ==
    LET new == DetermineOrderStatus(ful, fs, ls)
    IN  IF AllReplaced(fs, ls) \/ new = seenStatus THEN status ELSE new

-----------------------------------------------------------------------------
(* Locks and new rows.                                                     *)

\* No other request holds the order lines that L names.
LinesFree(p, L) ==
    \A q \in Staff \ {p} :
        /\ request[q].op = "OrderFulfill" /\ request[q].phase = "loaded"
        => \A l \in L : request[q].ask[l] = 0

\* No other request holds the row of fulfillment f.
RowFree(p, f) ==
    \A q \in Staff \ {p} :
        /\ request[q].op \in {"FulfillmentApprove", "FulfillmentCancel"}
        /\ request[q].phase = "loaded"
        => request[q].f # f

Asked(units) == {l \in Lines : units[l] > 0}

\* f is the id the database gives to the next fulfillment.
NextRow(f, fs) == fs[f] = "ABSENT" /\ \A g \in Fulfillments : g < f => fs[g] # "ABSENT"

Start(p, r) == request[p] = Idle /\ request' = [request EXCEPT ![p] = r]
Finish(p) == request' = [request EXCEPT ![p] = Idle]

\* Mutant: min() with the allocated quantity is dropped.
DeallocateUncapped(units) == [l \in Lines |-> allocated[l] - units[l]]

\* The units that leave the allocations when units are fulfilled or refunded.
Deallocate(units) ==
    [l \in Lines |-> allocated[l] - Least(allocated[l], units[l])]

\* Mutant: the stock is not compared with the allocations that remain.
DecreaseStocksUnchecked(units) ==
    /\ allocated' = Deallocate(units)
    /\ onhand' = [l \in Lines |-> onhand[l] - units[l]]

\* _decrease_stocks without allow_stock_to_be_exceeded.
DecreaseStocks(units) ==
    /\ \A l \in Asked(units) : onhand[l] - Deallocate(units)[l] >= units[l]
    /\ allocated' = Deallocate(units)
    /\ onhand' = [l \in Lines |-> onhand[l] - units[l]]

\* The fulfillments of the order without lines are deleted after a move.
DeleteEmpty(fs, ls) ==
    [f \in Fulfillments |->
        IF fs[f] \in {"FULFILLED", "WAITING_FOR_APPROVAL"} /\ ls[f] = Zero
        THEN "DELETED" ELSE fs[f]]

-----------------------------------------------------------------------------
(* OrderFulfill.                                                           *)

\* clean_order_line_quantities, for the current quantities.
Remaining(ask) == \A l \in Asked(ask) : ask[l] <= Ordered[l] - fulfilled[l]

FulfillRead(p, ask) ==
    /\ "OrderFulfill" \in Operations
    /\ Asked(ask) # {}
    /\ Remaining(ask)
    /\ Start(p, [Idle EXCEPT !.op = "OrderFulfill", !.phase = "read",
                             !.ask = ask, !.seen = fulfilled])
    /\ UNCHANGED <<status, fulfilled, fstatus, lines, onhand, allocated>>

\* The order lines are locked and their fresh quantities are checked.
FulfillLock(p) ==
    LET r == request[p]
    IN  /\ r.op = "OrderFulfill" /\ r.phase = "read"
        /\ LinesFree(p, Asked(r.ask))
        /\ Remaining(r.ask)
        /\ request' = [request EXCEPT ![p].phase = "loaded", ![p].order = status]
        /\ UNCHANGED <<status, fulfilled, fstatus, lines, onhand, allocated>>

(***************************************************************************)
(* create_fulfillments: the quantities written are those of the objects    *)
(* read before the lock.                                                   *)
(***************************************************************************)
Written(units, seen, sign) ==
    [l \in Lines |-> IF units[l] > 0 THEN seen[l] + sign * units[l]
                                      ELSE fulfilled[l]]

\* order_fulfilled: update_order_status, then events and notifications.
OrderFulfilled(r) == status' = StatusAfter(r.order, fulfilled', fstatus', lines')

\* _create_fulfillment_lines, with decrease_stock=auto_approved.
CreateFulfillmentLines(f, r) ==
    /\ fulfilled' = Written(r.ask, r.seen, 1)
    /\ lines' = [lines EXCEPT ![f] = r.ask]
    /\ \/ AutoApprove /\ DecreaseStocks(r.ask)
       \/ ~AutoApprove /\ UNCHANGED <<onhand, allocated>>

CreateFulfillments(p, f) ==
    LET r == request[p]
    IN  /\ r.op = "OrderFulfill" /\ r.phase = "loaded"
        /\ NextRow(f, fstatus)
        /\ CreateFulfillmentLines(f, r)
        /\ \/ /\ AutoApprove
              /\ fstatus' = [fstatus EXCEPT ![f] = "FULFILLED"]
              /\ OrderFulfilled(r)
           \/ /\ ~AutoApprove
              /\ fstatus' = [fstatus EXCEPT ![f] = "WAITING_FOR_APPROVAL"]
              /\ UNCHANGED status
        /\ Finish(p)

-----------------------------------------------------------------------------
(* FulfillmentApprove.                                                     *)

ApproveRead(p, f) ==
    /\ "FulfillmentApprove" \in Operations
    /\ fstatus[f] = "WAITING_FOR_APPROVAL"
    /\ Start(p, [Idle EXCEPT !.op = "FulfillmentApprove", !.phase = "read",
                             !.f = f])
    /\ UNCHANGED <<status, fulfilled, fstatus, lines, onhand, allocated>>

\* fulfillment.save() takes the row; the order is read again after it.
ApproveLock(p) ==
    LET r == request[p]
    IN  /\ r.op = "FulfillmentApprove" /\ r.phase = "read"
        /\ RowFree(p, r.f)
        /\ request' = [request EXCEPT ![p].phase = "loaded", ![p].order = status]
        /\ UNCHANGED <<status, fulfilled, fstatus, lines, onhand, allocated>>

\* approve_fulfillment does not look at the status again, and save() inserts
\* the row again if it was deleted.
ApproveFulfillment(p) ==
    LET r == request[p]
    IN  /\ r.op = "FulfillmentApprove" /\ r.phase = "loaded"
        /\ DecreaseStocks(lines[r.f])
        /\ fstatus' = [fstatus EXCEPT ![r.f] = "FULFILLED"]
        /\ UNCHANGED <<fulfilled, lines>>
        /\ OrderFulfilled(r)
        /\ Finish(p)

-----------------------------------------------------------------------------
(* FulfillmentCancel, with a warehouse to restock in.                      *)

\* Mutant: a fulfillment that waits for approval is cancelled like any other.
CancelReadAlike(p, f) ==
    /\ "FulfillmentCancel" \in Operations
    /\ fstatus[f] \notin {"ABSENT", "DELETED", "CANCELED"}
    /\ Start(p, [Idle EXCEPT !.op = "FulfillmentCancel", !.phase = "read",
                             !.f = f])
    /\ UNCHANGED <<status, fulfilled, fstatus, lines, onhand, allocated>>

CancelRead(p, f) ==
    /\ "FulfillmentCancel" \in Operations
    /\ fstatus[f] \notin {"ABSENT", "DELETED", "CANCELED"}
    /\ Start(p, [Idle EXCEPT !.op = IF fstatus[f] = "WAITING_FOR_APPROVAL"
                                    THEN "CancelWaiting"
                                    ELSE "FulfillmentCancel",
                             !.phase = "read", !.f = f])
    /\ UNCHANGED <<status, fulfilled, fstatus, lines, onhand, allocated>>

(***************************************************************************)
(* The fulfillment is fetched again, locked unless it was waiting, and its *)
(* lines and their order lines are read, without a lock on the order lines.*)
(***************************************************************************)
CancelLoad(p) ==
    LET r == request[p]
    IN  /\ r.op \in {"FulfillmentCancel", "CancelWaiting"}
        /\ r.phase = "read"
        /\ fstatus[r.f] # "DELETED"
        /\ RowFree(p, r.f) \/ r.op = "CancelWaiting"
        /\ request' = [request EXCEPT
              ![p] = [r EXCEPT !.phase = "loaded", !.seen = fulfilled,
                               !.got = lines[r.f], !.order = status]]
        /\ UNCHANGED <<status, fulfilled, fstatus, lines, onhand, allocated>>

\* Mutant: increase_stock is called without allocate=True.
RestockUnallocated(r) ==
    /\ onhand' = [l \in Lines |-> onhand[l] + r.got[l]]
    /\ fulfilled' = Written(r.got, r.seen, -1)
    /\ UNCHANGED allocated

\* restock_fulfillment_lines: the units come back allocated to the line.
RestockFulfillmentLines(r) ==
    /\ onhand' = [l \in Lines |-> onhand[l] + r.got[l]]
    /\ allocated' = [l \in Lines |-> allocated[l] + r.got[l]]
    /\ fulfilled' = Written(r.got, r.seen, -1)

CancelFulfillment(p) ==
    LET r == request[p]
    IN  /\ r.op = "FulfillmentCancel" /\ r.phase = "loaded"
        /\ LinesFree(p, Asked(r.got))
        /\ RestockFulfillmentLines(r)
        /\ fstatus' = [fstatus EXCEPT ![r.f] = "CANCELED"]
        /\ UNCHANGED lines
        /\ status' = StatusAfter(r.order, fulfilled', fstatus', lines)
        /\ Finish(p)

CancelWaitingFulfillment(p) ==
    LET r == request[p]
    IN  /\ r.op = "CancelWaiting" /\ r.phase = "loaded"
        /\ LinesFree(p, Asked(r.got))
        /\ RowFree(p, r.f)
        /\ fulfilled' = Written(r.got, r.seen, -1)
        /\ fstatus' = [fstatus EXCEPT ![r.f] = "DELETED"]
        /\ lines' = [lines EXCEPT ![r.f] = Zero]
        /\ UNCHANGED <<status, onhand, allocated>>
        /\ Finish(p)

-----------------------------------------------------------------------------
(* FulfillmentRefundProducts and FulfillmentReturnProducts.                *)

\* Mutant: the units of order lines are not compared with the unfulfilled ones.
MovesValidUnbounded(f, ask, move, allowed) ==
    /\ Asked(ask) \cup Asked(move) # {}
    /\ IF f = NoFulfillment THEN move = Zero
       ELSE /\ fstatus[f] \in allowed
            /\ Asked(move) # {}
            /\ \A l \in Lines : move[l] <= lines[f][l]

\* clean_lines and clean_fulfillment_lines: units of order lines that are not
\* fulfilled, and units of one fulfillment with an allowed status.
MovesValid(f, ask, move, allowed) ==
    /\ Asked(ask) \cup Asked(move) # {}
    /\ Remaining(ask)
    /\ IF f = NoFulfillment THEN move = Zero
       ELSE /\ fstatus[f] \in allowed
            /\ Asked(move) # {}
            /\ \A l \in Lines : move[l] <= lines[f][l]

Loaded(f) == IF f = NoFulfillment THEN Zero ELSE lines[f]

RefundRead(p, f, ask, move) ==
    /\ "FulfillmentRefundProducts" \in Operations
    /\ MovesValid(f, ask, move, {"FULFILLED", "RETURNED", "WAITING_FOR_APPROVAL"})
    /\ Start(p, [Idle EXCEPT !.op = "FulfillmentRefundProducts",
                             !.phase = "read", !.f = f, !.ask = ask,
                             !.move = move, !.seen = fulfilled,
                             !.got = Loaded(f)])
    /\ UNCHANGED <<status, fulfilled, fstatus, lines, onhand, allocated>>

ReturnRead(p, f, ask, move, refund, replace) ==
    /\ "FulfillmentReturnProducts" \in Operations
    /\ MovesValid(f, ask, move, {"FULFILLED", "REFUNDED", "WAITING_FOR_APPROVAL"})
    /\ Start(p, [Idle EXCEPT !.op = "FulfillmentReturnProducts",
                             !.phase = "read", !.f = f, !.ask = ask,
                             !.move = move, !.seen = fulfilled,
                             !.got = Loaded(f), !.order = status,
                             !.refund = refund, !.replace = replace])
    /\ UNCHANGED <<status, fulfilled, fstatus, lines, onhand, allocated>>

\* Mutant: the moved units stay in their fulfillment.
TakenFromNothing(r) == lines

(***************************************************************************)
(* _move_fulfillment_lines_to_target_fulfillment: the source rows get the  *)
(* quantities read earlier less the units moved; a row deleted since then  *)
(* stays deleted.                                                          *)
(***************************************************************************)
TakenFrom(r) ==
    [g \in Fulfillments |-> [l \in Lines |->
        IF g = r.f /\ r.move[l] > 0 /\ lines[g][l] > 0
        THEN r.got[l] - r.move[l] ELSE lines[g][l]]]

\* _move_order_lines_to_target_fulfillment: units that were not fulfilled
\* count as fulfilled and are deallocated.
MoveOrderLines(r) ==
    /\ fulfilled' = Written(r.ask, r.seen, 1)
    /\ allocated' = Deallocate(r.ask)

\* The fulfillment lines to return are already refunded.
AlreadyRefunded(r) == r.f # NoFulfillment /\ fstatus[r.f] = "REFUNDED"

(***************************************************************************)
(* The fulfillments that a request creates, in order, as pairs of a status *)
(* and the units moved there.  A replacement is followed by a return       *)
(* without lines; items already refunded go to a fulfillment of their own  *)
(* unless the return is refunded as well.                                  *)
(***************************************************************************)
Sum2(a, b) == [l \in Lines |-> a[l] + b[l]]

Targets(r) ==
    LET final == IF r.refund THEN "REFUNDED_AND_RETURNED" ELSE "RETURNED"
    IN  IF r.op = "FulfillmentRefundProducts"
        THEN << <<"REFUNDED", Sum2(r.ask, r.move)>> >>
        ELSE IF r.replace
        THEN << <<"REPLACED", Sum2(r.ask, r.move)>>, <<final, Zero>> >>
        ELSE IF AlreadyRefunded(r) /\ ~r.refund
        THEN << <<final, r.ask>>, <<"REFUNDED_AND_RETURNED", r.move>> >>
        ELSE << <<final, Sum2(r.ask, r.move)>> >>

Created == Cardinality({f \in Fulfillments : fstatus[f] # "ABSENT"})

\* The moves of a request, in one transaction.
MoveLines(p) ==
    LET r    == request[p]
        to   == Targets(r)
        at   == [f \in Fulfillments |-> f - Created]
        made == {f \in Fulfillments : at[f] \in DOMAIN to}
        ls   == [f \in Fulfillments |->
                    IF f \in made THEN to[at[f]][2] ELSE TakenFrom(r)[f]]
        fs   == [f \in Fulfillments |->
                    IF f \in made THEN to[at[f]][1] ELSE fstatus[f]]
    IN  /\ r.phase = "read"
        /\ Created + Len(to) <= MaxFulfillments
        /\ LinesFree(p, Asked(r.ask))
        /\ \A f \in Fulfillments : DeleteEmpty(fs, ls)[f] # fs[f] => RowFree(p, f)
        /\ MoveOrderLines(r)
        /\ lines' = ls
        /\ fstatus' = DeleteEmpty(fs, ls)
        /\ UNCHANGED <<status, onhand>>

CreateRefundFulfillment(p) ==
    /\ request[p].op = "FulfillmentRefundProducts"
    /\ MoveLines(p)
    /\ Finish(p)

CreateFulfillmentsForReturnedProducts(p) ==
    LET r == request[p]
    IN  /\ r.op = "FulfillmentReturnProducts"
        /\ MoveLines(p)
        /\ request' = [request EXCEPT
              ![p] = [Idle EXCEPT !.op = r.op, !.phase = "committed",
                        !.order = IF r.replace THEN status ELSE r.order]]

\* order_returned runs on commit, with the request's own Order object, which
\* a replacement has refreshed.
OrderReturned(p) ==
    LET r == request[p]
    IN  /\ r.phase = "committed"
        /\ status' = StatusAfter(r.order, fulfilled, fstatus, lines)
        /\ UNCHANGED <<fulfilled, fstatus, lines, onhand, allocated>>
        /\ Finish(p)

-----------------------------------------------------------------------------
(* OrderCancel, and requests that come to nothing.                         *)

CanCancel ==
    /\ status # "CANCELED"
    /\ \A f \in Fulfillments :
          fstatus[f] \notin {"WAITING_FOR_APPROVAL", "FULFILLED"}

CancelOrderRead(p) ==
    /\ "OrderCancel" \in Operations
    /\ CanCancel
    /\ Start(p, [Idle EXCEPT !.op = "OrderCancel", !.phase = "read"])
    /\ UNCHANGED <<status, fulfilled, fstatus, lines, onhand, allocated>>

CancelOrder(p) ==
    /\ request[p].op = "OrderCancel" /\ request[p].phase = "read"
    /\ allocated' = Zero
    /\ status' = "CANCELED"
    /\ UNCHANGED <<fulfilled, fstatus, lines, onhand>>
    /\ Finish(p)

\* Refused by a check, rolled back, or killed.
Fail(p) ==
    /\ request[p].phase \in {"read", "loaded"} \/ (Crashes /\ request[p].phase = "committed")
    /\ UNCHANGED <<status, fulfilled, fstatus, lines, onhand, allocated>>
    /\ Finish(p)

-----------------------------------------------------------------------------
Init ==
    /\ status = "UNFULFILLED"
    /\ fulfilled = Zero
    /\ fstatus = [f \in Fulfillments |-> "ABSENT"]
    /\ lines = [f \in Fulfillments |-> Zero]
    /\ onhand = Stocked
    /\ allocated = Ordered
    /\ request = [p \in Staff |-> Idle]

\* The units a request may ask for: no more than were ordered.
Choices == {u \in [Lines -> 0 .. SumOf(Ordered, Lines)] :
               \A l \in Lines : u[l] <= Ordered[l]}

Next ==
    \E p \in Staff :
        \/ \E ask \in Choices : FulfillRead(p, ask)
        \/ FulfillLock(p)
        \/ \E f \in Fulfillments : CreateFulfillments(p, f)
        \/ \E f \in Fulfillments : ApproveRead(p, f)
        \/ ApproveLock(p)
        \/ ApproveFulfillment(p)
        \/ \E f \in Fulfillments : CancelRead(p, f)
        \/ CancelLoad(p)
        \/ CancelFulfillment(p)
        \/ CancelWaitingFulfillment(p)
        \/ \E f \in Fulfillments \cup {NoFulfillment}, ask, move \in Choices :
              RefundRead(p, f, ask, move)
        \/ \E f \in Fulfillments \cup {NoFulfillment}, ask, move \in Choices,
              refund, replace \in BOOLEAN : ReturnRead(p, f, ask, move, refund, replace)
        \/ CreateRefundFulfillment(p)
        \/ CreateFulfillmentsForReturnedProducts(p)
        \/ OrderReturned(p)
        \/ CancelOrderRead(p)
        \/ CancelOrder(p)
        \/ Fail(p)

Spec == Init /\ [][Next]_vars

-----------------------------------------------------------------------------
(* Properties.                                                             *)

(***************************************************************************)
(* decrease_stock and increase_stock work on locked rows: whatever the     *)
(* requests have read before, the stock holds every unit still allocated.  *)
(***************************************************************************)
AllocationsBacked == \A l \in Lines : allocated[l] <= onhand[l]

(***************************************************************************)
(* quantity_fulfilled of a line is the number of its units in fulfillments *)
(* that are not cancelled: "refresh order lines from db to prevent race    *)
(* condition" in create_fulfillments.                                      *)
(***************************************************************************)
FulfilledCounted ==
    \A l \in Lines :
        fulfilled[l] = UnitsIn(FulfillmentStatuses \ {"CANCELED"},
                               fstatus, lines, l)

(***************************************************************************)
(* OrderLine.quantity_fulfilled stays between 0 and OrderLine.quantity,    *)
(* also when several requests write what they read before: each checks the *)
(* value it adds to.                                                       *)
(***************************************************************************)
NeverOverfulfilled ==
    \A l \in Lines : 0 <= fulfilled[l] /\ fulfilled[l] <= Ordered[l]

(***************************************************************************)
(* The units of a live order that have not been handed over are allocated, *)
(* those waiting for approval included.                                    *)
(***************************************************************************)
OpenUnitsAllocated ==
    \A l \in Lines :
        allocated[l] = Ordered[l] - fulfilled[l]
                       + UnitsIn({"WAITING_FOR_APPROVAL"}, fstatus, lines, l)

(***************************************************************************)
(* Between requests the stored status is the one that the quantities       *)
(* determine.                                                              *)
(***************************************************************************)
StatusCurrent ==
    (\A p \in Staff : request[p] = Idle)
    => \/ AllReplaced(fstatus, lines)
       \/ status = DetermineOrderStatus(fulfilled, fstatus, lines)

(***************************************************************************)
(* Cancelling fulfillments returns to the stock only what was taken from   *)
(* it ("Return fulfilled products to corresponding stocks").               *)
(***************************************************************************)
NoPhantomStock == \A l \in Lines : onhand[l] <= Stocked[l]
=============================================================================
