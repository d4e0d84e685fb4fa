-------------------------- MODULE CheckoutComplete --------------------------
(***************************************************************************)
(* Turning checkouts into orders: saleor/checkout/complete_checkout.py,    *)
(* the payment gateway calls of saleor/payment/gateway.py that it makes,   *)
(* and the operations that compete with it.                                *)
(*                                                                         *)
(* complete_checkout has two flows.  The payment flow is three database    *)
(* transactions that each lock the checkout: the first counts the voucher  *)
(* and finds the payment, the second charges it, the third creates the     *)
(* order and deletes the checkout; they commit even when they raise.  The  *)
(* transaction flow counts the voucher in a transaction that does not lock *)
(* the checkout, and creates the order in a second one, which is rolled    *)
(* back when it raises.  Requests of several threads interleave between    *)
(* transactions, and a thread may be killed at any time.                   *)
(*                                                                         *)
(* Every checkout has the same voucher code with a usage limit.  Amounts   *)
(* are counted in checkout totals, and money that is authorized is treated *)
(* like money that is captured.  Stock is in Warehouse: here creating the  *)
(* order may fail.                                                         *)
(***************************************************************************)
EXTENDS Quantities

CONSTANTS
    Checkouts,    \* checkouts with lines and the voucher code
    Threads,      \* requests and tasks that complete checkouts
    Flows,        \* of {"payment", "transaction"}, those in use
    UsageLimit,   \* Voucher.usage_limit
    MaxPayments,  \* bound on the payments created for a checkout
    MaxHeld,      \* bound on the times one payment is charged
    Killing       \* threads may be killed

Payments == 1 .. MaxPayments
NoPayment == 0
NoThread == "none"

ASSUME CheckoutsAssumption == IsFiniteSet(Checkouts) /\ Checkouts # {}
ASSUME ThreadsAssumption == NoThread \notin Threads
ASSUME LimitsAssumption ==
    /\ UsageLimit \in Nat \ {0} /\ MaxPayments \in Nat /\ MaxHeld \in Nat
    /\ Flows \subseteq {"payment", "transaction"} /\ Killing \in BOOLEAN

VARIABLES
    open,        \* the Checkout row exists
    counted,     \* Checkout.is_voucher_usage_increased
    completing,  \* Checkout.completing_started_at is set and recent
    locked,      \* the thread whose transaction holds the checkout row
    used,        \* VoucherCode.used
    pay,         \* Payment rows of each checkout
    orders,      \* orders made of each checkout: its flow, with the voucher?
    thread,      \* where each thread is, and what it has read
    overlapped   \* history: two threads have worked on the checkout at once

vars == <<open, counted, completing, locked, used, pay, orders, thread, overlapped>>

(***************************************************************************)
(* A payment: created, is_active, the charges it holds, the amount of the  *)
(* last REFUND_ONGOING transaction, and whether it is assigned to an order.*)
(* answer is "pending" after the gateway has answered success with PENDING *)
(* (charge_status PENDING, and CANCELLED if nothing comes of it), and      *)
(* "reported" when it has taken the money after such an answer.            *)
(***************************************************************************)
Answers == {"none", "pending", "reported"}
Unmade == [made |-> FALSE, active |-> FALSE, held |-> 0, refunding |-> 0,
           ordered |-> FALSE, answer |-> "none"]
Made == [Unmade EXCEPT !.made = TRUE, !.active = TRUE]

PaymentRows == [made : BOOLEAN, active : BOOLEAN, held : Nat, refunding : Nat,
                ordered : BOOLEAN, answer : Answers]

\* checkout.get_last_active_payment()
LastActive(c) ==
    LET active == {p \in Payments : pay[c][p].active}
    IN  IF active = {} THEN NoPayment
        ELSE CHOOSE p \in active : \A q \in active : q <= p

\* What is kept of an order.
OrderRecords == [id : Nat, flow : {"payment", "transaction"}, voucher : BOOLEAN]

(***************************************************************************)
(* A thread: its step, checkout and flow, the flag it has read (seen),     *)
(* whether the voucher was found applicable (voucher), the payment it has  *)
(* fetched, and whether the gateway wants a further action.                *)
(***************************************************************************)
Idle == [pc |-> "idle", checkout |-> CHOOSE c \in Checkouts : TRUE,
         seen |-> FALSE, voucher |-> FALSE, payment |-> NoPayment,
         action |-> FALSE]

Steps == {"idle", "lock", "prepare", "process", "finish",
          "validate", "count", "create"}

ThreadStates == [pc : Steps, checkout : Checkouts, seen : BOOLEAN, voucher : BOOLEAN,
                 payment : Payments \cup {NoPayment}, action : BOOLEAN]

Of(t) == thread[t].checkout
At(t, step) == thread[t].pc = step
Unlocked(c) == locked[c] = NoThread
Move(t, state) == thread' = [thread EXCEPT ![t] = state]
Done(t) == Move(t, Idle)
Goto(t, step) == Move(t, [thread[t] EXCEPT !.pc = step])

\* get_voucher_for_checkout: the limit is not validated for a checkout that
\* has already counted.
Applicable(flag) == flag \/ used < UsageLimit

Init ==
    /\ open = [c \in Checkouts |-> TRUE]
    /\ counted = [c \in Checkouts |-> FALSE]
    /\ completing = [c \in Checkouts |-> FALSE]
    /\ locked = [c \in Checkouts |-> NoThread]
    /\ used = 0
    /\ pay = [c \in Checkouts |-> [p \in Payments |-> Unmade]]
    /\ orders = [c \in Checkouts |-> {}]
    /\ thread = [t \in Threads |-> Idle]
    /\ overlapped = [c \in Checkouts |-> FALSE]

(***************************************************************************)
(* What the handlers do to the rows of a checkout.                         *)
(***************************************************************************)

\* A gateway that had answered PENDING has taken or returned the money.
Known(answer) == IF answer = "pending" THEN "reported" ELSE answer

\* update_payment_charge_status for AUTH, which leaves charge_status alone,
\* and for CAPTURE
Authorized(row) == [row EXCEPT !.held = @ + 1]
Captured(row) == [row EXCEPT !.held = @ + 1, !.answer = Known(row.answer)]

\* gateway.payment_refund_or_void: refunds what is held unless a refund of
\* as much is under way or charge_status is PENDING, which can_refund and
\* can_void leave out; the gateway refunds, accepts or fails.
Refunded(row) ==
    IF row.held = 0 \/ row.answer = "pending" \/ row.refunding >= row.held
    THEN {row}
    ELSE {[row EXCEPT !.held = 0, !.active = FALSE],
          [row EXCEPT !.refunding = row.held],
          row}

\* The possible payments of c after payment p, if any, is given back.
GivenBack(c, p) ==
    IF p = NoPayment THEN {pay[c]}
    ELSE {[pay[c] EXCEPT ![p] = row] : row \in Refunded(pay[c][p])}

\* _increase_checkout_voucher_usage on a checkout that holds flag
CountUsage(c, flag) ==
    /\ counted' = [counted EXCEPT ![c] = TRUE]
    /\ used' = IF flag THEN used ELSE used + 1

\* Mutant: the usage is released whether or not it was counted.
ReleaseUsageBlindly(c) ==
    /\ counted' = [counted EXCEPT ![c] = FALSE]
    /\ used' = used - 1

\* _release_checkout_voucher_usage
ReleaseUsage(c) ==
    /\ counted' = [counted EXCEPT ![c] = FALSE]
    /\ used' = IF counted[c] THEN used - 1 ELSE used

\* The order is created with the checkout's payments, the checkout deleted.
PlaceOrder(c, flow, voucher) ==
    /\ orders' = [orders EXCEPT ![c] = @ \cup
                    {[id |-> Cardinality(orders[c]), flow |-> flow, voucher |-> voucher]}]
    /\ pay' = [pay EXCEPT ![c] = [p \in Payments |->
                    [pay[c][p] EXCEPT !.ordered = pay[c][p].ordered \/ pay[c][p].made]]]
    /\ open' = [open EXCEPT ![c] = FALSE]

Released(c) == completing' = [completing EXCEPT ![c] = FALSE]

(***************************************************************************)
(* checkoutComplete begins: the checkout is read without a lock, and       *)
(* complete_checkout chooses the flow by authorizations that are outside   *)
(* this model.  The transaction flow refuses a voucher that does not apply.*)
(***************************************************************************)
Begin(t, c, flow) ==
    /\ At(t, "idle") /\ open[c] /\ flow \in Flows
    /\ flow = "transaction" => Applicable(counted[c])
    /\ Move(t, [Idle EXCEPT
                   !.pc = IF flow = "payment" THEN "lock" ELSE "validate",
                   !.checkout = c, !.seen = counted[c]])
    /\ overlapped' = [overlapped EXCEPT ![c] =
                         @ \/ \E u \in Threads \ {t} : thread[u].pc # "idle" /\ Of(u) = c]
    /\ UNCHANGED <<open, counted, completing, locked, used, pay, orders>>

(***************************************************************************)
(* The payment flow, complete_checkout_with_payment.                       *)
(***************************************************************************)

\* First transaction: lock the checkout, fetch it and its voucher.
LockCheckout(t) ==
    LET c == Of(t) IN
    /\ At(t, "lock") /\ Unlocked(c)
    /\ \/ /\ open[c]
          /\ locked' = [locked EXCEPT ![c] = t]
          /\ Move(t, [thread[t] EXCEPT !.pc = "prepare",
                                       !.voucher = Applicable(counted[c])])
       \/ ~open[c] /\ Done(t) /\ UNCHANGED locked
    /\ UNCHANGED <<open, counted, completing, used, pay, orders, overlapped>>

\* complete_checkout_pre_payment_part raises before the voucher is counted.
RefusePrepare(t) ==
    LET c == Of(t) IN
    /\ At(t, "prepare")
    /\ \E rows \in GivenBack(c, LastActive(c)) : pay' = [pay EXCEPT ![c] = rows]
    /\ locked' = [locked EXCEPT ![c] = NoThread]
    /\ Released(c) /\ Done(t)
    /\ UNCHANGED <<open, counted, used, orders, overlapped>>

\* The payment does not cover the total and giving it back fails as well:
\* PaymentError passes by the fail handler, which leaves the indicator set.
FailRefund(t) ==
    LET c == Of(t)  p == LastActive(c) IN
    /\ At(t, "prepare")
    /\ p # NoPayment /\ pay[c][p].answer # "pending"
    /\ pay[c][p].held > pay[c][p].refunding
    /\ completing' = [completing EXCEPT ![c] = TRUE]
    /\ locked' = [locked EXCEPT ![c] = NoThread]
    /\ Done(t)
    /\ UNCHANGED <<open, counted, used, pay, orders, overlapped>>

\* preprocess_order_creation raises TaxError after the voucher is counted.
FailTaxes(t) ==
    LET c == Of(t) IN
    /\ At(t, "prepare") /\ thread[t].voucher /\ LastActive(c) # NoPayment
    /\ ReleaseUsage(c)
    /\ \E rows \in GivenBack(c, LastActive(c)) : pay' = [pay EXCEPT ![c] = rows]
    /\ locked' = [locked EXCEPT ![c] = NoThread]
    /\ Released(c) /\ Done(t)
    /\ UNCHANGED <<open, orders, overlapped>>

\* The order data is complete and the voucher is counted.
Prepare(t) ==
    LET c == Of(t) IN
    /\ At(t, "prepare") /\ thread[t].voucher /\ LastActive(c) # NoPayment
    /\ CountUsage(c, counted[c])
    /\ completing' = [completing EXCEPT ![c] = TRUE]
    /\ locked' = [locked EXCEPT ![c] = NoThread]
    /\ Move(t, [thread[t] EXCEPT !.pc = "process", !.payment = LastActive(c)])
    /\ UNCHANGED <<open, pay, orders, overlapped>>

\* A later transaction finds that the checkout has become an order.
FindOrder(t) ==
    /\ thread[t].pc \in {"process", "finish", "create"}
    /\ ~open[Of(t)] /\ Unlocked(Of(t))
    /\ Done(t)
    /\ UNCHANGED <<open, counted, completing, locked, used, pay, orders, overlapped>>

\* Mutant: the second transaction does not look for the checkout again.
ChargeUnchecked(t) ==
    LET c == Of(t)  p == thread[t].payment IN
    /\ At(t, "process") /\ Unlocked(c)
    /\ pay[c][p].active /\ pay[c][p].held < MaxHeld
    /\ pay' = [pay EXCEPT ![c][p].held = @ + 1]
    /\ Goto(t, "finish")
    /\ UNCHANGED <<open, counted, completing, locked, used, orders, overlapped>>

(***************************************************************************)
(* Second transaction, _process_payment: the gateway captures the payment, *)
(* authorizes it, accepts it with PENDING before it has taken any money,   *)
(* says that it was charged before, or wants an action of the customer.    *)
(***************************************************************************)
Charge(t) ==
    LET c == Of(t)  p == thread[t].payment  row == pay[c][p] IN
    /\ At(t, "process") /\ open[c] /\ Unlocked(c)
    /\ row.active
    /\ \/ /\ row.held < MaxHeld
          /\ \/ pay' = [pay EXCEPT ![c][p] = Captured(row)]
             \/ pay' = [pay EXCEPT ![c][p] = Authorized(row)]
          /\ Goto(t, "finish")
       \/ pay' = [pay EXCEPT ![c][p].answer = "pending"] /\ Goto(t, "finish")
       \/ row.held > 0 /\ Goto(t, "finish") /\ UNCHANGED pay
       \/ /\ Move(t, [thread[t] EXCEPT !.pc = "finish", !.action = TRUE])
          /\ UNCHANGED pay
    /\ UNCHANGED <<open, counted, completing, locked, used, orders, overlapped>>

\* Mutant: the usage is released but the checkout still says counted.
DeclineUncounted(t) ==
    LET c == Of(t) IN
    /\ At(t, "process") /\ open[c] /\ Unlocked(c)
    /\ used' = IF counted[c] THEN used - 1 ELSE used
    /\ Released(c) /\ Done(t)
    /\ UNCHANGED <<open, counted, locked, pay, orders, overlapped>>

\* PaymentError: the gateway declines, or the payment is no longer active.
\* The voucher stays counted.
Decline(t) ==
    LET c == Of(t) IN
    /\ At(t, "process") /\ open[c] /\ Unlocked(c)
    /\ Released(c) /\ Done(t)
    /\ UNCHANGED <<open, counted, locked, used, pay, orders, overlapped>>

\* The payment is inactive after it was processed: it is given back, and
\* the flag is reset without the usage, as no voucher code is passed on.
Deactivated(t) ==
    LET c == Of(t)  p == thread[t].payment
        rows == [pay[c] EXCEPT ![p].active = FALSE]
    IN
    /\ At(t, "process") /\ open[c] /\ Unlocked(c)
    /\ pay[c][p].active
    /\ \E row \in Refunded(rows[p]) : pay' = [pay EXCEPT ![c][p] = row]
    /\ counted' = [counted EXCEPT ![c] = FALSE]
    /\ Released(c) /\ Done(t)
    /\ UNCHANGED <<open, locked, used, orders, overlapped>>

\* Third transaction, complete_checkout_post_payment_part: an action of the
\* customer is needed.
AskCustomer(t) ==
    LET c == Of(t) IN
    /\ At(t, "finish") /\ open[c] /\ Unlocked(c)
    /\ thread[t].action
    /\ ReleaseUsage(c)
    /\ Released(c) /\ Done(t)
    /\ UNCHANGED <<open, locked, pay, orders, overlapped>>

\* Mutant: a refund in progress is not looked for.
RefundUnseen(t) == FALSE

RefundOngoing(t) == pay[Of(t)][thread[t].payment].refunding > 0

\* The payment is being refunded: there is no order.
GiveUp(t) ==
    LET c == Of(t) IN
    /\ At(t, "finish") /\ open[c] /\ Unlocked(c)
    /\ ~thread[t].action /\ RefundOngoing(t)
    /\ Released(c) /\ Done(t)
    /\ UNCHANGED <<open, counted, locked, used, pay, orders, overlapped>>

\* InsufficientStock or GiftCardNotApplicable while creating the order.
FailOrder(t) ==
    LET c == Of(t) IN
    /\ At(t, "finish") /\ open[c] /\ Unlocked(c)
    /\ ~thread[t].action /\ ~RefundOngoing(t)
    /\ ReleaseUsage(c)
    /\ \E rows \in GivenBack(c, thread[t].payment) : pay' = [pay EXCEPT ![c] = rows]
    /\ Released(c) /\ Done(t)
    /\ UNCHANGED <<open, locked, orders, overlapped>>

\* Mutant: the third transaction does not look for the checkout again.
FinishOrderUnchecked(t) ==
    LET c == Of(t) IN
    /\ At(t, "finish") /\ Unlocked(c)
    /\ ~thread[t].action /\ ~RefundOngoing(t)
    /\ PlaceOrder(c, "payment", TRUE)
    /\ Done(t)
    /\ UNCHANGED <<counted, completing, locked, used, overlapped>>

\* _create_order succeeds.
FinishOrder(t) ==
    LET c == Of(t) IN
    /\ At(t, "finish") /\ open[c] /\ Unlocked(c)
    /\ ~thread[t].action /\ ~RefundOngoing(t)
    /\ PlaceOrder(c, "payment", TRUE)
    /\ Done(t)
    /\ UNCHANGED <<counted, completing, locked, used, overlapped>>

(***************************************************************************)
(* The transaction flow, create_order_from_checkout.                       *)
(***************************************************************************)

\* _increase_voucher_code_usage_value looks the voucher up, with the flag
\* of the object that was read when the request began.
ValidateVoucher(t) ==
    /\ At(t, "validate")
    /\ Move(t, [thread[t] EXCEPT !.pc = "count",
                                 !.voucher = Applicable(thread[t].seen)])
    /\ UNCHANGED <<open, counted, completing, locked, used, pay, orders, overlapped>>

\* Saving the flag of a checkout that is gone fails and ends the request.
CountVoucher(t) ==
    LET c == Of(t) IN
    /\ At(t, "count")
    /\ \/ /\ ~thread[t].voucher \/ thread[t].seen
          /\ Goto(t, "create")
          /\ UNCHANGED <<counted, used>>
       \/ /\ thread[t].voucher /\ ~thread[t].seen
          /\ open[c] /\ Unlocked(c)
          /\ CountUsage(c, FALSE)
          /\ Goto(t, "create")
       \/ /\ thread[t].voucher /\ ~thread[t].seen
          /\ ~open[c]
          /\ Done(t)
          /\ UNCHANGED <<counted, used>>
    /\ UNCHANGED <<open, completing, locked, pay, orders, overlapped>>

\* The second transaction.  fetch_checkout_info looks the voucher up again
\* when none was counted.
CreateOrder(t) ==
    LET c == Of(t) IN
    /\ At(t, "create") /\ open[c] /\ Unlocked(c)
    /\ PlaceOrder(c, "transaction", thread[t].voucher \/ Applicable(counted[c]))
    /\ Done(t)
    /\ UNCHANGED <<counted, completing, locked, used, overlapped>>

\* InsufficientStock, GiftCardNotApplicable or TaxDataError: the release of
\* the voucher is rolled back with the rest.
FailCreate(t) ==
    /\ At(t, "create") /\ open[Of(t)] /\ Unlocked(Of(t))
    /\ Done(t)
    /\ UNCHANGED <<open, counted, completing, locked, used, pay, orders, overlapped>>

(***************************************************************************)
(* What happens besides.                                                   *)
(***************************************************************************)

\* Mutant: the checkout that was read before is used without a lock.
CreatePaymentUnlocked(c) ==
    /\ ~completing[c]
    /\ \E p \in Payments :
          /\ ~pay[c][p].made
          /\ pay' = [pay EXCEPT ![c][p] = Made]
    /\ UNCHANGED <<open, counted, completing, locked, used, orders, thread, overlapped>>

\* checkoutPaymentCreate: refused while a completion is in progress; older
\* payments become inactive.
CreatePayment(c) ==
    /\ open[c] /\ Unlocked(c) /\ ~completing[c]
    /\ \E p \in Payments :
          /\ ~pay[c][p].made
          /\ \A q \in Payments : q < p => pay[c][q].made
          /\ pay' = [pay EXCEPT ![c] = [q \in Payments |->
                        IF q = p THEN Made ELSE [pay[c][q] EXCEPT !.active = FALSE]]]
    /\ UNCHANGED <<open, counted, completing, locked, used, orders, thread, overlapped>>

\* CHECKOUT_COMPLETION_LOCK_TIME has passed.
LockTimeout(c) ==
    /\ completing[c]
    /\ Released(c)
    /\ UNCHANGED <<open, counted, locked, used, pay, orders, thread, overlapped>>

\* The gateway reports the end of a refund that it had accepted.
RefundArrives(c, p) ==
    /\ pay[c][p].refunding > 0 /\ pay[c][p].held > 0
    /\ pay' = [pay EXCEPT ![c][p].held = Pos(@ - pay[c][p].refunding),
                          ![c][p].active = @ /\ pay[c][p].held > pay[c][p].refunding,
                          ![c][p].answer = Known(@)]
    /\ UNCHANGED <<open, counted, completing, locked, used, orders, thread, overlapped>>

(***************************************************************************)
(* The gateway reports what has become of a payment it had answered with   *)
(* PENDING.  It has taken or authorized the money, which is to be given    *)
(* back when the payment is no longer active                               *)
(* (try_void_or_refund_inactive_payment); or nothing comes of it and the   *)
(* payment is cancelled.  The completion that a report starts for a        *)
(* payment without an order is a thread like the others.                   *)
(***************************************************************************)
PendingReported(c, p) ==
    LET row == pay[c][p] IN
    /\ row.answer = "pending"
    /\ \/ /\ row.held < MaxHeld
          /\ \E taken \in {Captured(row), Authorized(row)} :
                \E new \in IF row.active THEN {taken} ELSE Refunded(taken) :
                    pay' = [pay EXCEPT ![c][p] = new]
       \/ row.active /\ pay' = [pay EXCEPT ![c][p].active = FALSE]
    /\ UNCHANGED <<open, counted, completing, locked, used, orders, thread, overlapped>>

\* delete_expired_checkouts: the checkout goes, its voucher stays counted.
Expire(c) ==
    /\ open[c] /\ Unlocked(c)
    /\ open' = [open EXCEPT ![c] = FALSE]
    /\ UNCHANGED <<counted, completing, locked, used, pay, orders, thread, overlapped>>

\* A thread is killed: its open transaction is rolled back.
Kill(t) ==
    /\ Killing /\ ~At(t, "idle")
    /\ Done(t)
    /\ locked' = [c \in Checkouts |-> IF locked[c] = t THEN NoThread ELSE locked[c]]
    /\ UNCHANGED <<open, counted, completing, used, pay, orders, overlapped>>

PaymentFlow(t) ==
    \/ LockCheckout(t) \/ RefusePrepare(t) \/ FailRefund(t) \/ FailTaxes(t)
    \/ Prepare(t)
    \/ Charge(t) \/ Decline(t) \/ Deactivated(t)
    \/ AskCustomer(t) \/ GiveUp(t) \/ FailOrder(t) \/ FinishOrder(t)

TransactionFlow(t) ==
    ValidateVoucher(t) \/ CountVoucher(t) \/ CreateOrder(t) \/ FailCreate(t)

Next ==
    \/ \E t \in Threads :
          \/ \E c \in Checkouts, flow \in Flows : Begin(t, c, flow)
          \/ PaymentFlow(t) \/ TransactionFlow(t) \/ FindOrder(t) \/ Kill(t)
    \/ \E c \in Checkouts : CreatePayment(c) \/ LockTimeout(c) \/ Expire(c)
    \/ \E c \in Checkouts, p \in Payments :
          RefundArrives(c, p) \/ PendingReported(c, p)

Spec == Init /\ [][Next]_vars

-----------------------------------------------------------------------------
TypeOK ==
    /\ open \in [Checkouts -> BOOLEAN] /\ counted \in [Checkouts -> BOOLEAN]
    /\ completing \in [Checkouts -> BOOLEAN]
    /\ overlapped \in [Checkouts -> BOOLEAN]
    /\ locked \in [Checkouts -> Threads \cup {NoThread}]
    /\ used \in Nat
    /\ pay \in [Checkouts -> [Payments -> PaymentRows]]
    /\ orders \in [Checkouts -> SUBSET OrderRecords]
    /\ thread \in [Threads -> ThreadStates]

\* However many threads complete a checkout, with whatever flow, it becomes
\* at most one order, and is gone once it has.
OneOrder ==
    \A c \in Checkouts :
        /\ Cardinality(orders[c]) <= 1
        /\ orders[c] # {} => ~open[c]

\* No payment is missing: whatever was created for a checkout that became
\* an order is assigned to the order (the comment in checkoutPaymentCreate).
PaymentsAssigned ==
    \A c \in Checkouts, p \in Payments :
        orders[c] # {} /\ pay[c][p].made => pay[c][p].ordered

\* Completions and refusals of other threads leave the money of an order
\* alone: it is neither charged again nor given back.  Only the gateway's
\* report on a payment that was PENDING may still change it.
OrderKeepsPayment ==
    [][\A c \in Checkouts, p \in Payments :
          pay[c][p].ordered /\ pay[c][p].refunding = 0
            => pay'[c][p].held = pay[c][p].held \/ PendingReported(c, p)]_vars

WithVoucher(c) == \E o \in orders[c] : o.voucher
Counting(c) == IF (counted[c] /\ open[c]) \/ WithVoucher(c) THEN 1 ELSE 0

\* Attempts that follow each other on a checkout, failing, killed or
\* retried at any step, never leave a use of the voucher uncounted.
VoucherHeld ==
    (\A c \in Checkouts : ~overlapped[c])
        => used >= SumOf([c \in Checkouts |-> Counting(c)], Checkouts)

\* The payment holds money; or the gateway has accepted it with PENDING and
\* not reported the money yet, or reported it when the payment was no longer
\* active, and then gives it back.
Backed(row) ==
    \/ row.held > 0
    \/ row.answer = "pending"
    \/ row.answer = "reported" /\ ~row.active

(***************************************************************************)
(* After such attempts, an order of the payment flow holds its money: no   *)
(* order rests on a payment that was declined, is waiting for the customer *)
(* or was given back.  complete_checkout does not wait for the money of a  *)
(* payment that the gateway has accepted with PENDING: that order exists   *)
(* before the money does.                                                  *)
(***************************************************************************)
OrderPaid ==
    \A c \in Checkouts :
        ~overlapped[c] /\ (\E o \in orders[c] : o.flow = "payment")
            => \E p \in Payments : pay[c][p].ordered /\ Backed(pay[c][p])
=============================================================================
