----------------------- MODULE CheckoutCompleteProofs -----------------------
(***************************************************************************)
(* For any checkouts, threads and payments: a checkout becomes at most one *)
(* order, with all of its payments, and the money of an order is left      *)
(* alone.                                                                  *)
(***************************************************************************)
EXTENDS CheckoutComplete, QuantityFacts

\* An order closes its checkout; there is one at most.  A payment that is
\* assigned to an order belongs to a checkout that has become one, and one
\* payment of a checkout at most is active.
RowOK(c) ==
    /\ orders[c] # {} => ~open[c]
    /\ orders[c] = {} \/ \E o \in OrderRecords : orders[c] = {o}
    /\ \A p \in Payments :
          /\ pay[c][p].active => pay[c][p].made
          /\ pay[c][p].ordered => orders[c] # {}
          /\ orders[c] # {} /\ pay[c][p].made => pay[c][p].ordered
          /\ \A q \in Payments : pay[c][p].active /\ pay[c][q].active => p = q
RowsOK == \A c \in Checkouts : RowOK(c)

\* A thread in its first transaction holds the lock of a checkout that is
\* still there; in the others it has a payment.
ThreadOK(t) ==
    /\ At(t, "prepare") => locked[Of(t)] = t /\ open[Of(t)]
    /\ thread[t].pc \in {"process", "finish"} =>
          thread[t].payment \in Payments /\ pay[Of(t)][thread[t].payment].made
ThreadsOK == \A t \in Threads : ThreadOK(t)

\* Every checkout that says so has a use of the voucher.
Flags == [c \in Checkouts |-> IF counted[c] THEN 1 ELSE 0]
UsesCounted == used >= SumOf(Flags, Checkouts)

Inv == TypeOK /\ RowsOK /\ ThreadsOK /\ UsesCounted

-----------------------------------------------------------------------------
(***************************************************************************)
(* Lemmas about the operators.                                             *)
(***************************************************************************)
LEMMA IdleType == Idle \in ThreadStates
BY CheckoutsAssumption DEF Idle, ThreadStates, Steps

\* A thread moves to a new state and the others stay where they are.
LEMMA MoveFacts ==
    ASSUME TypeOK, NEW t \in Threads, NEW s \in ThreadStates, Move(t, s)
    PROVE  /\ thread' \in [Threads -> ThreadStates]
           /\ thread'[t] = s
           /\ \A u \in Threads : u # t => thread'[u] = thread[u]
BY DEF TypeOK, Move

\* gateway.payment_refund_or_void touches what a payment holds, not whose it is.
LEMMA RefundedFacts ==
    ASSUME NEW row \in PaymentRows, NEW new \in Refunded(row)
    PROVE  /\ new \in PaymentRows
           /\ new.made = row.made /\ new.ordered = row.ordered
           /\ new.active => row.active
<1>1. \/ new = row
      \/ new = [row EXCEPT !.held = 0, !.active = FALSE]
      \/ new = [row EXCEPT !.refunding = row.held]
  BY DEF Refunded
<1>2. CASE new = row
  BY <1>2
<1>3. CASE new = [row EXCEPT !.held = 0, !.active = FALSE]
  BY <1>3 DEF PaymentRows
<1>4. CASE new = [row EXCEPT !.refunding = row.held]
  BY <1>4 DEF PaymentRows
<1> QED BY <1>1, <1>2, <1>3, <1>4

\* The answer PENDING, a deactivation and the end of a refund change a payment.
Pended(row) == [row EXCEPT !.answer = "pending"]
Passive(row) == [row EXCEPT !.active = FALSE]
Arrived(row) == [row EXCEPT !.held = Pos(row.held - row.refunding),
                            !.active = row.active /\ row.held > row.refunding,
                            !.answer = Known(row.answer)]

LEMMA CapturedFacts ==
    ASSUME NEW row \in PaymentRows
    PROVE  /\ Captured(row) \in PaymentRows
           /\ Captured(row).made = row.made /\ Captured(row).ordered = row.ordered
           /\ Captured(row).active = row.active
           /\ Captured(row).refunding = row.refunding
           /\ Captured(row).held > 0
           /\ Captured(row).answer = Known(row.answer)
<1> DEFINE k == Known(row.answer)  h == row.held + 1
<1>1. k \in Answers
  BY DEF Known, Answers, PaymentRows
<1>2. h \in Nat /\ h > 0
  BY DEF PaymentRows
<1>3. Captured(row) = [row EXCEPT !.held = h, !.answer = k]
  BY DEF Captured
<1>4. Captured(row).answer = k
  BY <1>3 DEF PaymentRows
<1> HIDE DEF k, h
<1>5. Captured(row) \in PaymentRows
  BY <1>1, <1>2, <1>3 DEF PaymentRows
<1>6. /\ Captured(row).made = row.made /\ Captured(row).ordered = row.ordered
      /\ Captured(row).active = row.active
      /\ Captured(row).refunding = row.refunding
      /\ Captured(row).held = h
  BY <1>3 DEF PaymentRows
<1> QED BY <1>2, <1>4, <1>5, <1>6 DEF k

LEMMA MoneyFacts ==
    ASSUME NEW row \in PaymentRows,
           NEW new \in {Authorized(row), Captured(row), Pended(row), Passive(row),
                        Arrived(row)}
    PROVE  /\ new \in PaymentRows
           /\ new.made = row.made /\ new.ordered = row.ordered
           /\ new.active => row.active
           /\ new.refunding = row.refunding
<1>1. Known(row.answer) \in Answers
  BY DEF Known, Answers, PaymentRows
<1>2. CASE new = Authorized(row)
  BY <1>2 DEF Authorized, PaymentRows
<1>3. CASE new = Captured(row)
  BY <1>3, CapturedFacts
<1>4. CASE new = Pended(row)
  BY <1>4 DEF Pended, Answers, PaymentRows
<1>5. CASE new = Passive(row)
  BY <1>5 DEF Passive, PaymentRows
<1>6. CASE new = Arrived(row)
  <2>1. Pos(row.held - row.refunding) \in Nat
    BY DEF PaymentRows, Pos
  <2>2. CASE row.active /\ row.held > row.refunding
    <3>1. new = [row EXCEPT !.held = Pos(row.held - row.refunding), !.active = TRUE,
                            !.answer = Known(row.answer)]
      BY <1>6, <2>2 DEF Arrived
    <3> QED BY <1>1, <2>1, <2>2, <3>1 DEF PaymentRows
  <2>3. CASE ~(row.active /\ row.held > row.refunding)
    <3>1. new = [row EXCEPT !.held = Pos(row.held - row.refunding), !.active = FALSE,
                            !.answer = Known(row.answer)]
      BY <1>6, <2>3 DEF Arrived
    <3> QED BY <1>1, <2>1, <3>1 DEF PaymentRows
  <2> QED BY <2>2, <2>3
<1> QED BY <1>2, <1>3, <1>4, <1>5, <1>6

(***************************************************************************)
(* What the gateway's report on a pending payment makes of the row.        *)
(***************************************************************************)
Reported(row) ==
    {Passive(row)} \cup
    UNION {IF row.active THEN {taken} ELSE Refunded(taken) :
              taken \in {Captured(row), Authorized(row)}}

LEMMA ReportedFacts ==
    ASSUME NEW row \in PaymentRows, NEW new \in Reported(row)
    PROVE  /\ new \in PaymentRows
           /\ new.made = row.made /\ new.ordered = row.ordered
           /\ new.active => row.active
<1>1. CASE new \in {Passive(row), Captured(row), Authorized(row)}
  BY <1>1, MoneyFacts
<1>2. ASSUME NEW taken \in {Captured(row), Authorized(row)}, new \in Refunded(taken)
      PROVE  /\ new \in PaymentRows
             /\ new.made = row.made /\ new.ordered = row.ordered
             /\ new.active => row.active
  <2>1. /\ taken \in PaymentRows
        /\ taken.made = row.made /\ taken.ordered = row.ordered
        /\ taken.active => row.active
    BY MoneyFacts
  <2> QED BY <1>2, <2>1, RefundedFacts
<1> QED BY <1>1, <1>2 DEF Reported

(***************************************************************************)
(* A payment that an order may rest on: the money is there or on its way,  *)
(* or the payment is known to be refunded, and no order is made of it; and *)
(* one that an order rests on.  Neither the customer nor the gateway turns *)
(* a payment into one that is not.                                         *)
(***************************************************************************)
Sound(row) == Backed(row) \/ row.refunding > 0

Secure(row) ==
    Backed(row) /\ (row.refunding = 0 \/ (row.answer = "reported" /\ ~row.active))

LEMMA PassiveKeeps ==
    ASSUME NEW row \in PaymentRows
    PROVE  /\ Sound(row) => Sound(Passive(row))
           /\ Secure(row) => Secure(Passive(row))
<1>1. /\ Passive(row).held = row.held /\ Passive(row).refunding = row.refunding
      /\ Passive(row).answer = row.answer /\ ~Passive(row).active
  BY DEF Passive, PaymentRows
<1> QED BY <1>1 DEF Sound, Secure, Backed

LEMMA ArrivedKeeps ==
    ASSUME NEW row \in PaymentRows, row.refunding > 0
    PROVE  /\ Sound(Arrived(row))
           /\ Secure(row) => Secure(Arrived(row))
<1>1. /\ Arrived(row).refunding = row.refunding
      /\ Arrived(row).answer = Known(row.answer)
      /\ Arrived(row).active => row.active
  <2> DEFINE h == Pos(row.held - row.refunding)
             a == row.active /\ row.held > row.refunding
             k == Known(row.answer)
  <2>1. Arrived(row) = [row EXCEPT !.held = h, !.active = a, !.answer = k]
    BY DEF Arrived
  <2>2. a => row.active
    OBVIOUS
  <2> HIDE DEF h, a
  <2>3. /\ Arrived(row).refunding = row.refunding
        /\ Arrived(row).active = a
    BY <2>1 DEF PaymentRows
  <2>4. Arrived(row).answer = k
    BY <2>1 DEF PaymentRows
  <2> QED BY <2>2, <2>3, <2>4
<1>2. row.refunding # 0
  BY DEF PaymentRows
<1> QED BY <1>1, <1>2 DEF Sound, Secure, Backed, Known

LEMMA ReportedKeeps ==
    ASSUME NEW row \in PaymentRows, row.answer = "pending", NEW new \in Reported(row)
    PROVE  /\ Sound(new)
           /\ Secure(row) => Secure(new)
<1>1. CASE new = Passive(row)
  BY <1>1, PassiveKeeps DEF Sound, Backed
<1>2. /\ Captured(row) \in PaymentRows
      /\ Captured(row).held > 0 /\ Captured(row).answer = "reported"
      /\ Captured(row).active = row.active /\ Captured(row).refunding = row.refunding
  BY CapturedFacts DEF Known
<1>3. CASE row.active /\ new = Captured(row)
  BY <1>2, <1>3 DEF Sound, Secure, Backed
<1>4. CASE ~row.active /\ new \in Refunded(Captured(row))
  <2>1. \/ new = Captured(row)
        \/ new = [Captured(row) EXCEPT !.held = 0, !.active = FALSE]
        \/ new = [Captured(row) EXCEPT !.refunding = Captured(row).held]
    BY <1>4 DEF Refunded
  <2>2. new.answer = "reported" /\ ~new.active
    BY <1>2, <1>4, <2>1 DEF PaymentRows
  <2> QED BY <2>2 DEF Sound, Secure, Backed
<1>5. CASE new = Authorized(row) \/ new \in Refunded(Authorized(row))
  <2>1. /\ Authorized(row).held > 0 /\ Authorized(row).answer = "pending"
        /\ Authorized(row).refunding = row.refunding
    BY DEF Authorized, PaymentRows
  <2>2. new = Authorized(row)
    BY <1>5, <2>1 DEF Refunded
  <2> QED BY <2>1, <2>2 DEF Sound, Secure, Backed
<1> QED BY <1>1, <1>3, <1>4, <1>5 DEF Reported

\* One payment at most is active, so get_last_active_payment finds that one.
LEMMA LastActiveFacts ==
    ASSUME TypeOK, RowsOK, NEW c \in Checkouts
    PROVE  /\ LastActive(c) \in Payments \cup {NoPayment}
           /\ LastActive(c) # NoPayment =>
                 LastActive(c) \in Payments /\ pay[c][LastActive(c)].active
<1> DEFINE active == {p \in Payments : pay[c][p].active}
<1>1. CASE active = {}
  BY <1>1 DEF LastActive
<1>2. CASE active # {}
  <2>1. PICK p \in active : TRUE
    BY <1>2
  <2>2. \A q \in active : q <= p
    BY <2>1 DEF RowsOK, RowOK, Payments
  <2>3. LastActive(c) = CHOOSE r \in active : \A q \in active : q <= r
    BY <1>2 DEF LastActive
  <2>4. LastActive(c) \in active
    BY <2>1, <2>2, <2>3
  <2> QED BY <2>4
<1> QED BY <1>1, <1>2

\* The rows of all payments change as a refund changes them, or not at all.
Tame ==
    /\ pay' \in [Checkouts -> [Payments -> PaymentRows]]
    /\ \A c \in Checkouts, p \in Payments :
          /\ pay'[c][p].made = pay[c][p].made
          /\ pay'[c][p].ordered = pay[c][p].ordered
          /\ pay'[c][p].active => pay[c][p].active

\* So does giving back the payments of a checkout.
LEMMA GivenBackFacts ==
    ASSUME TypeOK, NEW c \in Checkouts, NEW p \in Payments \cup {NoPayment},
           \E rows \in GivenBack(c, p) : pay' = [pay EXCEPT ![c] = rows]
    PROVE  /\ Tame
           /\ \A d \in Checkouts : d # c => pay'[d] = pay[d]
<1>1. PICK rows \in GivenBack(c, p) : pay' = [pay EXCEPT ![c] = rows]
  OBVIOUS
<1>2. pay[c] \in [Payments -> PaymentRows]
  BY DEF TypeOK
<1>3. /\ rows \in [Payments -> PaymentRows]
      /\ \A q \in Payments : rows[q] = pay[c][q] \/ rows[q] \in Refunded(pay[c][q])
  <2>1. CASE p = NoPayment
    BY <1>1, <1>2, <2>1 DEF GivenBack
  <2>2. CASE p # NoPayment
    <3>1. PICK row \in Refunded(pay[c][p]) : rows = [pay[c] EXCEPT ![p] = row]
      BY <1>1, <2>2 DEF GivenBack
    <3>2. row \in PaymentRows
      BY <1>2, <2>2, RefundedFacts
    <3> QED BY <1>2, <2>2, <3>1, <3>2
  <2> QED BY <2>1, <2>2
<1>4. pay' \in [Checkouts -> [Payments -> PaymentRows]]
  BY <1>1, <1>3 DEF TypeOK
<1>5. \A d \in Checkouts : d # c => pay'[d] = pay[d]
  BY <1>1 DEF TypeOK
<1>6. pay'[c] = rows
  BY <1>1 DEF TypeOK
<1>7. ASSUME NEW q \in Payments
      PROVE  /\ rows[q].made = pay[c][q].made
             /\ rows[q].ordered = pay[c][q].ordered
             /\ rows[q].active => pay[c][q].active
  BY <1>2, <1>3, RefundedFacts
<1> QED BY <1>4, <1>5, <1>6, <1>7 DEF Tame

LEMMA TameRows ==
    ASSUME RowsOK, Tame, UNCHANGED orders,
           \A c \in Checkouts : open'[c] => open[c]
    PROVE  RowsOK'
BY DEF RowsOK, RowOK, Tame

\* A use that is counted, or released by the checkout that counted it.
LEMMA FlagsSum ==
    ASSUME TypeOK
    PROVE  SumOf(Flags, Checkouts) \in Nat
<1>1. \A c \in Checkouts : Flags[c] \in Int
  BY DEF Flags
<1> QED BY <1>1, SumType, CheckoutsAssumption

LEMMA CountUsageFacts ==
    ASSUME TypeOK, UsesCounted, NEW c \in Checkouts, NEW flag \in BOOLEAN,
           flag => counted[c], CountUsage(c, flag)
    PROVE  /\ UsesCounted' /\ used' \in Nat
           /\ counted' \in [Checkouts -> BOOLEAN]
           /\ counted'[c] /\ \A d \in Checkouts : d # c => counted'[d] = counted[d]
<1>1. /\ counted' \in [Checkouts -> BOOLEAN]
      /\ counted'[c] /\ \A d \in Checkouts : d # c => counted'[d] = counted[d]
  BY DEF TypeOK, CountUsage
<1>2. used' \in Nat
  BY DEF TypeOK, CountUsage
<1>3. UsesCounted'
  <2>1. \A d \in Checkouts : Flags[d] \in Nat /\ Flags'[d] \in Nat
    BY DEF Flags
  <2>2. \A d \in Checkouts \ {c} : Flags'[d] = Flags[d]
    BY <1>1 DEF Flags
  <2>3. Flags'[c] = 1 /\ Flags[c] = IF counted[c] THEN 1 ELSE 0
    BY <1>1 DEF Flags
  <2>4. SumOf(Flags', Checkouts) = SumOf(Flags, Checkouts) + (Flags'[c] - Flags[c])
    BY <2>1, <2>2, <2>3, SumIncrease, CheckoutsAssumption
  <2> QED BY <2>3, <2>4, FlagsSum DEF UsesCounted, CountUsage, TypeOK
<1> QED BY <1>1, <1>2, <1>3

LEMMA UncountFacts ==
    ASSUME TypeOK, UsesCounted, NEW c \in Checkouts,
           counted' = [counted EXCEPT ![c] = FALSE],
           used' = IF counted[c] THEN used - 1 ELSE used
    PROVE  /\ UsesCounted' /\ used' \in Nat
<1>1. \A d \in Checkouts : Flags[d] \in Nat /\ Flags'[d] \in Nat
  BY DEF Flags
<1>2. \A d \in Checkouts \ {c} : Flags[d] = Flags'[d]
  BY DEF Flags, TypeOK
<1>3. Flags'[c] = 0 /\ Flags[c] = IF counted[c] THEN 1 ELSE 0
  BY DEF Flags, TypeOK
<1>4. SumOf(Flags, Checkouts) = SumOf(Flags', Checkouts) + (Flags[c] - Flags'[c])
  BY <1>1, <1>2, <1>3, SumIncrease, CheckoutsAssumption
<1>5. SumOf(Flags', Checkouts) \in Nat
  BY <1>1, SumType, CheckoutsAssumption
<1> QED BY <1>3, <1>4, <1>5 DEF UsesCounted, TypeOK

\* What a thread does to its own checkout leaves the others as they are.
LEMMA ThreadsKept ==
    ASSUME TypeOK, ThreadsOK, NEW t \in Threads, ThreadOK(t)',
           \A u \in Threads : u # t => thread'[u] = thread[u],
           \A c \in Checkouts : locked[c] \notin {t, NoThread} =>
                                   locked'[c] = locked[c] /\ open'[c] = open[c],
           \A c \in Checkouts, p \in Payments : pay[c][p].made => pay'[c][p].made
    PROVE  ThreadsOK'
<1> SUFFICES ASSUME NEW u \in Threads, u # t
             PROVE  ThreadOK(u)'
  BY DEF ThreadsOK
<1>1. thread'[u] = thread[u] /\ thread[u].checkout \in Checkouts /\ ThreadOK(u)
  BY DEF TypeOK, ThreadStates, ThreadsOK
<1> QED BY <1>1, ThreadsAssumption DEF ThreadOK, At, Of

\* The same for the actions of no thread.
LEMMA ThreadsKeptByOthers ==
    ASSUME TypeOK, ThreadsOK, UNCHANGED <<thread, locked>>,
           \A c \in Checkouts : locked[c] # NoThread => open'[c] = open[c],
           \A c \in Checkouts, p \in Payments : pay[c][p].made => pay'[c][p].made
    PROVE  ThreadsOK'
<1> SUFFICES ASSUME NEW u \in Threads
             PROVE  ThreadOK(u)'
  BY DEF ThreadsOK
<1>1. thread[u].checkout \in Checkouts /\ ThreadOK(u)
  BY DEF TypeOK, ThreadStates, ThreadsOK
<1> QED BY <1>1, ThreadsAssumption DEF ThreadOK, At, Of

LEMMA SameUses ==
    ASSUME UsesCounted, UNCHANGED <<counted, used>>
    PROVE  UsesCounted'
BY DEF UsesCounted, Flags

LEMMA SamePay ==
    ASSUME TypeOK, UNCHANGED pay
    PROVE  Tame
BY DEF Tame, TypeOK

\* A thread that ends leaves no obligation.
LEMMA DoneFacts ==
    ASSUME TypeOK, NEW t \in Threads, Done(t)
    PROVE  /\ thread' \in [Threads -> ThreadStates]
           /\ ThreadOK(t)'
           /\ thread'[t] = Idle
           /\ \A u \in Threads : u # t => thread'[u] = thread[u]
<1>1. /\ thread' \in [Threads -> ThreadStates]
      /\ thread'[t] = Idle
      /\ \A u \in Threads : u # t => thread'[u] = thread[u]
  BY IdleType, MoveFacts DEF Done
<1> QED BY <1>1 DEF ThreadOK, At, Idle

\* A payment is assigned to an order and otherwise left alone.
Assigned(c, p) ==
    /\ pay'[c][p].made = pay[c][p].made /\ pay'[c][p].active = pay[c][p].active
    /\ pay'[c][p].held = pay[c][p].held
    /\ pay'[c][p].refunding = pay[c][p].refunding
    /\ pay'[c][p].answer = pay[c][p].answer
    /\ pay'[c][p].ordered <=> (pay[c][p].ordered \/ pay[c][p].made)

\* An order is created with every payment of the checkout.
LEMMA PlaceOrderFacts ==
    ASSUME TypeOK, RowsOK, NEW c \in Checkouts, open[c],
           NEW flow \in {"payment", "transaction"}, NEW voucher \in BOOLEAN,
           PlaceOrder(c, flow, voucher)
    PROVE  /\ open' \in [Checkouts -> BOOLEAN] /\ ~open'[c]
           /\ \A d \in Checkouts : d # c => open'[d] = open[d]
           /\ orders' \in [Checkouts -> SUBSET OrderRecords]
           /\ orders'[c] = {[id |-> 0, flow |-> flow, voucher |-> voucher]}
           /\ \A d \in Checkouts : d # c => orders'[d] = orders[d] /\ pay'[d] = pay[d]
           /\ pay' \in [Checkouts -> [Payments -> PaymentRows]]
           /\ \A p \in Payments : Assigned(c, p)
           /\ RowsOK'
<1> DEFINE o == [id |-> 0, flow |-> flow, voucher |-> voucher]
           rows == [p \in Payments |-> [pay[c][p] EXCEPT !.ordered = pay[c][p].ordered \/ pay[c][p].made]]
<1>1. /\ open' \in [Checkouts -> BOOLEAN] /\ ~open'[c]
      /\ \A d \in Checkouts : d # c => open'[d] = open[d]
  BY DEF TypeOK, PlaceOrder
<1>2. orders[c] = {} /\ Cardinality(orders[c]) = 0
  BY FS_EmptySet DEF RowsOK, RowOK
<1>3. orders' = [orders EXCEPT ![c] = {o}]
  BY <1>2 DEF PlaceOrder, TypeOK
<1>4. o \in OrderRecords
  BY DEF OrderRecords
<1>5. /\ orders' \in [Checkouts -> SUBSET OrderRecords]
      /\ orders'[c] = {o}
      /\ \A d \in Checkouts : d # c => orders'[d] = orders[d]
  BY <1>3, <1>4 DEF TypeOK
<1>6. pay' = [pay EXCEPT ![c] = rows]
  BY DEF PlaceOrder, TypeOK
<1>7. ASSUME NEW p \in Payments
      PROVE  /\ rows[p] \in PaymentRows
             /\ rows[p].made = pay[c][p].made /\ rows[p].active = pay[c][p].active
             /\ rows[p].held = pay[c][p].held
             /\ rows[p].refunding = pay[c][p].refunding
             /\ rows[p].answer = pay[c][p].answer
             /\ rows[p].ordered <=> (pay[c][p].ordered \/ pay[c][p].made)
  <2>1. pay[c][p] \in PaymentRows
    BY DEF TypeOK
  <2> QED BY <2>1 DEF PaymentRows
<1>8. /\ pay' \in [Checkouts -> [Payments -> PaymentRows]]
      /\ pay'[c] = rows
      /\ \A d \in Checkouts : d # c => pay'[d] = pay[d]
  <2>1. rows \in [Payments -> PaymentRows]
    BY <1>7
  <2> QED BY <1>6, <2>1 DEF TypeOK
<1> HIDE DEF o, rows
<1>9. RowsOK'
  <2>1. ASSUME NEW d \in Checkouts, d # c
        PROVE  open'[d] = open[d] /\ orders'[d] = orders[d] /\ pay'[d] = pay[d]
    BY <1>1, <1>5, <1>8, <2>1
  <2>2. orders'[c] # {} /\ \E x \in OrderRecords : orders'[c] = {x}
    BY <1>4, <1>5
  <2>3. \A p \in Payments :
           /\ pay'[c][p].active => pay'[c][p].made
           /\ pay'[c][p].made => pay'[c][p].ordered
           /\ \A q \in Payments : pay'[c][p].active /\ pay'[c][q].active => p = q
    BY <1>7, <1>8 DEF RowsOK, RowOK
  <2>4. RowOK(c)'
    BY <1>1, <2>2, <2>3 DEF RowOK
  <2>5. ASSUME NEW d \in Checkouts, d # c
        PROVE  RowOK(d)'
    BY <2>1, <2>5 DEF RowsOK, RowOK
  <2> QED BY <2>4, <2>5 DEF RowsOK
<1>10. \A p \in Payments : Assigned(c, p)
  BY <1>7, <1>8 DEF Assigned
<1> QED BY <1>1, <1>5, <1>8, <1>9, <1>10 DEF o

-----------------------------------------------------------------------------
(***************************************************************************)
(* Every action preserves Inv.                                             *)
(***************************************************************************)
LEMMA OfType ==
    ASSUME TypeOK, NEW t \in Threads
    PROVE  Of(t) \in Checkouts /\ thread[t] \in ThreadStates
BY DEF TypeOK, ThreadStates, Of

LEMMA BeginStep ==
    ASSUME Inv, NEW t \in Threads, NEW c \in Checkouts, NEW flow \in Flows, Begin(t, c, flow)
    PROVE  Inv'
<1> DEFINE state == [Idle EXCEPT
                   !.pc = IF flow = "payment" THEN "lock" ELSE "validate",
                   !.checkout = c, !.seen = counted[c]]
<1>1. state \in ThreadStates /\ state.pc \in {"lock", "validate"}
  BY IdleType DEF Inv, TypeOK, ThreadStates, Steps, Idle
<1>3. /\ thread' \in [Threads -> ThreadStates]
      /\ thread'[t] = state
      /\ \A u \in Threads : u # t => thread'[u] = thread[u]
  BY <1>1, MoveFacts DEF Inv, Begin
<1> HIDE DEF state
<1>4. ThreadOK(t)'
  BY <1>1, <1>3 DEF ThreadOK, At
<1>6. Tame
  BY SamePay DEF Inv, Begin
<1>7. UsesCounted' /\ counted' \in [Checkouts -> BOOLEAN] /\ used' \in Nat
  BY SameUses DEF Inv, TypeOK, Begin
<1>8. TypeOK'
  BY <1>1, <1>3, <1>4, <1>6, <1>7 DEF Inv, TypeOK, Tame, Begin, Released
<1>9. RowsOK'
  BY <1>6, TameRows DEF Inv, Begin
<1>10. ThreadsOK'
  <2>1. \A d \in Checkouts : locked[d] \notin {t, NoThread} =>
                                locked'[d] = locked[d] /\ open'[d] = open[d]
    BY <1>1 DEF Inv, TypeOK, Begin, Unlocked
  <2> QED BY <1>3, <1>4, <1>6, <2>1, ThreadsKept DEF Inv, Tame
<1> QED BY <1>7, <1>8, <1>9, <1>10 DEF Inv

LEMMA LockCheckoutStep ==
    ASSUME Inv, NEW t \in Threads, LockCheckout(t)
    PROVE  Inv'
<1>1. Of(t) \in Checkouts /\ thread[t] \in ThreadStates
  BY OfType DEF Inv
<1> DEFINE c == Of(t)
           state == [thread[t] EXCEPT !.pc = "prepare", !.voucher = Applicable(counted[c])]
<1>2. /\ state \in ThreadStates
      /\ state.pc = "prepare" /\ state.checkout = c
  BY <1>1 DEF Inv, TypeOK, ThreadStates, Steps, Applicable, Of
<1>3. /\ thread' \in [Threads -> ThreadStates] /\ ThreadOK(t)'
      /\ \A u \in Threads : u # t => thread'[u] = thread[u]
      /\ locked' \in [Checkouts -> Threads \cup {NoThread}]
      /\ \A d \in Checkouts : locked[d] # NoThread => locked'[d] = locked[d]
  <2>1. CASE open[c] /\ locked' = [locked EXCEPT ![c] = t] /\ Move(t, state)
    <3> HIDE DEF state
    <3>1. /\ thread' \in [Threads -> ThreadStates] /\ thread'[t] = state
          /\ \A u \in Threads : u # t => thread'[u] = thread[u]
      BY <1>2, <2>1, MoveFacts DEF Inv
    <3>2. /\ locked' \in [Checkouts -> Threads \cup {NoThread}] /\ locked'[c] = t
          /\ \A d \in Checkouts : locked[d] # NoThread => locked'[d] = locked[d]
      BY <1>1, <2>1 DEF Inv, TypeOK, LockCheckout, Unlocked
    <3>3. ThreadOK(t)'
      BY <1>2, <2>1, <3>1, <3>2 DEF ThreadOK, At, Of, LockCheckout
    <3> QED BY <3>1, <3>2, <3>3
  <2>2. CASE ~open[c] /\ Done(t) /\ UNCHANGED locked
    BY <2>2, DoneFacts DEF Inv, TypeOK
  <2> QED BY <2>1, <2>2 DEF LockCheckout
<1>6. Tame
  BY SamePay DEF Inv, LockCheckout
<1>7. UsesCounted' /\ counted' \in [Checkouts -> BOOLEAN] /\ used' \in Nat
  BY SameUses DEF Inv, TypeOK, LockCheckout
<1>8. TypeOK'
  BY <1>1, <1>3, <1>6, <1>7 DEF Inv, TypeOK, Tame, LockCheckout, Released
<1>9. RowsOK'
  BY <1>6, TameRows DEF Inv, LockCheckout
<1>10. ThreadsOK'
  <2>1. \A d \in Checkouts : locked[d] \notin {t, NoThread} =>
                                locked'[d] = locked[d] /\ open'[d] = open[d]
    BY <1>1 DEF Inv, TypeOK, LockCheckout, Unlocked
  <2> QED BY <1>3, <1>6, <2>1, ThreadsKept DEF Inv, Tame
<1> QED BY <1>7, <1>8, <1>9, <1>10 DEF Inv

LEMMA RefusePrepareStep ==
    ASSUME Inv, NEW t \in Threads, RefusePrepare(t)
    PROVE  Inv'
<1>1. Of(t) \in Checkouts /\ thread[t] \in ThreadStates
  BY OfType DEF Inv
<1>2. /\ thread' \in [Threads -> ThreadStates] /\ ThreadOK(t)'
      /\ \A u \in Threads : u # t => thread'[u] = thread[u]
  BY DoneFacts DEF Inv, RefusePrepare
<1>5. locked[Of(t)] = t
  BY DEF Inv, ThreadsOK, ThreadOK, RefusePrepare
<1>6. Tame
  BY <1>1, LastActiveFacts, GivenBackFacts DEF Inv, RefusePrepare
<1>7. UsesCounted' /\ counted' \in [Checkouts -> BOOLEAN] /\ used' \in Nat
  BY SameUses DEF Inv, TypeOK, RefusePrepare
<1>8. TypeOK'
  BY <1>1, <1>2, <1>6, <1>7 DEF Inv, TypeOK, Tame, RefusePrepare, Released
<1>9. RowsOK'
  BY <1>6, TameRows DEF Inv, RefusePrepare
<1>10. ThreadsOK'
  <2>1. \A d \in Checkouts : locked[d] \notin {t, NoThread} =>
                                locked'[d] = locked[d] /\ open'[d] = open[d]
    BY <1>1, <1>5 DEF Inv, TypeOK, RefusePrepare, Unlocked
  <2> QED BY <1>2, <1>6, <2>1, ThreadsKept DEF Inv, Tame
<1> QED BY <1>7, <1>8, <1>9, <1>10 DEF Inv

LEMMA FailRefundStep ==
    ASSUME Inv, NEW t \in Threads, FailRefund(t)
    PROVE  Inv'
<1>1. Of(t) \in Checkouts /\ thread[t] \in ThreadStates
  BY OfType DEF Inv
<1>2. /\ thread' \in [Threads -> ThreadStates] /\ ThreadOK(t)'
      /\ \A u \in Threads : u # t => thread'[u] = thread[u]
  BY DoneFacts DEF Inv, FailRefund
<1>5. locked[Of(t)] = t
  BY DEF Inv, ThreadsOK, ThreadOK, FailRefund
<1>6. Tame
  BY SamePay DEF Inv, FailRefund
<1>7. UsesCounted' /\ counted' \in [Checkouts -> BOOLEAN] /\ used' \in Nat
  BY SameUses DEF Inv, TypeOK, FailRefund
<1>8. TypeOK'
  BY <1>1, <1>2, <1>6, <1>7 DEF Inv, TypeOK, Tame, FailRefund, Released
<1>9. RowsOK'
  BY <1>6, TameRows DEF Inv, FailRefund
<1>10. ThreadsOK'
  <2>1. \A d \in Checkouts : locked[d] \notin {t, NoThread} =>
                                locked'[d] = locked[d] /\ open'[d] = open[d]
    BY <1>1, <1>5 DEF Inv, TypeOK, FailRefund, Unlocked
  <2> QED BY <1>2, <1>6, <2>1, ThreadsKept DEF Inv, Tame
<1> QED BY <1>7, <1>8, <1>9, <1>10 DEF Inv

LEMMA FailTaxesStep ==
    ASSUME Inv, NEW t \in Threads, FailTaxes(t)
    PROVE  Inv'
<1>1. Of(t) \in Checkouts /\ thread[t] \in ThreadStates
  BY OfType DEF Inv
<1>2. /\ thread' \in [Threads -> ThreadStates] /\ ThreadOK(t)'
      /\ \A u \in Threads : u # t => thread'[u] = thread[u]
  BY DoneFacts DEF Inv, FailTaxes
<1>5. locked[Of(t)] = t
  BY DEF Inv, ThreadsOK, ThreadOK, FailTaxes
<1>6. Tame
  BY <1>1, LastActiveFacts, GivenBackFacts DEF Inv, FailTaxes
<1>7. UsesCounted' /\ counted' \in [Checkouts -> BOOLEAN] /\ used' \in Nat
  BY <1>1, UncountFacts DEF Inv, TypeOK, FailTaxes, ReleaseUsage
<1>8. TypeOK'
  BY <1>1, <1>2, <1>6, <1>7 DEF Inv, TypeOK, Tame, FailTaxes, Released
<1>9. RowsOK'
  BY <1>6, TameRows DEF Inv, FailTaxes
<1>10. ThreadsOK'
  <2>1. \A d \in Checkouts : locked[d] \notin {t, NoThread} =>
                                locked'[d] = locked[d] /\ open'[d] = open[d]
    BY <1>1, <1>5 DEF Inv, TypeOK, FailTaxes, Unlocked
  <2> QED BY <1>2, <1>6, <2>1, ThreadsKept DEF Inv, Tame
<1> QED BY <1>7, <1>8, <1>9, <1>10 DEF Inv

LEMMA PrepareStep ==
    ASSUME Inv, NEW t \in Threads, Prepare(t)
    PROVE  Inv'
<1>1. Of(t) \in Checkouts /\ thread[t] \in ThreadStates
  BY OfType DEF Inv
<1> DEFINE c == Of(t)
           state == [thread[t] EXCEPT !.pc = "process", !.payment = LastActive(c)]
<1>2. /\ state \in ThreadStates
      /\ state.checkout = c /\ state.pc = "process" /\ state.payment = LastActive(c)
  BY <1>1, LastActiveFacts DEF Inv, ThreadStates, Steps, Of
<1>3. /\ thread' \in [Threads -> ThreadStates] /\ thread'[t] = state
      /\ \A u \in Threads : u # t => thread'[u] = thread[u]
  BY <1>2, MoveFacts DEF Inv, Prepare
<1> HIDE DEF state
<1>4. ThreadOK(t)'
  <2>1. LastActive(c) \in Payments /\ pay[c][LastActive(c)].made
    BY <1>1, LastActiveFacts DEF Inv, Prepare, RowsOK, RowOK
  <2> QED BY <1>2, <1>3, <2>1 DEF ThreadOK, At, Of, Prepare
<1>5. locked[Of(t)] = t
  BY DEF Inv, ThreadsOK, ThreadOK, Prepare
<1>6. Tame
  BY SamePay DEF Inv, Prepare
<1>7. UsesCounted' /\ counted' \in [Checkouts -> BOOLEAN] /\ used' \in Nat
  <2>1. counted[c] \in BOOLEAN
    BY <1>1 DEF Inv, TypeOK
  <2> QED BY <1>1, <2>1, CountUsageFacts DEF Inv, Prepare
<1>8. TypeOK'
  BY <1>1, <1>3, <1>4, <1>6, <1>7 DEF Inv, TypeOK, Tame, Prepare, Released
<1>9. RowsOK'
  BY <1>6, TameRows DEF Inv, Prepare
<1>10. ThreadsOK'
  <2>1. \A d \in Checkouts : locked[d] \notin {t, NoThread} =>
                                locked'[d] = locked[d] /\ open'[d] = open[d]
    BY <1>1, <1>5 DEF Inv, TypeOK, Prepare, Unlocked
  <2> QED BY <1>3, <1>4, <1>6, <2>1, ThreadsKept DEF Inv, Tame
<1> QED BY <1>7, <1>8, <1>9, <1>10 DEF Inv

LEMMA FindOrderStep ==
    ASSUME Inv, NEW t \in Threads, FindOrder(t)
    PROVE  Inv'
<1>1. Of(t) \in Checkouts /\ thread[t] \in ThreadStates
  BY OfType DEF Inv
<1>2. /\ thread' \in [Threads -> ThreadStates] /\ ThreadOK(t)'
      /\ \A u \in Threads : u # t => thread'[u] = thread[u]
  BY DoneFacts DEF Inv, FindOrder
<1>6. Tame
  BY SamePay DEF Inv, FindOrder
<1>7. UsesCounted' /\ counted' \in [Checkouts -> BOOLEAN] /\ used' \in Nat
  BY SameUses DEF Inv, TypeOK, FindOrder
<1>8. TypeOK'
  BY <1>1, <1>2, <1>6, <1>7 DEF Inv, TypeOK, Tame, FindOrder, Released
<1>9. RowsOK'
  BY <1>6, TameRows DEF Inv, FindOrder
<1>10. ThreadsOK'
  <2>1. \A d \in Checkouts : locked[d] \notin {t, NoThread} =>
                                locked'[d] = locked[d] /\ open'[d] = open[d]
    BY <1>1 DEF Inv, TypeOK, FindOrder, Unlocked
  <2> QED BY <1>2, <1>6, <2>1, ThreadsKept DEF Inv, Tame
<1> QED BY <1>7, <1>8, <1>9, <1>10 DEF Inv

\* What the gateway's answer makes of the payment.
LEMMA ChargedRow ==
    ASSUME TypeOK, ThreadsOK, NEW t \in Threads, Charge(t)
    PROVE  LET c == Of(t)  p == thread[t].payment
               finish == [thread[t] EXCEPT !.pc = "finish"]
           IN  \/ /\ Move(t, finish)
                  /\ \E row \in {Authorized(pay[c][p]), Captured(pay[c][p]), Pended(pay[c][p])} :
                        pay' = [pay EXCEPT ![c][p] = row]
               \/ Move(t, finish) /\ pay[c][p].held > 0 /\ UNCHANGED pay
               \/ Move(t, [thread[t] EXCEPT !.pc = "finish", !.action = TRUE]) /\ UNCHANGED pay
<1> DEFINE c == Of(t)  p == thread[t].payment  row == pay[c][p]
<1>1. c \in Checkouts /\ p \in Payments
  BY OfType DEF ThreadsOK, ThreadOK, Charge, At
<1>2. [pay EXCEPT ![c][p].answer = "pending"] = [pay EXCEPT ![c][p] = Pended(row)]
  BY <1>1 DEF TypeOK, Pended
<1> QED BY <1>2 DEF Charge, Goto

LEMMA ChargeStep ==
    ASSUME Inv, NEW t \in Threads, Charge(t)
    PROVE  Inv'
<1>1. Of(t) \in Checkouts /\ thread[t] \in ThreadStates
  BY OfType DEF Inv
<1> DEFINE c == Of(t)  p == thread[t].payment
<1>2. p \in Payments /\ pay[c][p] \in PaymentRows /\ pay[c][p].made
  BY <1>1 DEF Inv, ThreadsOK, ThreadOK, Charge, At, TypeOK
<1>3. PICK b \in {thread[t].action, TRUE} :
         Move(t, [thread[t] EXCEPT !.pc = "finish", !.action = b])
  <2>1. thread[t].action = TRUE \/ thread[t].action = FALSE
    BY <1>1 DEF ThreadStates
  <2>2. [thread[t] EXCEPT !.pc = "finish"]
            = [thread[t] EXCEPT !.pc = "finish", !.action = thread[t].action]
    BY <1>1 DEF ThreadStates
  <2> QED BY <2>2 DEF Charge, Goto
<1> DEFINE state == [thread[t] EXCEPT !.pc = "finish", !.action = b]
<1>4. /\ state \in ThreadStates
      /\ state.checkout = c /\ state.pc = "finish" /\ state.payment = p
  BY <1>1 DEF ThreadStates, Steps, Of
<1>5. /\ thread' \in [Threads -> ThreadStates] /\ thread'[t] = state
      /\ \A u \in Threads : u # t => thread'[u] = thread[u]
  BY <1>3, <1>4, MoveFacts DEF Inv
<1> HIDE DEF state
<1>6. Tame
  <2>1. CASE UNCHANGED pay
    BY <2>1, SamePay DEF Inv
  <2>2. ASSUME NEW row \in {Authorized(pay[c][p]), Captured(pay[c][p]), Pended(pay[c][p])},
               pay' = [pay EXCEPT ![c][p] = row]
        PROVE  Tame
    <3> DEFINE old == pay[c][p]
    <3>1. old \in PaymentRows /\ row \in {Authorized(old), Captured(old), Pended(old),
                                         Passive(old), Arrived(old)}
      BY <1>2, <2>2
    <3> HIDE DEF old
    <3>2. /\ row \in PaymentRows
          /\ row.made = old.made /\ row.ordered = old.ordered
          /\ row.active => old.active
      BY <3>1, MoneyFacts
    <3> USE DEF old
    <3> QED BY <1>1, <1>2, <2>2, <3>2 DEF Inv, TypeOK, Tame
  <2> QED BY <2>1, <2>2, ChargedRow DEF Inv
<1>7. ThreadOK(t)'
  BY <1>1, <1>2, <1>4, <1>5, <1>6 DEF ThreadOK, At, Of, Tame
<1>8. UsesCounted'
  BY SameUses DEF Inv, Charge
<1>9. TypeOK'
  BY <1>1, <1>5, <1>6 DEF Inv, TypeOK, Tame, Charge
<1>10. RowsOK'
  BY <1>6, TameRows DEF Inv, Charge
<1>11. ThreadsOK'
  BY <1>5, <1>6, <1>7, ThreadsKept DEF Inv, Tame, Charge
<1> QED BY <1>8, <1>9, <1>10, <1>11 DEF Inv

LEMMA DeclineStep ==
    ASSUME Inv, NEW t \in Threads, Decline(t)
    PROVE  Inv'
<1>1. Of(t) \in Checkouts /\ thread[t] \in ThreadStates
  BY OfType DEF Inv
<1>2. /\ thread' \in [Threads -> ThreadStates] /\ ThreadOK(t)'
      /\ \A u \in Threads : u # t => thread'[u] = thread[u]
  BY DoneFacts DEF Inv, Decline
<1>6. Tame
  BY SamePay DEF Inv, Decline
<1>7. UsesCounted' /\ counted' \in [Checkouts -> BOOLEAN] /\ used' \in Nat
  BY SameUses DEF Inv, TypeOK, Decline
<1>8. TypeOK'
  BY <1>1, <1>2, <1>6, <1>7 DEF Inv, TypeOK, Tame, Decline, Released
<1>9. RowsOK'
  BY <1>6, TameRows DEF Inv, Decline
<1>10. ThreadsOK'
  <2>1. \A d \in Checkouts : locked[d] \notin {t, NoThread} =>
                                locked'[d] = locked[d] /\ open'[d] = open[d]
    BY <1>1 DEF Inv, TypeOK, Decline, Unlocked
  <2> QED BY <1>2, <1>6, <2>1, ThreadsKept DEF Inv, Tame
<1> QED BY <1>7, <1>8, <1>9, <1>10 DEF Inv

LEMMA DeactivatedStep ==
    ASSUME Inv, NEW t \in Threads, Deactivated(t)
    PROVE  Inv'
<1>1. Of(t) \in Checkouts /\ thread[t] \in ThreadStates
  BY OfType DEF Inv
<1>2. /\ thread' \in [Threads -> ThreadStates] /\ ThreadOK(t)'
      /\ \A u \in Threads : u # t => thread'[u] = thread[u]
  BY DoneFacts DEF Inv, Deactivated
<1>6. Tame
  <2> DEFINE c == Of(t)  p == thread[t].payment
  <2>1. p \in Payments /\ pay[c][p] \in PaymentRows
    BY <1>1 DEF Inv, ThreadsOK, ThreadOK, Deactivated, At, TypeOK
  <2>2. PICK row \in Refunded([pay[c][p] EXCEPT !.active = FALSE]) :
           pay' = [pay EXCEPT ![c][p] = row]
    BY <1>1, <2>1 DEF Deactivated, Inv, TypeOK
  <2>3. /\ [pay[c][p] EXCEPT !.active = FALSE] \in PaymentRows
        /\ [pay[c][p] EXCEPT !.active = FALSE].made = pay[c][p].made
        /\ [pay[c][p] EXCEPT !.active = FALSE].ordered = pay[c][p].ordered
        /\ ~[pay[c][p] EXCEPT !.active = FALSE].active
    BY <2>1 DEF PaymentRows
  <2>4. /\ row \in PaymentRows /\ row.made = pay[c][p].made
        /\ row.ordered = pay[c][p].ordered /\ ~row.active
    BY <2>2, <2>3, RefundedFacts
  <2> QED BY <1>1, <2>1, <2>2, <2>4 DEF Inv, TypeOK, Tame
<1>7. UsesCounted' /\ counted' \in [Checkouts -> BOOLEAN] /\ used' \in Nat
  <2>1. counted' \in [Checkouts -> BOOLEAN] /\ \A d \in Checkouts : counted'[d] => counted[d]
    BY <1>1 DEF Inv, TypeOK, Deactivated
  <2>2. \A d \in Checkouts : Flags[d] \in Int /\ Flags'[d] \in Int /\ Flags'[d] <= Flags[d]
    BY <2>1 DEF Flags
  <2>3. SumOf(Flags', Checkouts) <= SumOf(Flags, Checkouts)
    BY <2>2, SumMonotone, CheckoutsAssumption
  <2>4. SumOf(Flags', Checkouts) \in Nat /\ SumOf(Flags, Checkouts) \in Nat
    BY <2>2, SumType, CheckoutsAssumption
  <2> QED BY <2>1, <2>3, <2>4 DEF Inv, TypeOK, UsesCounted, Deactivated
<1>8. TypeOK'
  BY <1>1, <1>2, <1>6, <1>7 DEF Inv, TypeOK, Tame, Deactivated, Released
<1>9. RowsOK'
  BY <1>6, TameRows DEF Inv, Deactivated
<1>10. ThreadsOK'
  <2>1. \A d \in Checkouts : locked[d] \notin {t, NoThread} =>
                                locked'[d] = locked[d] /\ open'[d] = open[d]
    BY <1>1 DEF Inv, TypeOK, Deactivated, Unlocked
  <2> QED BY <1>2, <1>6, <2>1, ThreadsKept DEF Inv, Tame
<1> QED BY <1>7, <1>8, <1>9, <1>10 DEF Inv

LEMMA AskCustomerStep ==
    ASSUME Inv, NEW t \in Threads, AskCustomer(t)
    PROVE  Inv'
<1>1. Of(t) \in Checkouts /\ thread[t] \in ThreadStates
  BY OfType DEF Inv
<1>2. /\ thread' \in [Threads -> ThreadStates] /\ ThreadOK(t)'
      /\ \A u \in Threads : u # t => thread'[u] = thread[u]
  BY DoneFacts DEF Inv, AskCustomer
<1>6. Tame
  BY SamePay DEF Inv, AskCustomer
<1>7. UsesCounted' /\ counted' \in [Checkouts -> BOOLEAN] /\ used' \in Nat
  BY <1>1, UncountFacts DEF Inv, TypeOK, AskCustomer, ReleaseUsage
<1>8. TypeOK'
  BY <1>1, <1>2, <1>6, <1>7 DEF Inv, TypeOK, Tame, AskCustomer, Released
<1>9. RowsOK'
  BY <1>6, TameRows DEF Inv, AskCustomer
<1>10. ThreadsOK'
  <2>1. \A d \in Checkouts : locked[d] \notin {t, NoThread} =>
                                locked'[d] = locked[d] /\ open'[d] = open[d]
    BY <1>1 DEF Inv, TypeOK, AskCustomer, Unlocked
  <2> QED BY <1>2, <1>6, <2>1, ThreadsKept DEF Inv, Tame
<1> QED BY <1>7, <1>8, <1>9, <1>10 DEF Inv

LEMMA GiveUpStep ==
    ASSUME Inv, NEW t \in Threads, GiveUp(t)
    PROVE  Inv'
<1>1. Of(t) \in Checkouts /\ thread[t] \in ThreadStates
  BY OfType DEF Inv
<1>2. /\ thread' \in [Threads -> ThreadStates] /\ ThreadOK(t)'
      /\ \A u \in Threads : u # t => thread'[u] = thread[u]
  BY DoneFacts DEF Inv, GiveUp
<1>6. Tame
  BY SamePay DEF Inv, GiveUp
<1>7. UsesCounted' /\ counted' \in [Checkouts -> BOOLEAN] /\ used' \in Nat
  BY SameUses DEF Inv, TypeOK, GiveUp
<1>8. TypeOK'
  BY <1>1, <1>2, <1>6, <1>7 DEF Inv, TypeOK, Tame, GiveUp, Released
<1>9. RowsOK'
  BY <1>6, TameRows DEF Inv, GiveUp
<1>10. ThreadsOK'
  <2>1. \A d \in Checkouts : locked[d] \notin {t, NoThread} =>
                                locked'[d] = locked[d] /\ open'[d] = open[d]
    BY <1>1 DEF Inv, TypeOK, GiveUp, Unlocked
  <2> QED BY <1>2, <1>6, <2>1, ThreadsKept DEF Inv, Tame
<1> QED BY <1>7, <1>8, <1>9, <1>10 DEF Inv

LEMMA FailOrderStep ==
    ASSUME Inv, NEW t \in Threads, FailOrder(t)
    PROVE  Inv'
<1>1. Of(t) \in Checkouts /\ thread[t] \in ThreadStates
  BY OfType DEF Inv
<1>2. /\ thread' \in [Threads -> ThreadStates] /\ ThreadOK(t)'
      /\ \A u \in Threads : u # t => thread'[u] = thread[u]
  BY DoneFacts DEF Inv, FailOrder
<1>6. Tame
  <2>1. thread[t].payment \in Payments
    BY DEF Inv, ThreadsOK, ThreadOK, FailOrder, At
  <2> QED BY <1>1, <2>1, GivenBackFacts DEF Inv, FailOrder
<1>7. UsesCounted' /\ counted' \in [Checkouts -> BOOLEAN] /\ used' \in Nat
  BY <1>1, UncountFacts DEF Inv, TypeOK, FailOrder, ReleaseUsage
<1>8. TypeOK'
  BY <1>1, <1>2, <1>6, <1>7 DEF Inv, TypeOK, Tame, FailOrder, Released
<1>9. RowsOK'
  BY <1>6, TameRows DEF Inv, FailOrder
<1>10. ThreadsOK'
  <2>1. \A d \in Checkouts : locked[d] \notin {t, NoThread} =>
                                locked'[d] = locked[d] /\ open'[d] = open[d]
    BY <1>1 DEF Inv, TypeOK, FailOrder, Unlocked
  <2> QED BY <1>2, <1>6, <2>1, ThreadsKept DEF Inv, Tame
<1> QED BY <1>7, <1>8, <1>9, <1>10 DEF Inv

LEMMA FinishOrderStep ==
    ASSUME Inv, NEW t \in Threads, FinishOrder(t)
    PROVE  Inv'
<1>1. Of(t) \in Checkouts /\ thread[t] \in ThreadStates
  BY OfType DEF Inv
<1>2. /\ thread' \in [Threads -> ThreadStates] /\ ThreadOK(t)'
      /\ \A u \in Threads : u # t => thread'[u] = thread[u]
  BY DoneFacts DEF Inv, FinishOrder
<1> DEFINE c == Of(t)
<1>3. TRUE \in BOOLEAN
  OBVIOUS
<1>4. /\ open' \in [Checkouts -> BOOLEAN]
      /\ \A d \in Checkouts : d # c => open'[d] = open[d]
      /\ orders' \in [Checkouts -> SUBSET OrderRecords]
      /\ pay' \in [Checkouts -> [Payments -> PaymentRows]]
      /\ \A d \in Checkouts, p \in Payments : pay'[d][p].made = pay[d][p].made
      /\ RowsOK'
  <2> DEFINE voucher == TRUE
  <2>1. open[c] /\ PlaceOrder(c, "payment", voucher) /\ voucher \in BOOLEAN
    BY <1>3 DEF FinishOrder
  <2> HIDE DEF voucher
  <2>2. /\ open' \in [Checkouts -> BOOLEAN]
        /\ \A d \in Checkouts : d # c => open'[d] = open[d]
        /\ orders' \in [Checkouts -> SUBSET OrderRecords]
        /\ pay' \in [Checkouts -> [Payments -> PaymentRows]]
        /\ \A d \in Checkouts : d # c => pay'[d] = pay[d]
        /\ \A p \in Payments : Assigned(c, p)
        /\ RowsOK'
    BY <1>1, <2>1, PlaceOrderFacts DEF Inv
  <2> QED BY <2>2 DEF Assigned
<1>5. UsesCounted'
  BY SameUses DEF Inv, FinishOrder
<1>6. TypeOK'
  BY <1>2, <1>4 DEF Inv, TypeOK, FinishOrder
<1>7. ThreadsOK'
  <2>1. \A d \in Checkouts : locked[d] \notin {t, NoThread} =>
                                locked'[d] = locked[d] /\ open'[d] = open[d]
    BY <1>4 DEF FinishOrder, Unlocked
  <2> QED BY <1>2, <1>4, <2>1, ThreadsKept DEF Inv
<1> QED BY <1>4, <1>5, <1>6, <1>7 DEF Inv

LEMMA ValidateVoucherStep ==
    ASSUME Inv, NEW t \in Threads, ValidateVoucher(t)
    PROVE  Inv'
<1>1. Of(t) \in Checkouts /\ thread[t] \in ThreadStates
  BY OfType DEF Inv
<1> DEFINE state == [thread[t] EXCEPT !.pc = "count", !.voucher = Applicable(thread[t].seen)]
<1>2. state \in ThreadStates /\ state.pc = "count"
  BY <1>1 DEF Inv, TypeOK, ThreadStates, Steps, Applicable
<1>3. /\ thread' \in [Threads -> ThreadStates] /\ thread'[t] = state
      /\ \A u \in Threads : u # t => thread'[u] = thread[u]
  BY <1>2, MoveFacts DEF Inv, ValidateVoucher
<1> HIDE DEF state
<1>4. ThreadOK(t)'
  BY <1>2, <1>3 DEF ThreadOK, At
<1>6. Tame
  BY SamePay DEF Inv, ValidateVoucher
<1>7. UsesCounted' /\ counted' \in [Checkouts -> BOOLEAN] /\ used' \in Nat
  BY SameUses DEF Inv, TypeOK, ValidateVoucher
<1>8. TypeOK'
  BY <1>1, <1>3, <1>4, <1>6, <1>7 DEF Inv, TypeOK, Tame, ValidateVoucher, Released
<1>9. RowsOK'
  BY <1>6, TameRows DEF Inv, ValidateVoucher
<1>10. ThreadsOK'
  <2>1. \A d \in Checkouts : locked[d] \notin {t, NoThread} =>
                                locked'[d] = locked[d] /\ open'[d] = open[d]
    BY <1>1 DEF Inv, TypeOK, ValidateVoucher, Unlocked
  <2> QED BY <1>3, <1>4, <1>6, <2>1, ThreadsKept DEF Inv, Tame
<1> QED BY <1>7, <1>8, <1>9, <1>10 DEF Inv

LEMMA CountVoucherStep ==
    ASSUME Inv, NEW t \in Threads, CountVoucher(t)
    PROVE  Inv'
<1>1. Of(t) \in Checkouts /\ thread[t] \in ThreadStates
  BY OfType DEF Inv
<1> DEFINE state == [thread[t] EXCEPT !.pc = "create"]
<1>2. state \in ThreadStates /\ state.pc = "create"
  BY <1>1 DEF ThreadStates, Steps
<1>3. /\ thread' \in [Threads -> ThreadStates]
      /\ thread'[t] = state \/ thread'[t] = Idle
      /\ \A u \in Threads : u # t => thread'[u] = thread[u]
  BY <1>2, IdleType, MoveFacts DEF Inv, CountVoucher, Goto, Done
<1> HIDE DEF state
<1>4. ThreadOK(t)'
  BY <1>2, <1>3 DEF ThreadOK, At, Idle
<1>6. Tame
  BY SamePay DEF Inv, CountVoucher
<1>7. UsesCounted' /\ counted' \in [Checkouts -> BOOLEAN] /\ used' \in Nat
  <2>1. CASE UNCHANGED <<counted, used>>
    BY <2>1, SameUses DEF Inv, TypeOK
  <2>2. CASE CountUsage(Of(t), FALSE)
    BY <1>1, <2>2, CountUsageFacts DEF Inv
  <2> QED BY <2>1, <2>2 DEF CountVoucher
<1>8. TypeOK'
  BY <1>1, <1>3, <1>4, <1>6, <1>7 DEF Inv, TypeOK, Tame, CountVoucher, Released
<1>9. RowsOK'
  BY <1>6, TameRows DEF Inv, CountVoucher
<1>10. ThreadsOK'
  <2>1. \A d \in Checkouts : locked[d] \notin {t, NoThread} =>
                                locked'[d] = locked[d] /\ open'[d] = open[d]
    BY <1>1 DEF Inv, TypeOK, CountVoucher, Unlocked
  <2> QED BY <1>3, <1>4, <1>6, <2>1, ThreadsKept DEF Inv, Tame
<1> QED BY <1>7, <1>8, <1>9, <1>10 DEF Inv

LEMMA CreateOrderStep ==
    ASSUME Inv, NEW t \in Threads, CreateOrder(t)
    PROVE  Inv'
<1>1. Of(t) \in Checkouts /\ thread[t] \in ThreadStates
  BY OfType DEF Inv
<1>2. /\ thread' \in [Threads -> ThreadStates] /\ ThreadOK(t)'
      /\ \A u \in Threads : u # t => thread'[u] = thread[u]
  BY DoneFacts DEF Inv, CreateOrder
<1> DEFINE c == Of(t)
<1>3. (thread[t].voucher \/ Applicable(counted[c])) \in BOOLEAN
  BY <1>1 DEF Inv, TypeOK, ThreadStates, Applicable
<1>4. /\ open' \in [Checkouts -> BOOLEAN]
      /\ \A d \in Checkouts : d # c => open'[d] = open[d]
      /\ orders' \in [Checkouts -> SUBSET OrderRecords]
      /\ pay' \in [Checkouts -> [Payments -> PaymentRows]]
      /\ \A d \in Checkouts, p \in Payments : pay'[d][p].made = pay[d][p].made
      /\ RowsOK'
  <2> DEFINE voucher == thread[t].voucher \/ Applicable(counted[c])
  <2>1. open[c] /\ PlaceOrder(c, "transaction", voucher) /\ voucher \in BOOLEAN
    BY <1>3 DEF CreateOrder
  <2> HIDE DEF voucher
  <2>2. /\ open' \in [Checkouts -> BOOLEAN]
        /\ \A d \in Checkouts : d # c => open'[d] = open[d]
        /\ orders' \in [Checkouts -> SUBSET OrderRecords]
        /\ pay' \in [Checkouts -> [Payments -> PaymentRows]]
        /\ \A d \in Checkouts : d # c => pay'[d] = pay[d]
        /\ \A p \in Payments : Assigned(c, p)
        /\ RowsOK'
    BY <1>1, <2>1, PlaceOrderFacts DEF Inv
  <2> QED BY <2>2 DEF Assigned
<1>5. UsesCounted'
  BY SameUses DEF Inv, CreateOrder
<1>6. TypeOK'
  BY <1>2, <1>4 DEF Inv, TypeOK, CreateOrder
<1>7. ThreadsOK'
  <2>1. \A d \in Checkouts : locked[d] \notin {t, NoThread} =>
                                locked'[d] = locked[d] /\ open'[d] = open[d]
    BY <1>4 DEF CreateOrder, Unlocked
  <2> QED BY <1>2, <1>4, <2>1, ThreadsKept DEF Inv
<1> QED BY <1>4, <1>5, <1>6, <1>7 DEF Inv

LEMMA FailCreateStep ==
    ASSUME Inv, NEW t \in Threads, FailCreate(t)
    PROVE  Inv'
<1>1. Of(t) \in Checkouts /\ thread[t] \in ThreadStates
  BY OfType DEF Inv
<1>2. /\ thread' \in [Threads -> ThreadStates] /\ ThreadOK(t)'
      /\ \A u \in Threads : u # t => thread'[u] = thread[u]
  BY DoneFacts DEF Inv, FailCreate
<1>6. Tame
  BY SamePay DEF Inv, FailCreate
<1>7. UsesCounted' /\ counted' \in [Checkouts -> BOOLEAN] /\ used' \in Nat
  BY SameUses DEF Inv, TypeOK, FailCreate
<1>8. TypeOK'
  BY <1>1, <1>2, <1>6, <1>7 DEF Inv, TypeOK, Tame, FailCreate, Released
<1>9. RowsOK'
  BY <1>6, TameRows DEF Inv, FailCreate
<1>10. ThreadsOK'
  <2>1. \A d \in Checkouts : locked[d] \notin {t, NoThread} =>
                                locked'[d] = locked[d] /\ open'[d] = open[d]
    BY <1>1 DEF Inv, TypeOK, FailCreate, Unlocked
  <2> QED BY <1>2, <1>6, <2>1, ThreadsKept DEF Inv, Tame
<1> QED BY <1>7, <1>8, <1>9, <1>10 DEF Inv

LEMMA KillStep ==
    ASSUME Inv, NEW t \in Threads, Kill(t)
    PROVE  Inv'
<1>1. Of(t) \in Checkouts /\ thread[t] \in ThreadStates
  BY OfType DEF Inv
<1>2. /\ thread' \in [Threads -> ThreadStates] /\ ThreadOK(t)'
      /\ \A u \in Threads : u # t => thread'[u] = thread[u]
  BY DoneFacts DEF Inv, Kill
<1>5. /\ locked' \in [Checkouts -> Threads \cup {NoThread}]
      /\ \A d \in Checkouts : locked[d] \notin {t, NoThread} => locked'[d] = locked[d]
  BY DEF Inv, TypeOK, Kill
<1>6. Tame
  BY SamePay DEF Inv, Kill
<1>7. UsesCounted' /\ counted' \in [Checkouts -> BOOLEAN] /\ used' \in Nat
  BY SameUses DEF Inv, TypeOK, Kill
<1>8. TypeOK'
  BY <1>2, <1>5, <1>6 DEF Inv, TypeOK, Tame, Kill
<1>9. RowsOK'
  BY <1>6, TameRows DEF Inv, Kill
<1>10. ThreadsOK'
  <2>1. \A d \in Checkouts : locked[d] \notin {t, NoThread} =>
                                locked'[d] = locked[d] /\ open'[d] = open[d]
    BY <1>5 DEF Kill
  <2> QED BY <1>2, <1>6, <2>1, ThreadsKept DEF Inv, Tame
<1> QED BY <1>7, <1>8, <1>9, <1>10 DEF Inv

LEMMA CreatePaymentStep ==
    ASSUME Inv, NEW c \in Checkouts, CreatePayment(c)
    PROVE  Inv'
<1>1. PICK p \in Payments :
         /\ ~pay[c][p].made
         /\ pay' = [pay EXCEPT ![c] = [q \in Payments |->
                      IF q = p THEN Made ELSE [pay[c][q] EXCEPT !.active = FALSE]]]
  BY DEF CreatePayment
<1> DEFINE rows == [q \in Payments |->
                      IF q = p THEN Made ELSE [pay[c][q] EXCEPT !.active = FALSE]]
<1>2. ASSUME NEW q \in Payments
      PROVE  /\ rows[q] \in PaymentRows
             /\ pay[c][q].made => rows[q].made
             /\ rows[q].active <=> q = p
             /\ rows[q].active => rows[q].made
             /\ rows[q].ordered => pay[c][q].ordered
  <2>1. pay[c][q] \in PaymentRows
    BY DEF Inv, TypeOK
  <2>2. CASE q = p
    BY <2>2 DEF Made, Unmade, Answers, PaymentRows
  <2>3. CASE q # p
    BY <2>1, <2>3 DEF PaymentRows
  <2> QED BY <2>2, <2>3
<1>3. /\ pay' \in [Checkouts -> [Payments -> PaymentRows]]
      /\ pay'[c] = rows
      /\ \A d \in Checkouts : d # c => pay'[d] = pay[d]
  <2>1. rows \in [Payments -> PaymentRows]
    BY <1>2
  <2> QED BY <1>1, <2>1 DEF Inv, TypeOK
<1> HIDE DEF rows
<1>4. TypeOK'
  BY <1>3 DEF Inv, TypeOK, CreatePayment
<1>5. RowsOK'
  <2>1. orders[c] = {} /\ UNCHANGED <<open, orders>>
    BY DEF Inv, RowsOK, RowOK, CreatePayment
  <2>2. RowOK(c)'
    BY <1>2, <1>3, <2>1 DEF Inv, RowsOK, RowOK
  <2>3. ASSUME NEW d \in Checkouts, d # c
        PROVE  RowOK(d)'
    BY <1>3, <2>1, <2>3 DEF Inv, RowsOK, RowOK
  <2> QED BY <2>2, <2>3 DEF RowsOK
<1>6. ThreadsOK'
  BY <1>2, <1>3, ThreadsKeptByOthers DEF Inv, CreatePayment
<1>7. UsesCounted'
  BY SameUses DEF Inv, CreatePayment
<1> QED BY <1>4, <1>5, <1>6, <1>7 DEF Inv

LEMMA LockTimeoutStep ==
    ASSUME Inv, NEW c \in Checkouts, LockTimeout(c)
    PROVE  Inv'
<1>6. Tame
  BY SamePay DEF Inv, LockTimeout
<1>7. UsesCounted'
  BY SameUses DEF Inv, LockTimeout
<1>8. TypeOK'
  BY <1>6 DEF Inv, TypeOK, Tame, LockTimeout, Released
<1>9. RowsOK'
  BY <1>6, TameRows DEF Inv, TypeOK, LockTimeout
<1>10. ThreadsOK'
  BY <1>6, ThreadsKeptByOthers DEF Inv, Tame, TypeOK, LockTimeout, Unlocked
<1> QED BY <1>7, <1>8, <1>9, <1>10 DEF Inv

LEMMA ArrivedRow ==
    ASSUME TypeOK, NEW c \in Checkouts, NEW p \in Payments, RefundArrives(c, p)
    PROVE  pay' = [pay EXCEPT ![c][p] = Arrived(pay[c][p])]
BY DEF RefundArrives, TypeOK, Arrived

LEMMA RefundArrivesStep ==
    ASSUME Inv, NEW c \in Checkouts, NEW p \in Payments, RefundArrives(c, p)
    PROVE  Inv'
<1>1. pay[c][p] \in PaymentRows
  BY DEF Inv, TypeOK
<1>2. /\ Arrived(pay[c][p]) \in PaymentRows
      /\ Arrived(pay[c][p]).made = pay[c][p].made
      /\ Arrived(pay[c][p]).ordered = pay[c][p].ordered
      /\ Arrived(pay[c][p]).active => pay[c][p].active
  BY <1>1, MoneyFacts
<1>3. pay' = [pay EXCEPT ![c][p] = Arrived(pay[c][p])]
  BY ArrivedRow DEF Inv
<1>6. Tame
  BY <1>2, <1>3 DEF Inv, TypeOK, Tame
<1>7. UsesCounted'
  BY SameUses DEF Inv, RefundArrives
<1>8. TypeOK'
  BY <1>6 DEF Inv, TypeOK, Tame, RefundArrives, Released
<1>9. RowsOK'
  BY <1>6, TameRows DEF Inv, TypeOK, RefundArrives
<1>10. ThreadsOK'
  <2>1. UNCHANGED <<open, locked, thread>>
    BY DEF RefundArrives
  <2>2. \A d \in Checkouts : locked[d] # NoThread => open'[d] = open[d]
    BY <2>1
  <2>3. \A d \in Checkouts, q \in Payments : pay[d][q].made => pay'[d][q].made
    BY <1>6 DEF Tame
  <2> QED BY <2>1, <2>2, <2>3, ThreadsKeptByOthers DEF Inv
<1> QED BY <1>7, <1>8, <1>9, <1>10 DEF Inv

LEMMA ReportedRow ==
    ASSUME TypeOK, NEW c \in Checkouts, NEW p \in Payments, PendingReported(c, p)
    PROVE  \E new \in Reported(pay[c][p]) : pay' = [pay EXCEPT ![c][p] = new]
<1>1. [pay EXCEPT ![c][p].active = FALSE] = [pay EXCEPT ![c][p] = Passive(pay[c][p])]
  BY DEF TypeOK, Passive
<1> QED BY <1>1 DEF PendingReported, Reported

LEMMA PendingReportedStep ==
    ASSUME Inv, NEW c \in Checkouts, NEW p \in Payments, PendingReported(c, p)
    PROVE  Inv'
<1>1. pay[c][p] \in PaymentRows
  BY DEF Inv, TypeOK
<1>2. PICK new \in Reported(pay[c][p]) : pay' = [pay EXCEPT ![c][p] = new]
  BY ReportedRow DEF Inv
<1>3. /\ new \in PaymentRows
      /\ new.made = pay[c][p].made /\ new.ordered = pay[c][p].ordered
      /\ new.active => pay[c][p].active
  BY <1>1, ReportedFacts
<1>6. Tame
  BY <1>2, <1>3 DEF Inv, TypeOK, Tame
<1>7. UsesCounted'
  BY SameUses DEF Inv, PendingReported
<1>8. TypeOK'
  BY <1>6 DEF Inv, TypeOK, Tame, PendingReported
<1>9. RowsOK'
  BY <1>6, TameRows DEF Inv, TypeOK, PendingReported
<1>10. ThreadsOK'
  <2>1. UNCHANGED <<open, locked, thread>>
    BY DEF PendingReported
  <2>2. \A d \in Checkouts : locked[d] # NoThread => open'[d] = open[d]
    BY <2>1
  <2>3. \A d \in Checkouts, q \in Payments : pay[d][q].made => pay'[d][q].made
    BY <1>6 DEF Tame
  <2> QED BY <2>1, <2>2, <2>3, ThreadsKeptByOthers DEF Inv
<1> QED BY <1>7, <1>8, <1>9, <1>10 DEF Inv

LEMMA ExpireStep ==
    ASSUME Inv, NEW c \in Checkouts, Expire(c)
    PROVE  Inv'
<1>6. Tame
  BY SamePay DEF Inv, Expire
<1>7. UsesCounted'
  BY SameUses DEF Inv, Expire
<1>8. TypeOK'
  BY <1>6 DEF Inv, TypeOK, Tame, Expire, Released
<1>9. RowsOK'
  BY <1>6, TameRows DEF Inv, TypeOK, Expire
<1>10. ThreadsOK'
  BY <1>6, ThreadsKeptByOthers DEF Inv, Tame, TypeOK, Expire, Unlocked
<1> QED BY <1>7, <1>8, <1>9, <1>10 DEF Inv

LEMMA InitInv == Init => Inv
<1> SUFFICES ASSUME Init
             PROVE  Inv
  OBVIOUS
<1>1. Unmade \in PaymentRows /\ ~Unmade.active /\ ~Unmade.made /\ ~Unmade.ordered
  BY DEF Unmade, Answers, PaymentRows
<1>2. TypeOK
  BY <1>1, IdleType, ThreadsAssumption DEF Init, TypeOK
<1>3. RowsOK
  BY <1>1 DEF Init, RowsOK, RowOK
<1>4. ThreadsOK
  BY DEF Init, ThreadsOK, ThreadOK, At, Idle
<1>5. UsesCounted
  <2>1. \A c \in Checkouts : Flags[c] = 0
    BY DEF Init, Flags
  <2> QED BY <2>1, SumZero DEF Init, UsesCounted
<1> QED BY <1>2, <1>3, <1>4, <1>5 DEF Inv

LEMMA StutterInv ==
    ASSUME Inv, UNCHANGED vars
    PROVE  Inv'
<1>1. TypeOK'
  BY DEF Inv, TypeOK, vars
<1>2. RowsOK'
  BY DEF Inv, RowsOK, RowOK, vars
<1>3. ThreadsOK'
  BY DEF Inv, ThreadsOK, ThreadOK, At, Of, vars
<1>4. UsesCounted'
  BY SameUses DEF Inv, vars
<1> QED BY <1>1, <1>2, <1>3, <1>4 DEF Inv

LEMMA NextInv == Inv /\ [Next]_vars => Inv'
<1> SUFFICES ASSUME Inv, [Next]_vars
             PROVE  Inv'
  OBVIOUS
<1>1. ASSUME NEW t \in Threads, NEW c \in Checkouts, NEW flow \in Flows, Begin(t, c, flow)
      PROVE  Inv'
  BY <1>1, BeginStep
<1>2. ASSUME NEW t \in Threads, PaymentFlow(t)
      PROVE  Inv'
  BY <1>2, LockCheckoutStep, RefusePrepareStep, FailRefundStep, FailTaxesStep, PrepareStep,
     ChargeStep, DeclineStep, DeactivatedStep, AskCustomerStep, GiveUpStep, FailOrderStep,
     FinishOrderStep DEF PaymentFlow
<1>3. ASSUME NEW t \in Threads, TransactionFlow(t)
      PROVE  Inv'
  BY <1>3, ValidateVoucherStep, CountVoucherStep, CreateOrderStep, FailCreateStep
     DEF TransactionFlow
<1>4. ASSUME NEW t \in Threads, FindOrder(t) \/ Kill(t)
      PROVE  Inv'
  BY <1>4, FindOrderStep, KillStep
<1>5. ASSUME NEW c \in Checkouts, CreatePayment(c) \/ LockTimeout(c) \/ Expire(c)
      PROVE  Inv'
  BY <1>5, CreatePaymentStep, LockTimeoutStep, ExpireStep
<1>6. ASSUME NEW c \in Checkouts, NEW p \in Payments,
             RefundArrives(c, p) \/ PendingReported(c, p)
      PROVE  Inv'
  BY <1>6, RefundArrivesStep, PendingReportedStep
<1> QED BY <1>1, <1>2, <1>3, <1>4, <1>5, <1>6, StutterInv DEF Next

\* The inductive invariant holds in every reachable state.
LEMMA InvHolds == Spec => []Inv
BY InitInv, NextInv, PTL DEF Spec

-----------------------------------------------------------------------------
(***************************************************************************)
(* What Inv says of orders and payments.                                   *)
(***************************************************************************)

\* A step of a thread changes the rows of its own checkout only.
Same(d) == pay'[d] = pay[d] /\ counted'[d] = counted[d] /\ orders'[d] = orders[d]

LEMMA OnlyOwn ==
    ASSUME TypeOK, NEW t \in Threads, NEW d \in Checkouts, d # Of(t),
           PaymentFlow(t) \/ TransactionFlow(t) \/ FindOrder(t) \/ Kill(t)
    PROVE  Same(d) /\ overlapped' = overlapped
<1> USE DEF Same
<1>1. Of(t) \in Checkouts /\ thread[t] \in ThreadStates
  BY OfType
<1>2. CASE LockCheckout(t) \/ FailRefund(t) \/ Decline(t) \/ GiveUp(t)
  BY <1>2 DEF LockCheckout, FailRefund, Decline, GiveUp
<1>3. CASE RefusePrepare(t)
  BY <1>1, <1>3 DEF RefusePrepare, TypeOK
<1>4. CASE FailTaxes(t)
  BY <1>1, <1>4 DEF FailTaxes, ReleaseUsage, TypeOK
<1>5. CASE Prepare(t) \/ AskCustomer(t)
  BY <1>1, <1>5 DEF Prepare, AskCustomer, ReleaseUsage, CountUsage, TypeOK
<1>6. CASE Charge(t)
  BY <1>1, <1>6 DEF Charge, TypeOK
<1>7. CASE Deactivated(t)
  BY <1>1, <1>7 DEF Deactivated, TypeOK
<1>8. CASE FailOrder(t)
  BY <1>1, <1>8 DEF FailOrder, ReleaseUsage, TypeOK
<1>9. CASE FinishOrder(t) \/ CreateOrder(t)
  BY <1>1, <1>9 DEF FinishOrder, CreateOrder, PlaceOrder, TypeOK
<1>10. CASE CountVoucher(t)
  BY <1>1, <1>10 DEF CountVoucher, CountUsage, TypeOK
<1>11. CASE ValidateVoucher(t) \/ FailCreate(t) \/ FindOrder(t) \/ Kill(t)
  BY <1>11 DEF ValidateVoucher, FailCreate, FindOrder, Kill
<1> QED BY <1>2, <1>3, <1>4, <1>5, <1>6, <1>7, <1>8, <1>9, <1>10, <1>11
           DEF PaymentFlow, TransactionFlow

\* Only a checkout that is still there has its payments touched by a thread.
LEMMA OpenTouched ==
    ASSUME Inv, NEW t \in Threads, NEW d \in Checkouts,
           PaymentFlow(t) \/ TransactionFlow(t) \/ FindOrder(t) \/ Kill(t)
    PROVE  pay'[d] = pay[d] \/ open[d]
<1>1. CASE d # Of(t)
  BY <1>1, OnlyOwn DEF Inv, Same
<1>2. CASE d = Of(t) /\ At(t, "prepare")
  BY <1>2 DEF Inv, ThreadsOK, ThreadOK
<1>3. CASE d = Of(t) /\ ~At(t, "prepare")
  <2>1. open[d] \/ pay' = pay
    BY <1>3 DEF PaymentFlow, TransactionFlow, FindOrder, Kill, LockCheckout, RefusePrepare,
       FailRefund, FailTaxes, Prepare, Charge, Decline, Deactivated, AskCustomer, GiveUp,
       FailOrder, FinishOrder, ValidateVoucher, CountVoucher, CreateOrder, FailCreate
  <2> QED BY <2>1
<1> QED BY <1>1, <1>2, <1>3

\* Type correctness.
THEOREM CheckoutTypeCorrect == Spec => []TypeOK
<1>1. Inv => TypeOK
  BY DEF Inv
<1> QED BY <1>1, InvHolds, PTL

\* However many threads complete a checkout, in whatever flow and killed at
\* whatever step, it becomes one order at most and is gone once it has.
THEOREM BecomesOneOrder == Spec => []OneOrder
<1>1. Inv => OneOrder
  <2> SUFFICES ASSUME Inv, NEW c \in Checkouts
               PROVE  Cardinality(orders[c]) <= 1 /\ (orders[c] # {} => ~open[c])
    BY DEF OneOrder
  <2>1. orders[c] # {} => ~open[c]
    BY DEF Inv, RowsOK, RowOK
  <2>2. Cardinality(orders[c]) <= 1
    <3>1. orders[c] = {} \/ \E o \in OrderRecords : orders[c] = {o}
      BY DEF Inv, RowsOK, RowOK
    <3>2. CASE orders[c] = {}
      BY <3>2, FS_EmptySet
    <3>3. CASE \E o \in OrderRecords : orders[c] = {o}
      <4>1. PICK o \in OrderRecords : orders[c] = {o}
        BY <3>3
      <4>2. Cardinality({o}) = 1
        BY FS_Singleton
      <4> QED BY <4>1, <4>2
    <3> QED BY <3>1, <3>2, <3>3
  <2> QED BY <2>1, <2>2
<1> QED BY <1>1, InvHolds, PTL

\* checkoutPaymentCreate never leaves a payment behind that the order of its
\* checkout does not have.
THEOREM NoPaymentMissing == Spec => []PaymentsAssigned
<1>1. Inv => PaymentsAssigned
  BY DEF Inv, RowsOK, RowOK, PaymentsAssigned
<1> QED BY <1>1, InvHolds, PTL

\* No request of any thread charges a payment of an order again or gives
\* back what it holds; only the gateway's report on a payment that it had
\* answered with PENDING changes it.
THEOREM OrderMoneyUntouched == Spec => OrderKeepsPayment
<1> DEFINE Kept == \A c \in Checkouts, p \in Payments :
                      pay[c][p].ordered /\ pay[c][p].refunding = 0
                        => pay'[c][p].held = pay[c][p].held \/ PendingReported(c, p)
<1>1. ASSUME Inv, [Next]_vars
      PROVE  Kept
  <2> SUFFICES ASSUME NEW d \in Checkouts, NEW q \in Payments,
                      pay[d][q].ordered, pay[d][q].refunding = 0
               PROVE  pay'[d][q] = pay[d][q] \/ PendingReported(d, q)
    OBVIOUS
  <2>1. ~open[d]
    BY <1>1 DEF Inv, RowsOK, RowOK
  <2>2. ASSUME NEW t \in Threads,
               PaymentFlow(t) \/ TransactionFlow(t) \/ FindOrder(t) \/ Kill(t)
        PROVE  pay'[d][q] = pay[d][q]
    BY <1>1, <2>1, <2>2, OpenTouched
  <2>3. ASSUME NEW t \in Threads, NEW c \in Checkouts, NEW flow \in Flows, Begin(t, c, flow)
        PROVE  pay'[d][q] = pay[d][q]
    BY <2>3 DEF Begin
  <2>4. ASSUME NEW c \in Checkouts, CreatePayment(c) \/ LockTimeout(c) \/ Expire(c)
        PROVE  pay'[d][q] = pay[d][q]
    BY <1>1, <2>1, <2>4 DEF CreatePayment, LockTimeout, Expire, Inv, TypeOK
  <2>5. ASSUME NEW c \in Checkouts, NEW p \in Payments, RefundArrives(c, p)
        PROVE  pay'[d][q] = pay[d][q]
    <3>1. c # d \/ p # q
      BY <2>5 DEF RefundArrives
    <3>2. pay' = [pay EXCEPT ![c][p] = Arrived(pay[c][p])]
      BY <1>1, <2>5, ArrivedRow DEF Inv
    <3> QED BY <1>1, <3>1, <3>2 DEF Inv, TypeOK
  <2>6. ASSUME NEW c \in Checkouts, NEW p \in Payments, PendingReported(c, p)
        PROVE  pay'[d][q] = pay[d][q] \/ PendingReported(d, q)
    <3>1. CASE c = d /\ p = q
      BY <2>6, <3>1
    <3>2. CASE c # d \/ p # q
      <4>1. PICK new \in Reported(pay[c][p]) : pay' = [pay EXCEPT ![c][p] = new]
        BY <1>1, <2>6, ReportedRow DEF Inv
      <4> QED BY <1>1, <3>2, <4>1 DEF Inv, TypeOK
    <3> QED BY <3>1, <3>2
  <2>7. CASE UNCHANGED vars
    BY <2>7 DEF vars
  <2> QED BY <1>1, <2>2, <2>3, <2>4, <2>5, <2>6, <2>7 DEF Next
<1>2. Inv /\ [Next]_vars => [Kept]_vars
  BY <1>1
<1> QED BY <1>2, InvHolds, PTL DEF Spec, OrderKeepsPayment

-----------------------------------------------------------------------------
(***************************************************************************)
(* Attempts that follow each other.  While two threads have not worked on  *)
(* a checkout at once, the one that is at work knows what it has done: the *)
(* payment holds the money that it charged or was accepted with PENDING,   *)
(* and the voucher is counted.                                             *)
(***************************************************************************)
Busy(t, c) == thread[t].pc # "idle" /\ Of(t) = c

Lone(c) ==
    /\ \A t, u \in Threads : Busy(t, c) /\ Busy(u, c) => t = u
    /\ orders[c] # {} => \A t \in Threads : ~Busy(t, c)

PaidAt(t) ==
    At(t, "finish") /\ ~thread[t].action => Sound(pay[Of(t)][thread[t].payment])

PaidOrder(c) ==
    (\E o \in orders[c] : o.flow = "payment") =>
        \E p \in Payments : pay[c][p].ordered /\ Secure(pay[c][p])

\* What a thread has read of the voucher is so, and it has counted its use.
CountedAt(t) ==
    /\ thread[t].pc \in {"process", "finish", "create"} => counted[Of(t)]
    /\ thread[t].pc \in {"validate", "count"} => (thread[t].seen <=> counted[Of(t)])
    /\ At(t, "validate") => Applicable(thread[t].seen)
    /\ At(t, "count") => thread[t].voucher

\* The transaction flow may find a voucher used up by another checkout, and
\* find it applicable again when it creates the order.
Secluded == "transaction" \notin Flows \/ \A c, d \in Checkouts : c = d

Hist(c) ==
    ~overlapped[c] =>
        /\ Lone(c) /\ PaidOrder(c)
        /\ Secluded /\ WithVoucher(c) => counted[c]
        /\ \A t \in Threads : Busy(t, c) => PaidAt(t) /\ (Secluded => CountedAt(t))

FlowsOK ==
    \A t \in Threads :
        thread[t].pc \in {"validate", "count", "create"} => "transaction" \in Flows

History == FlowsOK /\ \A c \in Checkouts : Hist(c)

\* A thread that works on another checkout, or ends, changes nothing here.
LEMMA HistElsewhere ==
    ASSUME TypeOK, History, NEW t \in Threads, NEW c \in Checkouts, c # Of(t),
           thread'[t].pc = "idle" \/ thread'[t].checkout = Of(t),
           \A u \in Threads : u # t => thread'[u] = thread[u],
           Same(c), overlapped' = overlapped
    PROVE  Hist(c)'
<1> SUFFICES ASSUME ~overlapped[c]
             PROVE  /\ Lone(c)' /\ PaidOrder(c)'
                    /\ Secluded /\ WithVoucher(c)' => counted'[c]
                    /\ \A u \in Threads :
                          Busy(u, c)' => PaidAt(u)' /\ (Secluded => CountedAt(u)')
  BY DEF Hist, Secluded
<1>1. /\ Lone(c) /\ PaidOrder(c)
      /\ Secluded /\ WithVoucher(c) => counted[c]
      /\ \A u \in Threads : Busy(u, c) => PaidAt(u) /\ (Secluded => CountedAt(u))
  BY DEF History, Hist
<1>2. \A u \in Threads : Busy(u, c)' => u # t /\ Busy(u, c) /\ thread'[u] = thread[u]
  BY DEF Busy, Of
<1>3. Lone(c)' /\ PaidOrder(c)'
  BY <1>1, <1>2 DEF Lone, PaidOrder, Same
<1>4. Secluded /\ WithVoucher(c)' => counted'[c]
  BY <1>1 DEF WithVoucher, Same
<1>5. ASSUME NEW u \in Threads, Busy(u, c)'
      PROVE  PaidAt(u)' /\ (Secluded => CountedAt(u)')
  <2>1. thread'[u] = thread[u] /\ thread[u].checkout = c /\ Busy(u, c)
    BY <1>2, <1>5 DEF Busy, Of
  <2>2. PaidAt(u)'
    BY <1>1, <2>1 DEF PaidAt, At, Of, Same
  <2>3. ASSUME Secluded
        PROVE  CountedAt(u)'
    <3>1. "transaction" \notin Flows
      BY <2>3, OfType DEF Secluded
    <3>2. ~At(u, "validate")
      BY <3>1 DEF History, FlowsOK, At
    <3>3. CountedAt(u)
      BY <1>1, <2>1, <2>3
    <3> QED BY <2>1, <3>2, <3>3 DEF CountedAt, At, Of, Same
  <2> QED BY <2>2, <2>3
<1> QED BY <1>3, <1>4, <1>5

\* At its own checkout, nobody else is at work and there is no order yet.
LEMMA AtWork ==
    ASSUME History, NEW t \in Threads, NEW c \in Checkouts, Of(t) = c, ~At(t, "idle"),
           ~overlapped[c]
    PROVE  /\ orders[c] = {}
           /\ \A u \in Threads : Busy(u, c) => u = t
           /\ PaidAt(t) /\ (Secluded => CountedAt(t))
BY DEF History, Hist, Lone, Busy, At

\* A thread ends, with or without an order.
LEMMA HistEnd ==
    ASSUME TypeOK, History, NEW t \in Threads, NEW c \in Checkouts, Of(t) = c,
           ~At(t, "idle"), Done(t), overlapped' = overlapped,
           \A d \in Checkouts : d # c => Same(d),
           \/ orders' = orders
           \/ ~overlapped[c] => /\ PaidOrder(c)'
                                /\ Secluded /\ WithVoucher(c)' => counted'[c]
    PROVE  History'
<1>1. /\ thread'[t].pc = "idle"
      /\ \A u \in Threads : u # t => thread'[u] = thread[u]
  <2>1. Idle.pc = "idle"
    BY DEF Idle
  <2> QED BY <2>1, DoneFacts
<1>2. FlowsOK'
  BY <1>1 DEF History, FlowsOK
<1>3. Hist(c)'
  <2> SUFFICES ASSUME ~overlapped[c]
               PROVE  /\ Lone(c)' /\ PaidOrder(c)'
                      /\ Secluded /\ WithVoucher(c)' => counted'[c]
                      /\ \A u \in Threads : ~Busy(u, c)'
    BY DEF Hist, Secluded
  <2>1. orders[c] = {} /\ \A u \in Threads : Busy(u, c) => u = t
    BY AtWork
  <2>2. \A u \in Threads : ~Busy(u, c)'
    BY <1>1, <2>1 DEF Busy, Of
  <2>3. Lone(c)'
    BY <2>2 DEF Lone
  <2>4. PaidOrder(c)' /\ (Secluded /\ WithVoucher(c)' => counted'[c])
    BY <2>1 DEF PaidOrder, WithVoucher
  <2> QED BY <2>2, <2>3, <2>4
<1>4. ASSUME NEW d \in Checkouts, d # c
      PROVE  Hist(d)'
  BY <1>1, <1>4, HistElsewhere
<1> QED BY <1>2, <1>3, <1>4 DEF History

\* A thread goes on to its next step.
LEMMA HistMove ==
    ASSUME TypeOK, History, NEW t \in Threads, NEW c \in Checkouts, Of(t) = c,
           ~At(t, "idle"), NEW s \in ThreadStates, Move(t, s), s.checkout = c,
           s.pc \in {"validate", "count", "create"} => "transaction" \in Flows,
           UNCHANGED <<orders, overlapped>>,
           \A d \in Checkouts : d # c => Same(d),
           ~overlapped[c] => PaidAt(t)' /\ (Secluded => CountedAt(t)')
    PROVE  History'
<1>1. /\ thread'[t] = s
      /\ \A u \in Threads : u # t => thread'[u] = thread[u]
  BY MoveFacts
<1>2. FlowsOK'
  BY <1>1 DEF History, FlowsOK
<1>3. Hist(c)'
  <2> SUFFICES ASSUME ~overlapped[c]
               PROVE  /\ Lone(c)' /\ PaidOrder(c)'
                      /\ Secluded /\ WithVoucher(c)' => counted'[c]
                      /\ \A u \in Threads :
                            Busy(u, c)' => PaidAt(u)' /\ (Secluded => CountedAt(u)')
    BY DEF Hist, Secluded
  <2>1. orders[c] = {} /\ \A u \in Threads : Busy(u, c) => u = t
    BY AtWork
  <2>2. \A u \in Threads : Busy(u, c)' => u = t
    BY <1>1, <2>1 DEF Busy, Of
  <2>3. Lone(c)' /\ PaidOrder(c)' /\ ~WithVoucher(c)'
    BY <2>1, <2>2 DEF Lone, PaidOrder, WithVoucher
  <2> QED BY <2>2, <2>3
<1>4. ASSUME NEW d \in Checkouts, d # c
      PROVE  Hist(d)'
  BY <1>1, <1>4, HistElsewhere
<1> QED BY <1>2, <1>3, <1>4 DEF History

\* What happens besides leaves the threads and what they have counted; money
\* that was charged is there, or known to be refunded.
LEMMA HistOthers ==
    ASSUME Inv, History, UNCHANGED <<counted, used, orders, thread, overlapped>>,
           \A c \in Checkouts, p \in Payments :
              /\ pay[c][p].ordered /\ Secure(pay[c][p])
                    => pay'[c][p].ordered /\ Secure(pay'[c][p])
              /\ pay[c][p].made /\ Sound(pay[c][p]) => Sound(pay'[c][p])
    PROVE  History'
<1>1. FlowsOK'
  BY DEF History, FlowsOK
<1>2. ASSUME NEW c \in Checkouts
      PROVE  Hist(c)'
  <2> SUFFICES ASSUME ~overlapped[c]
               PROVE  /\ Lone(c)' /\ PaidOrder(c)'
                      /\ Secluded /\ WithVoucher(c)' => counted'[c]
                      /\ \A u \in Threads :
                            Busy(u, c)' => PaidAt(u)' /\ (Secluded => CountedAt(u)')
    BY DEF Hist, Secluded
  <2>1. /\ Lone(c) /\ PaidOrder(c)
        /\ Secluded /\ WithVoucher(c) => counted[c]
        /\ \A u \in Threads : Busy(u, c) => PaidAt(u) /\ (Secluded => CountedAt(u))
    BY DEF History, Hist
  <2>2. Lone(c)' /\ (Secluded /\ WithVoucher(c)' => counted'[c])
    BY <2>1 DEF Lone, Busy, Of, WithVoucher
  <2>3. PaidOrder(c)'
    BY <2>1 DEF PaidOrder
  <2>4. ASSUME NEW u \in Threads, Busy(u, c)'
        PROVE  PaidAt(u)' /\ (Secluded => CountedAt(u)')
    <3>1. Busy(u, c) /\ Of(u) = c
      BY <2>4 DEF Busy, Of
    <3>2. ThreadOK(u) /\ PaidAt(u) /\ (Secluded => CountedAt(u))
      BY <2>1, <3>1 DEF Inv, ThreadsOK
    <3>3. PaidAt(u)'
      BY <3>1, <3>2 DEF PaidAt, ThreadOK, At, Of
    <3>4. Secluded => CountedAt(u)'
      BY <3>2 DEF CountedAt, At, Of, Applicable
    <3> QED BY <3>3, <3>4
  <2> QED BY <2>2, <2>3, <2>4
<1> QED BY <1>1, <1>2 DEF History

\* Begin records whether another thread is at work on the checkout.
LEMMA BeginHist ==
    ASSUME Inv, History, NEW t \in Threads, NEW c \in Checkouts, NEW flow \in Flows,
           Begin(t, c, flow)
    PROVE  History'
<1> DEFINE state == [Idle EXCEPT
                       !.pc = IF flow = "payment" THEN "lock" ELSE "validate",
                       !.checkout = c, !.seen = counted[c]]
<1>1. /\ state \in ThreadStates /\ state.pc \in {"lock", "validate"}
      /\ state.checkout = c /\ (state.seen <=> counted[c])
      /\ state.pc = "validate" => flow = "transaction"
  BY IdleType, LimitsAssumption DEF Inv, TypeOK, ThreadStates, Steps, Idle
<1>2. /\ thread'[t] = state
      /\ \A u \in Threads : u # t => thread'[u] = thread[u]
  BY <1>1, MoveFacts DEF Inv, Begin
<1> HIDE DEF state
<1>3. /\ UNCHANGED <<counted, used, pay, orders>> /\ At(t, "idle") /\ open[c]
      /\ overlapped' = [overlapped EXCEPT ![c] = overlapped[c] \/
                           \E u \in Threads \ {t} : thread[u].pc # "idle" /\ Of(u) = c]
      /\ flow = "transaction" => Applicable(counted[c])
  BY DEF Begin, Inv, TypeOK
<1>4. FlowsOK'
  BY <1>1, <1>2 DEF History, FlowsOK
<1>5. ASSUME NEW d \in Checkouts, ~overlapped'[d]
      PROVE  /\ ~overlapped[d]
             /\ d = c => \A u \in Threads : u # t => ~Busy(u, c)
  BY <1>3, <1>5 DEF Inv, TypeOK, Busy
<1>6. ASSUME NEW d \in Checkouts
      PROVE  Hist(d)'
  <2> SUFFICES ASSUME ~overlapped'[d]
               PROVE  /\ Lone(d)' /\ PaidOrder(d)'
                      /\ Secluded /\ WithVoucher(d)' => counted'[d]
                      /\ \A u \in Threads :
                            Busy(u, d)' => PaidAt(u)' /\ (Secluded => CountedAt(u)')
    BY DEF Hist, Secluded
  <2>1. /\ ~overlapped[d] /\ Lone(d) /\ PaidOrder(d)
        /\ Secluded /\ WithVoucher(d) => counted[d]
        /\ \A u \in Threads : Busy(u, d) => PaidAt(u) /\ (Secluded => CountedAt(u))
    BY <1>5 DEF History, Hist
  <2>2. PaidOrder(d)' /\ (Secluded /\ WithVoucher(d)' => counted'[d])
    BY <1>3, <2>1 DEF PaidOrder, WithVoucher
  <2>3. \A u \in Threads : u # t => (Busy(u, d)' <=> Busy(u, d))
    BY <1>2 DEF Busy, Of
  <2>4. Busy(t, d)' => d = c
    BY <1>1, <1>2 DEF Busy, Of
  <2>5. Lone(d)'
    <3>1. orders[c] = {}
      BY <1>3 DEF Inv, RowsOK, RowOK
    <3> QED BY <1>3, <1>5, <2>1, <2>3, <2>4, <3>1 DEF Lone
  <2>6. ASSUME NEW u \in Threads, u # t, Busy(u, d)'
        PROVE  PaidAt(u)' /\ (Secluded => CountedAt(u)')
    <3>1. thread'[u] = thread[u] /\ PaidAt(u) /\ (Secluded => CountedAt(u))
      BY <1>2, <2>1, <2>3, <2>6
    <3> QED BY <1>3, <3>1 DEF PaidAt, CountedAt, At, Of, Applicable
  <2>7. PaidAt(t)' /\ CountedAt(t)'
    <3>1. /\ thread'[t].pc \in {"lock", "validate"} /\ thread'[t].checkout = c
          /\ (thread'[t].seen <=> counted[c])
          /\ thread'[t].pc = "validate" => flow = "transaction"
      BY <1>1, <1>2
    <3>2. PaidAt(t)'
      BY <3>1 DEF PaidAt, At
    <3>3. thread'[t].pc = "validate" => thread'[t].seen \/ used < UsageLimit
      BY <1>3, <3>1 DEF Applicable
    <3> QED BY <1>3, <3>1, <3>2, <3>3 DEF CountedAt, At, Of, Applicable
  <2> QED BY <2>2, <2>5, <2>6, <2>7
<1> QED BY <1>4, <1>6 DEF History

\* The steps that end a request without an order.
LEMMA EndHist ==
    ASSUME Inv, History, NEW t \in Threads,
           \/ RefusePrepare(t) \/ FailRefund(t) \/ FailTaxes(t) \/ Decline(t)
           \/ Deactivated(t) \/ AskCustomer(t) \/ GiveUp(t) \/ FailOrder(t)
           \/ FailCreate(t) \/ FindOrder(t) \/ Kill(t)
    PROVE  History'
<1>1. PICK c \in Checkouts : Of(t) = c
  BY OfType DEF Inv
<1>2. ~At(t, "idle") /\ Done(t) /\ UNCHANGED <<orders, overlapped>>
  BY DEF At, RefusePrepare, FailRefund, FailTaxes, Decline, Deactivated, AskCustomer,
     GiveUp, FailOrder, FailCreate, FindOrder, Kill
<1>3. \A d \in Checkouts : d # c => Same(d)
  BY <1>1, OnlyOwn DEF Inv, PaymentFlow, TransactionFlow
<1> QED BY <1>1, <1>2, <1>3, HistEnd DEF Inv

LEMMA LockCheckoutHist ==
    ASSUME Inv, History, NEW t \in Threads, LockCheckout(t)
    PROVE  History'
<1>1. PICK c \in Checkouts : Of(t) = c
  BY OfType DEF Inv
<1>2. \A d \in Checkouts : d # c => Same(d)
  BY <1>1, OnlyOwn DEF Inv, PaymentFlow
<1>3. ~At(t, "idle") /\ UNCHANGED <<orders, overlapped>>
  BY DEF LockCheckout, At
<1> DEFINE state == [thread[t] EXCEPT !.pc = "prepare", !.voucher = Applicable(counted[c])]
<1>4. state \in ThreadStates /\ state.pc = "prepare" /\ state.checkout = c
  BY <1>1, OfType DEF Inv, TypeOK, ThreadStates, Steps, Applicable, Of
<1>5. CASE Done(t)
  BY <1>1, <1>2, <1>3, <1>5, HistEnd DEF Inv
<1>6. CASE Move(t, state)
  <2> HIDE DEF state
  <2>1. PaidAt(t)' /\ CountedAt(t)'
    BY <1>4, <1>6, MoveFacts DEF Inv, PaidAt, CountedAt, At
  <2> QED BY <1>1, <1>2, <1>3, <1>4, <1>6, <2>1, HistMove DEF Inv
<1> QED BY <1>1, <1>5, <1>6 DEF LockCheckout

LEMMA PrepareHist ==
    ASSUME Inv, History, NEW t \in Threads, Prepare(t)
    PROVE  History'
<1>1. PICK c \in Checkouts : Of(t) = c
  BY OfType DEF Inv
<1>2. \A d \in Checkouts : d # c => Same(d)
  BY <1>1, OnlyOwn DEF Inv, PaymentFlow
<1>3. ~At(t, "idle") /\ UNCHANGED <<orders, overlapped>>
  BY DEF Prepare, At
<1> DEFINE state == [thread[t] EXCEPT !.pc = "process", !.payment = LastActive(c)]
<1>4. state \in ThreadStates /\ state.pc = "process" /\ state.checkout = c
  BY <1>1, OfType, LastActiveFacts DEF Inv, ThreadStates, Steps, Of
<1>5. Move(t, state) /\ counted'[c]
  BY <1>1 DEF Prepare, CountUsage, Inv, TypeOK
<1> HIDE DEF state
<1>6. PaidAt(t)' /\ CountedAt(t)'
  BY <1>4, <1>5, MoveFacts DEF Inv, PaidAt, CountedAt, At, Of
<1> QED BY <1>1, <1>2, <1>3, <1>4, <1>5, <1>6, HistMove DEF Inv

\* The payment holds the money after it was charged, now or before.
LEMMA ChargeHist ==
    ASSUME Inv, History, NEW t \in Threads, Charge(t)
    PROVE  History'
<1>1. PICK c \in Checkouts : Of(t) = c
  BY OfType DEF Inv
<1>2. \A d \in Checkouts : d # c => Same(d)
  BY <1>1, OnlyOwn DEF Inv, PaymentFlow
<1>3. ~At(t, "idle") /\ At(t, "process") /\ UNCHANGED <<counted, orders, overlapped>>
  BY DEF Charge, At
<1>4. PICK p \in Payments : thread[t].payment = p
  BY <1>1 DEF Inv, ThreadsOK, ThreadOK, Charge, At
<1>5. thread[t] \in ThreadStates /\ pay[c][p] \in PaymentRows
  BY <1>1, <1>4, OfType DEF Inv, TypeOK
<1>6. ~overlapped[c] /\ Secluded => counted'[c]
  BY <1>1, <1>3, AtWork DEF CountedAt, At
<1>7. ASSUME NEW s \in ThreadStates, Move(t, s), s.pc = "finish", s.checkout = c,
             s.payment = p, s.action \/ Sound(pay'[c][p])
      PROVE  History'
  <2>1. thread'[t] = s
    BY <1>7, MoveFacts DEF Inv
  <2>2. PaidAt(t)'
    BY <1>7, <2>1 DEF PaidAt, At, Of
  <2>3. ~overlapped[c] => (Secluded => CountedAt(t)')
    BY <1>6, <1>7, <2>1 DEF CountedAt, At, Of
  <2> QED BY <1>1, <1>2, <1>3, <1>7, <2>2, <2>3, HistMove DEF Inv
<1>8. CASE Move(t, [thread[t] EXCEPT !.pc = "finish", !.action = TRUE])
  <2> DEFINE s == [thread[t] EXCEPT !.pc = "finish", !.action = TRUE]
  <2>1. /\ s \in ThreadStates /\ s.pc = "finish" /\ s.checkout = c
        /\ s.payment = p /\ s.action
    BY <1>1, <1>4, <1>5 DEF ThreadStates, Steps, Of
  <2> QED BY <1>7, <1>8, <2>1
<1>9. CASE Move(t, [thread[t] EXCEPT !.pc = "finish"]) /\ Sound(pay'[c][p])
  <2> DEFINE s == [thread[t] EXCEPT !.pc = "finish"]
  <2>1. /\ s \in ThreadStates /\ s.pc = "finish" /\ s.checkout = c /\ s.payment = p
    BY <1>1, <1>4, <1>5 DEF ThreadStates, Steps, Of
  <2> QED BY <1>7, <1>9, <2>1
<1>10. ASSUME NEW row \in {Authorized(pay[c][p]), Captured(pay[c][p]), Pended(pay[c][p])},
              pay' = [pay EXCEPT ![c][p] = row]
       PROVE  Sound(pay'[c][p])
  <2> DEFINE old == pay[c][p]
  <2>1. row.held > 0 \/ row.answer = "pending"
    <3>1. Authorized(old).held > 0
      BY <1>5 DEF Authorized, PaymentRows
    <3>2. Captured(old).held > 0
      BY <1>5, CapturedFacts
    <3>3. Pended(old).answer = "pending"
      BY <1>5 DEF Pended, PaymentRows
    <3> QED BY <1>10, <3>1, <3>2, <3>3
  <2>2. pay'[c][p] = row
    BY <1>10 DEF Inv, TypeOK
  <2> QED BY <2>1, <2>2 DEF Sound, Backed
<1>11. CASE pay[c][p].held > 0 /\ UNCHANGED pay
  <2>1. Sound(pay'[c][p])
    BY <1>11 DEF Sound, Backed
  <2> QED BY <1>1, <1>4, <1>8, <1>9, <1>10, <2>1, ChargedRow DEF Inv
<1>12. CASE ~(pay[c][p].held > 0 /\ UNCHANGED pay)
  BY <1>1, <1>4, <1>8, <1>9, <1>10, <1>12, ChargedRow DEF Inv
<1> QED BY <1>11, <1>12

\* The order is made of a payment that holds its money or is pending.
LEMMA FinishOrderHist ==
    ASSUME Inv, History, NEW t \in Threads, FinishOrder(t)
    PROVE  History'
<1>1. PICK c \in Checkouts : Of(t) = c
  BY OfType DEF Inv
<1>2. \A d \in Checkouts : d # c => Same(d)
  BY <1>1, OnlyOwn DEF Inv, PaymentFlow
<1>3. /\ ~At(t, "idle") /\ At(t, "finish") /\ Done(t) /\ UNCHANGED <<counted, overlapped>>
      /\ ~thread[t].action /\ ~RefundOngoing(t)
      /\ open[c] /\ PlaceOrder(c, "payment", TRUE)
  BY <1>1 DEF FinishOrder, At
<1>4. PICK p \in Payments : thread[t].payment = p
  BY <1>1, <1>3 DEF Inv, ThreadsOK, ThreadOK, At
<1>5. pay[c][p] \in PaymentRows /\ pay[c][p].made
  BY <1>1, <1>3, <1>4 DEF Inv, ThreadsOK, ThreadOK, At, TypeOK
<1>6. /\ pay'[c][p].held = pay[c][p].held /\ pay'[c][p].refunding = pay[c][p].refunding
      /\ pay'[c][p].answer = pay[c][p].answer /\ pay'[c][p].active = pay[c][p].active
      /\ pay'[c][p].ordered
  <2>1. Assigned(c, p)
    BY <1>3, PlaceOrderFacts DEF Inv
  <2> QED BY <1>5, <2>1 DEF Assigned
<1>7. ASSUME ~overlapped[c]
      PROVE  PaidOrder(c)' /\ (Secluded => counted'[c])
  <2>1. PaidAt(t) /\ (Secluded => CountedAt(t))
    BY <1>1, <1>3, <1>7, AtWork
  <2>2. pay[c][p].refunding = 0
    BY <1>1, <1>3, <1>4, <1>5 DEF RefundOngoing, PaymentRows
  <2>3. Backed(pay[c][p])
    BY <1>1, <1>3, <1>4, <2>1, <2>2 DEF PaidAt, Sound
  <2>4. PaidOrder(c)'
    BY <1>6, <2>2, <2>3 DEF PaidOrder, Secure, Backed
  <2>5. Secluded => counted'[c]
    BY <1>1, <1>3, <2>1 DEF CountedAt, At
  <2> QED BY <2>4, <2>5
<1> QED BY <1>1, <1>2, <1>3, <1>7, HistEnd DEF Inv

LEMMA ValidateVoucherHist ==
    ASSUME Inv, History, NEW t \in Threads, ValidateVoucher(t)
    PROVE  History'
<1>1. PICK c \in Checkouts : Of(t) = c
  BY OfType DEF Inv
<1>2. \A d \in Checkouts : d # c => Same(d)
  BY <1>1, OnlyOwn DEF Inv, TransactionFlow
<1>3. ~At(t, "idle") /\ At(t, "validate") /\ UNCHANGED <<counted, orders, overlapped>>
  BY DEF ValidateVoucher, At
<1> DEFINE state == [thread[t] EXCEPT !.pc = "count", !.voucher = Applicable(thread[t].seen)]
<1>4. /\ state \in ThreadStates /\ state.pc = "count" /\ state.checkout = c
      /\ state.seen = thread[t].seen /\ (state.voucher <=> Applicable(thread[t].seen))
  BY <1>1, OfType DEF Inv, TypeOK, ThreadStates, Steps, Applicable, Of
<1>5. Move(t, state) /\ "transaction" \in Flows
  BY <1>3 DEF ValidateVoucher, History, FlowsOK, At
<1> HIDE DEF state
<1>6. thread'[t] = state
  BY <1>4, <1>5, MoveFacts DEF Inv
<1>7. PaidAt(t)'
  BY <1>4, <1>6 DEF PaidAt, At
<1>8. ASSUME ~overlapped[c], Secluded
      PROVE  CountedAt(t)'
  <2>1. CountedAt(t)
    BY <1>1, <1>3, <1>8, AtWork
  <2> QED BY <1>1, <1>3, <1>4, <1>6, <2>1 DEF CountedAt, At, Of
<1> QED BY <1>1, <1>2, <1>3, <1>4, <1>5, <1>7, <1>8, HistMove DEF Inv

LEMMA CountVoucherHist ==
    ASSUME Inv, History, NEW t \in Threads, CountVoucher(t)
    PROVE  History'
<1>1. PICK c \in Checkouts : Of(t) = c
  BY OfType DEF Inv
<1>2. \A d \in Checkouts : d # c => Same(d)
  BY <1>1, OnlyOwn DEF Inv, TransactionFlow
<1>3. ~At(t, "idle") /\ At(t, "count") /\ UNCHANGED <<orders, overlapped>>
  BY DEF CountVoucher, At
<1>4. CASE Done(t)
  BY <1>1, <1>2, <1>3, <1>4, HistEnd DEF Inv
<1>5. CASE /\ Goto(t, "create")
           /\ \/ (~thread[t].voucher \/ thread[t].seen) /\ UNCHANGED counted
              \/ CountUsage(c, FALSE)
  <2> DEFINE state == [thread[t] EXCEPT !.pc = "create"]
  <2>1. state \in ThreadStates /\ state.pc = "create" /\ state.checkout = c
    BY <1>1, OfType DEF Inv, ThreadStates, Steps, Of
  <2>2. Move(t, state) /\ "transaction" \in Flows
    BY <1>3, <1>5 DEF Goto, History, FlowsOK, At
  <2> HIDE DEF state
  <2>3. thread'[t] = state
    BY <2>1, <2>2, MoveFacts DEF Inv
  <2>4. PaidAt(t)'
    BY <2>1, <2>3 DEF PaidAt, At
  <2>5. ASSUME ~overlapped[c], Secluded
        PROVE  CountedAt(t)'
    <3>1. thread[t].voucher /\ (thread[t].seen <=> counted[c])
      BY <1>1, <1>3, <2>5, AtWork DEF CountedAt, At
    <3>2. counted'[c]
      BY <1>5, <3>1 DEF CountUsage, Inv, TypeOK
    <3> QED BY <2>1, <2>3, <3>2 DEF CountedAt, At, Of
  <2> QED BY <1>1, <1>2, <1>3, <2>1, <2>2, <2>4, <2>5, HistMove DEF Inv
<1> QED BY <1>1, <1>4, <1>5 DEF CountVoucher

LEMMA CreateOrderHist ==
    ASSUME Inv, History, NEW t \in Threads, CreateOrder(t)
    PROVE  History'
<1>1. PICK c \in Checkouts : Of(t) = c
  BY OfType DEF Inv
<1>2. \A d \in Checkouts : d # c => Same(d)
  BY <1>1, OnlyOwn DEF Inv, TransactionFlow
<1> DEFINE voucher == thread[t].voucher \/ Applicable(counted[c])
<1>3. /\ ~At(t, "idle") /\ At(t, "create") /\ Done(t) /\ UNCHANGED <<counted, overlapped>>
      /\ open[c] /\ PlaceOrder(c, "transaction", voucher)
  BY <1>1 DEF CreateOrder, At
<1>4. voucher \in BOOLEAN
  BY <1>1 DEF Inv, TypeOK, ThreadStates, Applicable
<1> HIDE DEF voucher
<1>5. orders'[c] = {[id |-> 0, flow |-> "transaction", voucher |-> voucher]}
  BY <1>3, <1>4, PlaceOrderFacts DEF Inv
<1>6. PaidOrder(c)'
  BY <1>5 DEF PaidOrder
<1>7. ~overlapped[c] /\ Secluded => counted'[c]
  BY <1>1, <1>3, AtWork DEF CountedAt, At
<1> QED BY <1>1, <1>2, <1>3, <1>6, <1>7, HistEnd DEF Inv

LEMMA OthersHist ==
    ASSUME Inv, History, NEW c \in Checkouts,
           \/ CreatePayment(c) \/ LockTimeout(c) \/ Expire(c)
           \/ \E p \in Payments : RefundArrives(c, p) \/ PendingReported(c, p)
    PROVE  History'
<1> DEFINE Kept(d, q) ==
              /\ pay[d][q].ordered /\ Secure(pay[d][q])
                    => pay'[d][q].ordered /\ Secure(pay'[d][q])
              /\ pay[d][q].made /\ Sound(pay[d][q]) => Sound(pay'[d][q])
<1>1. UNCHANGED <<counted, used, orders, thread, overlapped>>
  BY DEF CreatePayment, LockTimeout, Expire, RefundArrives, PendingReported
<1>2. \A d \in Checkouts, q \in Payments : Kept(d, q)
  <2> SUFFICES ASSUME NEW d \in Checkouts, NEW q \in Payments
               PROVE  Kept(d, q)
    OBVIOUS
  <2>1. pay[d][q] \in PaymentRows
    BY DEF Inv, TypeOK
  <2>2. CASE CreatePayment(c)
    <3>1. PICK p \in Payments :
             /\ ~pay[c][p].made
             /\ pay' = [pay EXCEPT ![c] = [r \in Payments |->
                          IF r = p THEN Made ELSE [pay[c][r] EXCEPT !.active = FALSE]]]
      BY <2>2 DEF CreatePayment
    <3>2. CASE d # c
      BY <3>1, <3>2 DEF Inv, TypeOK
    <3>3. CASE d = c
      <4>1. ~pay[c][q].ordered
        BY <2>2 DEF CreatePayment, Inv, RowsOK, RowOK
      <4>2. CASE q = p
        BY <3>1, <3>3, <4>1, <4>2
      <4>3. CASE q # p
        <5>1. pay'[c][q] = Passive(pay[c][q])
          BY <3>1, <4>3 DEF Inv, TypeOK, Passive
        <5> QED BY <2>1, <3>3, <4>1, <5>1, PassiveKeeps
      <4> QED BY <4>2, <4>3
    <3> QED BY <3>2, <3>3
  <2>3. CASE LockTimeout(c) \/ Expire(c)
    BY <2>3 DEF LockTimeout, Expire
  <2>4. ASSUME NEW p \in Payments, RefundArrives(c, p)
        PROVE  Kept(d, q)
    <3>1. pay' = [pay EXCEPT ![c][p] = Arrived(pay[c][p])]
      BY <2>4, ArrivedRow DEF Inv
    <3>2. CASE d # c \/ q # p
      BY <3>1, <3>2 DEF Inv, TypeOK
    <3>3. CASE d = c /\ q = p
      <4>1. pay[d][q].refunding > 0
        BY <2>4, <3>3 DEF RefundArrives
      <4>2. pay'[d][q] = Arrived(pay[d][q])
        BY <3>1, <3>3 DEF Inv, TypeOK
      <4>3. pay'[d][q].ordered = pay[d][q].ordered
        BY <2>1, <4>2, MoneyFacts
      <4> QED BY <2>1, <4>1, <4>2, <4>3, ArrivedKeeps
    <3> QED BY <3>2, <3>3
  <2>5. ASSUME NEW p \in Payments, PendingReported(c, p)
        PROVE  Kept(d, q)
    <3>1. PICK new \in Reported(pay[c][p]) : pay' = [pay EXCEPT ![c][p] = new]
      BY <2>5, ReportedRow DEF Inv
    <3>2. CASE d # c \/ q # p
      BY <3>1, <3>2 DEF Inv, TypeOK
    <3>3. CASE d = c /\ q = p
      <4>1. pay[d][q].answer = "pending"
        BY <2>5, <3>3 DEF PendingReported
      <4>2. pay'[d][q] = new /\ new \in Reported(pay[d][q])
        BY <3>1, <3>3 DEF Inv, TypeOK
      <4>3. pay'[d][q].ordered = pay[d][q].ordered
        BY <2>1, <4>2, ReportedFacts
      <4> QED BY <2>1, <4>1, <4>2, <4>3, ReportedKeeps
    <3> QED BY <3>2, <3>3
  <2> QED BY <2>2, <2>3, <2>4, <2>5
<1> QED BY <1>1, <1>2, HistOthers

LEMMA InitHistory == Init => History
<1> SUFFICES ASSUME Init
             PROVE  History
  OBVIOUS
<1>1. \A t \in Threads : thread[t].pc = "idle"
  BY DEF Init, Idle
<1>2. \A c \in Checkouts : orders[c] = {}
  BY DEF Init
<1>3. FlowsOK
  BY <1>1 DEF FlowsOK
<1>4. \A c \in Checkouts : Hist(c)
  BY <1>1, <1>2 DEF Hist, Lone, PaidOrder, WithVoucher, Busy
<1> QED BY <1>3, <1>4 DEF History

LEMMA StutterHistory ==
    ASSUME Inv, History, UNCHANGED vars
    PROVE  History'
<1>1. UNCHANGED <<counted, used, pay, orders, thread, overlapped>>
  BY DEF vars
<1> QED BY <1>1, HistOthers

LEMMA NextHistory == Inv /\ History /\ [Next]_vars => History'
<1> SUFFICES ASSUME Inv, History, [Next]_vars
             PROVE  History'
  OBVIOUS
<1>1. ASSUME NEW t \in Threads, NEW c \in Checkouts, NEW flow \in Flows, Begin(t, c, flow)
      PROVE  History'
  BY <1>1, BeginHist
<1>2. ASSUME NEW t \in Threads,
             PaymentFlow(t) \/ TransactionFlow(t) \/ FindOrder(t) \/ Kill(t)
      PROVE  History'
  BY <1>2, EndHist, LockCheckoutHist, PrepareHist, ChargeHist, FinishOrderHist,
     ValidateVoucherHist, CountVoucherHist, CreateOrderHist DEF PaymentFlow, TransactionFlow
<1>3. ASSUME NEW c \in Checkouts, CreatePayment(c) \/ LockTimeout(c) \/ Expire(c)
      PROVE  History'
  BY <1>3, OthersHist
<1>4. ASSUME NEW c \in Checkouts, NEW p \in Payments,
             RefundArrives(c, p) \/ PendingReported(c, p)
      PROVE  History'
  BY <1>4, OthersHist
<1> QED BY <1>1, <1>2, <1>3, <1>4, StutterHistory DEF Next

LEMMA HistoryHolds == Spec => [](Inv /\ History)
<1>1. Init => Inv /\ History
  BY InitInv, InitHistory
<1>2. (Inv /\ History) /\ [Next]_vars => (Inv /\ History)'
  BY NextInv, NextHistory
<1> QED BY <1>1, <1>2, PTL DEF Spec

\* Whatever attempts follow each other on a checkout, failing, killed or
\* retried, the order that the payment flow makes of it holds its money, or
\* rests on a payment that the gateway has accepted with PENDING, however
\* often payments are replaced and refunds and captures arrive in between.
THEOREM OrdersArePaid == Spec => []OrderPaid
<1>1. Inv /\ History => OrderPaid
  BY DEF History, Hist, PaidOrder, Secure, OrderPaid
<1> QED BY <1>1, HistoryHolds, PTL

\* Attempts that follow each other never leave a use of the voucher
\* uncounted, for any number of checkouts in the payment flow and for one
\* checkout in the transaction flow.
THEOREM VoucherCounted ==
    ASSUME Secluded
    PROVE  Spec => []VoucherHeld
<1>1. ASSUME Inv, History
      PROVE  VoucherHeld
  <2> SUFFICES ASSUME \A c \in Checkouts : ~overlapped[c]
               PROVE  used >= SumOf([c \in Checkouts |-> Counting(c)], Checkouts)
    BY DEF VoucherHeld
  <2> DEFINE counts == [c \in Checkouts |-> Counting(c)]
  <2>1. \A c \in Checkouts : WithVoucher(c) => counted[c]
    BY <1>1 DEF History, Hist
  <2>2. \A c \in Checkouts : counts[c] \in Nat /\ Flags[c] \in Nat /\ counts[c] <= Flags[c]
    BY <2>1 DEF Counting, Flags
  <2>3. SumOf(counts, Checkouts) <= SumOf(Flags, Checkouts)
    BY <2>2, SumMonotone, CheckoutsAssumption
  <2>4. SumOf(counts, Checkouts) \in Nat /\ SumOf(Flags, Checkouts) \in Nat
    BY <2>2, SumType, CheckoutsAssumption
  <2>5. used \in Nat /\ used >= SumOf(Flags, Checkouts)
    BY <1>1 DEF Inv, UsesCounted, TypeOK
  <2>6. used >= SumOf(counts, Checkouts)
    <3> HIDE DEF counts
    <3> QED BY <2>3, <2>4, <2>5
  <2> QED BY <2>6
<1>2. Inv /\ History => VoucherHeld
  BY <1>1
<1> QED BY <1>2, HistoryHolds, PTL

=============================================================================
