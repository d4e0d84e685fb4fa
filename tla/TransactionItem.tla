-------------------------- MODULE TransactionItem --------------------------
(***************************************************************************)
(* The events and the amounts of one payment transaction:                  *)
(* transactionEventReport, transactionRequestAction with the answer of the *)
(* payment app, transactionUpdate, and the recalculation of the amounts    *)
(* (saleor/payment/transaction_item_calculations.py) that ends each.       *)
(*                                                                         *)
(* Whether an event is new is decided under a lock of the transaction's    *)
(* row.  The amounts are calculated after that lock is gone: the events    *)
(* are read in one step and the eight columns are saved in another.        *)
(*                                                                         *)
(* An event type is a pair of an action and a kind; AUTHORIZATION_ADJUST-  *)
(* MENT, CHARGE_BACK and REFUND_REVERSE are the kind "extra" of their      *)
(* action.  INFO and *_ACTION_REQUIRED events move no amount and are left  *)
(* out.  An app may report an event with any created_at of Times; the rows *)
(* that the program stamps itself have the time Now.                       *)
(***************************************************************************)
EXTENDS Quantities

CONSTANTS
    Workers,    \* requests and Celery tasks working on the transaction
    Refs,       \* psp references
    NoRef,      \* an event without psp reference
    Reports,    \* the events that apps may report
    Requested,  \* the actions that may be requested, with their amounts
    Fields,     \* what transactionUpdate may be called with: a column or NoMoney
    Inputs,     \* the amounts it may be given
    Times,      \* values of created_at
    Now,        \* created_at of a row that the program stamps itself
    MaxEvents   \* bound on the rows of the event table

Actions == {"authorization", "charge", "refund", "cancel"}
Kinds == {"request", "success", "failure", "extra"}

NoMoney == "no money"

Message == [action : Actions, kind : Kinds, ref : Refs, amount : Nat, time : Times]
Told == [action : Actions, kind : Kinds, ref : Refs, amount : Int, time : Times]
Event == [action : Actions, kind : Kinds, ref : Refs \cup {NoRef}, amount : Int,
          time : Times, included : BOOLEAN, pk : 1 .. MaxEvents]
Amounts == [done : [Actions -> Int], pending : [Actions -> Int]]

ASSUME TransactionAssumption ==
    /\ IsFiniteSet(Refs) /\ NoRef \notin Refs
    /\ Reports \subseteq Message
    /\ Requested \subseteq {"charge", "refund", "cancel"} \X Nat
    /\ Inputs \subseteq Nat
    /\ Fields \subseteq Actions \cup {NoMoney}
    /\ Times \subseteq Int /\ Now \in Times
    /\ MaxEvents \in Nat

VARIABLES
    events,    \* the TransactionEvent rows
    asked,     \* keys of the requests whose task has not got the app's answer
    item,      \* the amounts saved in the TransactionItem row
    worker,    \* what each worker is doing
    told,      \* history: what the payment app has told, repetitions left out
    disturbed, \* history: item may stem from events that have changed since
    refused    \* history: an event was refused for its details

vars == <<events, asked, item, worker, told, disturbed, refused>>

Zero == [a \in Actions |-> 0]
NoAmounts == [done |-> Zero, pending |-> Zero]
WorkerStates == [pc : {"idle", "calculate", "save", "fail", "answer", "store", "measure",
                       "adjust"},
                 event : SUBSET Told, request : Nat, field : Actions \cup {NoMoney},
                 input : Nat, held : Amounts, alone : BOOLEAN]
Idle == [pc |-> "idle", event |-> {}, request |-> 0, field |-> NoMoney,
         input |-> 0, held |-> NoAmounts, alone |-> TRUE]

-----------------------------------------------------------------------------
(***************************************************************************)
(* The calculation of the amounts from a set E of events.                  *)
(***************************************************************************)
Of(E, a, k, r) == {e \in E : e.action = a /\ e.kind = k /\ e.ref = r}

Latest(E) == {e \in E : \A f \in E : f.time <= e.time}

\* What the action map keeps of a type and a reference: the last event in the
\* order of created_at.
Kept(E, a, k, r) == CHOOSE e \in Latest(Of(E, a, k, r)) : TRUE

Amount(E, a, k, r) == IF Of(E, a, k, r) = {} THEN 0 ELSE Kept(E, a, k, r).amount

\* _should_increase_pending_amount
IsPending(E, a, r) ==
    Of(E, a, "success", r) = {} /\ Of(E, a, "failure", r) = {}

\* Mutant: a failure takes a success back whenever it was reported.
IsDoneUntimed(E, a, r) == Of(E, a, "failure", r) = {}

\* _should_increse_amount: a success counts unless a failure is as new.
IsDone(E, a, r) ==
    \/ Of(E, a, "success", r) = {} \/ Of(E, a, "failure", r) = {}
    \/ Kept(E, a, "success", r).time > Kept(E, a, "failure", r).time

Pending(E, a) ==
    Total([r \in Refs |-> IF IsPending(E, a, r) THEN Amount(E, a, "request", r) ELSE 0], Refs)

Done(E, a) ==
    Total([r \in Refs |-> IF IsDone(E, a, r) THEN Amount(E, a, "success", r) ELSE 0], Refs)

Extra(E, a) == Total([r \in Refs |-> Amount(E, a, "extra", r)], Refs)

AmountsIn(E) == Total([e \in E |-> e.amount], E)

\* _handle_events_without_psp_reference
Plain(E, a) == AmountsIn(Of(E, a, "success", NoRef))

\* _get_authorize_events: the newest adjustment and what is sorted behind it.
\* The order of rows with the same created_at is the database's choice.
AuthorizeEvents(E) ==
    LET all == {e \in E : e.action = "authorization"}
        newest == Latest({e \in all : e.kind = "extra"})
    IN  IF newest = {} THEN {all}
        ELSE {{e \in all : e.time > j.time} \cup {j} \cup tied :
                  j \in newest,
                  tied \in SUBSET {e \in all : e.kind # "extra" /\ \E j \in newest : e.time = j.time}}

\* The authorized amount before charges and cancellations: the adjustment
\* without a reference starts from its amount, the one with a reference
\* overwrites what the events without a reference gave.
Authorized(A) ==
    LET adjustment == {e \in A : e.kind = "extra"}
        base == IF adjustment = {} THEN 0 ELSE (CHOOSE e \in adjustment : TRUE).amount
    IN  Done(A, "authorization") + base
            + IF \E e \in adjustment : e.ref # NoRef THEN 0 ELSE Plain(A, "authorization")

Moved(E, a) == Pending(E, a) + Done(E, a)

\* The authorized, charged, refunded and canceled amounts.
Balance(E, A, a) ==
    CASE a = "authorization" -> Authorized(A) - Moved(E, "charge") - Moved(E, "cancel")
      [] a = "charge" -> Plain(E, "charge") + Done(E, "charge") - Extra(E, "charge")
                             + Extra(E, "refund") - Moved(E, "refund")
      [] a = "refund" -> Plain(E, "refund") + Done(E, "refund") - Extra(E, "refund")
      [] a = "cancel" -> Plain(E, "cancel") + Done(E, "cancel")

AmountsOf(E, A) ==
    [done |-> [a \in Actions |-> Balance(E, A, a)],
     pending |-> [a \in Actions |-> Pending(IF a = "authorization" THEN A ELSE E, a)]]

Counted(rows) == {e \in rows : e.included}

\* calculate_transaction_amount_based_on_events
Calculations(rows) ==
    {AmountsOf(Counted(rows), A) : A \in AuthorizeEvents(Counted(rows))}

\* The two maxima of recalculate_transaction_amounts; a pending amount is
\* never below zero, as no authorization is requested for less.
Clamped(amounts) ==
    [amounts EXCEPT !.done = [amounts.done EXCEPT !["authorization"] = Pos(@)]]

-----------------------------------------------------------------------------
(***************************************************************************)
(* Rows and workers.                                                       *)
(***************************************************************************)
Init ==
    /\ events = {} /\ asked = {}
    /\ item = NoAmounts
    /\ worker = [w \in Workers |-> Idle]
    /\ told = {}
    /\ disturbed = FALSE /\ refused = FALSE

Row(m, ref, included) ==
    [action |-> m.action, kind |-> m.kind, ref |-> ref, amount |-> m.amount,
     time |-> m.time, included |-> included, pk |-> Cardinality(events) + 1]

RoomForRow == Cardinality(events) < MaxEvents

\* get_already_existing_event: the row with the lowest key, counted or not.
Existing(m) ==
    LET same == Of(events, m.action, m.kind, m.ref)
    IN  {e \in same : \A f \in same : e.pk <= f.pk}

AuthorizedBefore(m) ==
    /\ m.action = "authorization" /\ m.kind = "success"
    /\ \E e \in events : e.action = "authorization" /\ e.kind = "success"

\* Mutant: only a row with the same amount is looked for.
IsNewByAmount(m) ==
    ~(\E e \in Existing(m) : e.amount = m.amount) /\ ~AuthorizedBefore(m)

IsNew(m) == Existing(m) = {} /\ ~AuthorizedBefore(m)

IsRepeated(m) == \E e \in Existing(m) : e.amount = m.amount

Conflicts(m) == ~IsNew(m) /\ ~IsRepeated(m)

\* A payment app may repeat an event; what it told first is the fact.
Tell(m) ==
    told' = IF Of(told, m.action, m.kind, m.ref) = {} THEN told \cup {m} ELSE told

\* Mutant: the failure gets a type that does not exist.
FailureMisspelt(m) == [m EXCEPT !.kind = "failed", !.time = Now]

\* create_failed_transaction_event: the failure type of m's action.
Failure(m) == [m EXCEPT !.kind = "failure", !.time = Now]

Active(w) == worker[w].pc # "idle"

\* Worker w starts; everyone at work from now on has company.
Begin(w, state) ==
    worker' = [v \in Workers |->
        IF v = w THEN [state EXCEPT !.alone = \A u \in Workers : ~Active(u)]
        ELSE IF Active(v) THEN [worker[v] EXCEPT !.alone = FALSE]
        ELSE worker[v]]

Step(w, pc) == worker' = [worker EXCEPT ![w].pc = pc]

-----------------------------------------------------------------------------
(***************************************************************************)
(* transactionEventReport.                                                 *)
(***************************************************************************)
ReportNew(w, m) ==
    /\ ~Active(w) /\ RoomForRow
    /\ IsNew(m)
    /\ events' = events \cup {Row(m, m.ref, TRUE)}
    /\ Begin(w, [Idle EXCEPT !.pc = "calculate"])
    /\ Tell(m)
    /\ UNCHANGED <<asked, item, disturbed, refused>>

\* already_processed: nothing is saved and nothing is calculated.
ReportRepeated(w, m) ==
    /\ ~Active(w)
    /\ IsRepeated(m)
    /\ Tell(m)
    /\ UNCHANGED <<events, asked, item, worker, disturbed, refused>>

ReportConflicting(w, m) ==
    /\ ~Active(w)
    /\ Conflicts(m)
    /\ Begin(w, [Idle EXCEPT !.pc = "fail", !.event = {m}])
    /\ refused' = TRUE
    /\ UNCHANGED <<events, asked, item, told, disturbed>>

\* After the lock is gone, in a transaction of its own.
RecordFailure(w) ==
    /\ worker[w].pc = "fail" /\ RoomForRow
    /\ \E m \in worker[w].event : events' = events \cup {Row(Failure(m), m.ref, FALSE)}
    /\ worker' = [worker EXCEPT ![w] = Idle]
    /\ UNCHANGED <<asked, item, told, disturbed, refused>>

-----------------------------------------------------------------------------
(***************************************************************************)
(* transactionRequestAction and the answer of the app.                     *)
(***************************************************************************)
\* The amount is at most what is left to charge or to refund; 0 or no amount
\* means all of it, and a cancellation is requested for 0.
RequestAction(a, v) ==
    LET left == IF a = "charge" THEN item.done["authorization"] ELSE item.done["charge"]
        amount == IF a = "cancel" THEN 0
                  ELSE IF v = 0 \/ left < v THEN left ELSE v
        m == [action |-> a, kind |-> "request", amount |-> amount, time |-> Now]
    IN  /\ RoomForRow
        /\ events' = events \cup {Row(m, NoRef, FALSE)}
        /\ asked' = asked \cup {Cardinality(events) + 1}
        /\ UNCHANGED <<item, worker, told, disturbed, refused>>

Request(pk) == CHOOSE e \in events : e.pk = pk

\* No usable answer after the last retry.
AnswerNothing(pk) ==
    /\ RoomForRow
    /\ events' = events \cup {Row(Failure(Request(pk)), NoRef, FALSE)}
    /\ asked' = asked \ {pk}
    /\ UNCHANGED <<item, worker, told, disturbed, refused>>

\* The answer names a reference: the request gets it and counts from now on.
\* The row is not locked and other events are not looked at.  The app is
\* assumed to use a reference for one request of an action.
AnswerReference(w, pk, ref, answer) ==
    LET e == Request(pk)
        given == [action |-> e.action, kind |-> "request", ref |-> ref,
                  amount |-> e.amount, time |-> e.time]
    IN  /\ ~Active(w)
        /\ Of(events, e.action, "request", ref) = {}
        /\ events' = (events \ {e}) \cup {[e EXCEPT !.ref = ref, !.included = TRUE]}
        /\ asked' = asked \ {pk}
        /\ Begin(w, [Idle EXCEPT !.pc = IF answer = {} THEN "calculate" ELSE "answer",
                                 !.event = answer, !.request = pk])
        /\ Tell(given)
        /\ UNCHANGED <<item, disturbed, refused>>

\* _create_event_from_response, under the lock of the transaction's row.
AnswerEvent(w) ==
    \E m \in worker[w].event :
        /\ worker[w].pc = "answer" /\ RoomForRow
        /\ \/ /\ IsNew(m)
              /\ events' = events \cup {Row(m, m.ref, TRUE)}
              /\ Step(w, "calculate") /\ Tell(m)
              /\ UNCHANGED refused
           \/ /\ IsRepeated(m)
              /\ Step(w, "calculate") /\ Tell(m)
              /\ UNCHANGED <<events, refused>>
           \/ /\ Conflicts(m)
              /\ refused' = TRUE
              /\ worker' = [worker EXCEPT ![w].pc = "fail",
                                ![w].event = {[m EXCEPT !.amount = Request(worker[w].request).amount]}]
              /\ UNCHANGED <<events, told>>
        /\ UNCHANGED <<asked, item, disturbed>>

-----------------------------------------------------------------------------
(***************************************************************************)
(* transactionUpdate.  The instance read first is saved with all its       *)
(* columns, the amounts included.                                          *)
(***************************************************************************)
UpdateRead(w, field, input) ==
    /\ ~Active(w)
    /\ Begin(w, [Idle EXCEPT !.pc = "store", !.field = field, !.input = input,
                             !.held = item])
    /\ UNCHANGED <<events, asked, item, told, disturbed, refused>>

UpdateStore(w) ==
    /\ worker[w].pc = "store"
    /\ item' = worker[w].held
    /\ \/ /\ worker[w].field = NoMoney
          /\ worker' = [worker EXCEPT ![w] = Idle]
          /\ disturbed' = (disturbed \/ ~worker[w].alone)
       \/ /\ worker[w].field # NoMoney
          /\ Step(w, "measure")
          /\ UNCHANGED disturbed
    /\ UNCHANGED <<events, asked, told, refused>>

UpdateMeasure(w) ==
    /\ worker[w].pc = "measure"
    /\ \E amounts \in Calculations(events) :
          worker' = [worker EXCEPT ![w].pc = "adjust", ![w].held = amounts]
    /\ UNCHANGED <<events, asked, item, told, disturbed, refused>>

\* Mutant: the saved amounts are compared, not the ones just calculated.
DifferenceToSaved(w) == worker[w].input - item.done[worker[w].field]

Difference(w) == worker[w].input - worker[w].held.done[worker[w].field]

\* create_manual_adjustment_events: an authorization that exists is replaced,
\* every other amount is changed by the difference.
UpdateAdjust(w) ==
    LET field == worker[w].field
        replaces == /\ field = "authorization"
                    /\ \E e \in events : e.action = field /\ e.kind = "success"
        manual == [action |-> field, kind |-> IF replaces THEN "extra" ELSE "success",
                   amount |-> IF replaces THEN worker[w].input ELSE Difference(w),
                   time |-> Now]
    IN  /\ worker[w].pc = "adjust" /\ RoomForRow
        /\ IF worker[w].held.done[field] = worker[w].input THEN UNCHANGED events
           ELSE events' = events \cup {Row(manual, NoRef, TRUE)}
        /\ Step(w, "calculate")
        /\ UNCHANGED <<asked, item, told, disturbed, refused>>

-----------------------------------------------------------------------------
(***************************************************************************)
(* recalculate_transaction_amounts: the events are read, then the amounts  *)
(* are saved.                                                              *)
(***************************************************************************)
Calculate(w) ==
    /\ worker[w].pc = "calculate"
    /\ \E amounts \in Calculations(events) :
          worker' = [worker EXCEPT ![w].pc = "save", ![w].held = Clamped(amounts)]
    /\ UNCHANGED <<events, asked, item, told, disturbed, refused>>

Save(w) ==
    /\ worker[w].pc = "save"
    /\ item' = worker[w].held
    /\ worker' = [worker EXCEPT ![w] = Idle]
    /\ disturbed' = ~worker[w].alone
    /\ UNCHANGED <<events, asked, told, refused>>

\* The process dies; what it has committed stays.
Kill(w) ==
    /\ Active(w)
    /\ worker' = [worker EXCEPT ![w] = Idle]
    /\ disturbed' = TRUE
    /\ UNCHANGED <<events, asked, item, told, refused>>

Answers(pk, ref) ==
    {{}} \cup {{m} : m \in {n \in Reports : /\ n.ref = ref /\ n.action = Request(pk).action
                                           /\ n.kind \in {"success", "failure"}}}

Next ==
    \/ \E w \in Workers, m \in Reports :
          ReportNew(w, m) \/ ReportRepeated(w, m) \/ ReportConflicting(w, m)
    \/ \E request \in Requested : RequestAction(request[1], request[2])
    \/ \E pk \in asked : AnswerNothing(pk)
    \/ \E w \in Workers, pk \in asked, ref \in Refs :
          \E answer \in Answers(pk, ref) : AnswerReference(w, pk, ref, answer)
    \/ \E w \in Workers, field \in Fields, input \in Inputs :
          UpdateRead(w, field, input)
    \/ \E w \in Workers :
          \/ RecordFailure(w) \/ AnswerEvent(w)
          \/ UpdateStore(w) \/ UpdateMeasure(w) \/ UpdateAdjust(w)
          \/ Calculate(w) \/ Save(w) \/ Kill(w)

Spec == Init /\ [][Next]_vars

-----------------------------------------------------------------------------
\* The types of the variables.
TypeOK ==
    /\ events \subseteq Event /\ asked \subseteq 1 .. MaxEvents
    /\ item \in Amounts
    /\ worker \in [Workers -> WorkerStates]
    /\ told \subseteq Told
    /\ disturbed \in BOOLEAN /\ refused \in BOOLEAN

\* transactionEventReport, "we will always create a single event on our side
\* for specific action": however reports and answers are repeated and overlap,
\* of the events that count and carry a psp reference, at most one has a given
\* type and reference and at most one is a successful authorization. Rows of
\* requests and rows without a reference are left out.
SingleEvent ==
    \A e, f \in {r \in events : r.included /\ r.ref # NoRef /\ r.kind # "request"} :
        e # f => /\ <<e.action, e.kind, e.ref>> # <<f.action, f.kind, f.ref>>
                 /\ ~(/\ e.action = "authorization" /\ e.kind = "success"
                      /\ f.action = "authorization" /\ f.kind = "success")

\* The references of action a that the app told were carried out, and those
\* it told were asked for and nothing else of.
CarriedOut(a) ==
    {r \in Refs : \E s \in Of(told, a, "success", r) :
                      \A f \in Of(told, a, "failure", r) : s.time > f.time}
Waiting(a) ==
    {r \in Refs : \A m \in Of(told, a, "success", r) \cup Of(told, a, "failure", r) : FALSE}
ToldAmount(a, k, R) == AmountsIn({m \in told : m.action = a /\ m.kind = k /\ m.ref \in R})
Ledger(a) == ToldAmount(a, "success", CarriedOut(a))
OnTheWay(a) == ToldAmount(a, "request", Waiting(a))

\* The amounts are the ledger of what the app told, plus manual corrections.
ShowLedger(amounts) ==
    /\ \A a \in Actions \ {"authorization"} : amounts.pending[a] = OnTheWay(a)
    /\ amounts.done["charge"] =
          Ledger("charge") + Plain(events, "charge") - ToldAmount("charge", "extra", Refs)
              - Ledger("refund") - OnTheWay("refund") + ToldAmount("refund", "extra", Refs)
    /\ amounts.done["refund"] =
          Ledger("refund") + Plain(events, "refund") - ToldAmount("refund", "extra", Refs)
    /\ amounts.done["cancel"] = Ledger("cancel") + Plain(events, "cancel")
    /\ ~(\E e \in events : e.action = "authorization" /\ e.kind = "extra") =>
          amounts.done["authorization"] =
              Pos(Ledger("authorization") + Plain(events, "authorization")
                      - Ledger("charge") - OnTheWay("charge")
                      - Ledger("cancel") - OnTheWay("cancel"))

\* Once every worker is done, the saved amounts are the ledger of what the app
\* told, in whatever order, however often and with whatever times it told it,
\* plus the manual corrections - unless the last save overlapped other work or
\* a worker died before its save, or some event was refused.
LedgerShown ==
    (\A w \in Workers : ~Active(w)) /\ ~disturbed /\ ~refused => ShowLedger(item)

\* transactionUpdate sets the charged, refunded or canceled amount to its
\* input, whatever events the transaction has, when nothing else works on the
\* transaction meanwhile.
UpdateSticks ==
    [][\A w \in Workers :
          (/\ worker[w].pc = "save" /\ worker'[w].pc = "idle" /\ item' = worker[w].held
           /\ worker[w].alone
           /\ worker[w].field \in Actions \ {"authorization"})
              => item'.done[worker[w].field] = worker[w].input]_vars
=============================================================================
