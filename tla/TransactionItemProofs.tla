----------------------- MODULE TransactionItemProofs -----------------------
(***************************************************************************)
(* For any reports, requests, times and workers: an event counts once, the *)
(* amounts of a transaction are the ledger of what the payment app told,   *)
(* and transactionUpdate sets the amount that it is given.                 *)
(*                                                                         *)
(* Inv says what rows there can be, whoever is at work; Books relates the  *)
(* amounts, saved or still held by a worker that works alone, to them.     *)
(***************************************************************************)
EXTENDS TransactionItem, QuantityFacts

\* What an event says.
Msg(e) == [action |-> e.action, kind |-> e.kind, ref |-> e.ref, amount |-> e.amount,
           time |-> e.time]

KeysOK ==
    /\ IsFiniteSet(events)
    /\ \A e, f \in events : e.pk = f.pk => e = f
    /\ \A e \in events : e.pk <= Cardinality(events)

AskedOK ==
    \A pk \in asked :
        \E e \in events : e.pk = pk /\ e.ref = NoRef /\ ~e.included /\ e.kind = "request"

WorkersOK ==
    \A w \in Workers :
        /\ worker[w].pc = "answer" => /\ \E e \in events : e.pk = worker[w].request
                                      /\ worker[w].field = NoMoney
        /\ worker[w].pc \in {"measure", "adjust"} => worker[w].field # NoMoney

Unique ==
    \A e, f \in Counted(events) :
        /\ e.ref # NoRef /\ f.ref # NoRef /\ e.action = f.action /\ e.kind = f.kind
        /\ e.ref = f.ref \/ (e.action = "authorization" /\ e.kind = "success")
        => e = f

Inv == TypeOK /\ KeysOK /\ AskedOK /\ WorkersOK /\ Unique

Lonely ==
    \A v, w \in Workers : v # w /\ Active(v) /\ Active(w) => ~worker[w].alone

PlainCounted == \A e \in events : e.ref = NoRef /\ e.kind = "success" => e.included

Known ==
    ~refused =>
        /\ \A e \in events : e.ref # NoRef => e.included /\ Msg(e) \in told
        /\ \A m \in told : \E e \in events : Msg(e) = m
        /\ \A w \in Workers : worker[w].pc # "fail"

Ledgered ==
    ~refused =>
        /\ \A w \in Workers : worker[w].alone =>
              /\ worker[w].pc = "save" => ShowLedger(worker[w].held)
              /\ worker[w].pc = "store" /\ ~disturbed => ShowLedger(worker[w].held)
        /\ (\A w \in Workers : ~Active(w)) /\ ~disturbed => ShowLedger(item)

Value(a) == Balance(Counted(events), {}, a)

AdjustedAt(w) ==
    worker[w].alone /\ worker[w].field \in Actions \ {"authorization"} =>
        /\ worker[w].pc = "adjust" => worker[w].held.done[worker[w].field] = Value(worker[w].field)
        /\ worker[w].pc = "calculate" => Value(worker[w].field) = worker[w].input
        /\ worker[w].pc = "save" => worker[w].held.done[worker[w].field] = worker[w].input

Adjusted == \A w \in Workers : AdjustedAt(w)

Books == Lonely /\ PlainCounted /\ Known /\ Ledgered /\ Adjusted

-----------------------------------------------------------------------------
(***************************************************************************)
(* The calculation of the amounts.                                         *)
(***************************************************************************)
\* Of each type and reference one event counts, and the action map keeps it.
LEMMA KeptFacts ==
    ASSUME TypeOK, Unique, NEW E \in SUBSET Counted(events), NEW a, NEW k,
           NEW r \in Refs, NEW e \in Of(E, a, k, r)
    PROVE  /\ Of(E, a, k, r) = {e}
           /\ Kept(E, a, k, r) = e
           /\ e.amount \in Int /\ e.time \in Int
<1>1. r # NoRef
  BY TransactionAssumption
<1>2. e \in events /\ e \in Event
  BY DEF Of, Counted, TypeOK
<1>3. e.amount \in Int /\ e.time \in Int
  BY <1>2, TransactionAssumption DEF Event
<1>4. Of(E, a, k, r) = {e}
  BY <1>1 DEF Of, Unique, Counted
<1>5. Latest({e}) = {e}
  BY <1>3 DEF Latest
<1> QED BY <1>3, <1>4, <1>5 DEF Kept

LEMMA AmountType ==
    ASSUME TypeOK, Unique, NEW E \in SUBSET Counted(events), NEW a, NEW k, NEW r \in Refs
    PROVE  Amount(E, a, k, r) \in Int
<1>1. CASE Of(E, a, k, r) = {}
  BY <1>1 DEF Amount
<1>2. CASE Of(E, a, k, r) # {}
  <2>1. PICK e \in Of(E, a, k, r) : TRUE
    BY <1>2
  <2> QED BY <1>2, <2>1, KeptFacts DEF Amount
<1> QED BY <1>1, <1>2

\* The sum of the amounts of finitely many events.
LEMMA AmountsInType ==
    ASSUME NEW M, IsFiniteSet(M), \A m \in M : m.amount \in Int
    PROVE  AmountsIn(M) \in Int
<1> DEFINE f == [m \in M |-> m.amount]
<1>1. \A m \in M : f[m] \in Int
  OBVIOUS
<1> HIDE DEF f
<1>2. Total(f, M) \in Int
  BY <1>1, TotalType
<1> QED BY <1>2 DEF AmountsIn, f

LEMMA AmountsInAdd ==
    ASSUME NEW M, IsFiniteSet(M), \A m \in M : m.amount \in Int,
           NEW row, row \notin M, row.amount \in Int
    PROVE  AmountsIn(M \cup {row}) = AmountsIn(M) + row.amount
<1> DEFINE f == [m \in M |-> m.amount]
           g == [m \in M \cup {row} |-> m.amount]
<1>1. \A m \in M : f[m] \in Int
  OBVIOUS
<1>2. \A m \in M : g[m] = f[m]
  OBVIOUS
<1>3. g[row] \in Int
  OBVIOUS
<1>4. g[row] = row.amount
  OBVIOUS
<1> HIDE DEF f, g
<1>5. Total(g, M \cup {row}) = Total(f, M) + g[row]
  BY <1>1, <1>2, <1>3, TotalAdd
<1> QED BY <1>4, <1>5 DEF AmountsIn, f, g

LEMMA SumsType ==
    ASSUME TypeOK, KeysOK, Unique, NEW E \in SUBSET Counted(events), NEW a
    PROVE  /\ Pending(E, a) \in Int /\ Done(E, a) \in Int
           /\ Extra(E, a) \in Int /\ Plain(E, a) \in Int
<1> DEFINE p == [r \in Refs |-> IF IsPending(E, a, r) THEN Amount(E, a, "request", r) ELSE 0]
           d == [r \in Refs |-> IF IsDone(E, a, r) THEN Amount(E, a, "success", r) ELSE 0]
           x == [r \in Refs |-> Amount(E, a, "extra", r)]
<1>1. \A r \in Refs : p[r] \in Int /\ d[r] \in Int /\ x[r] \in Int
  BY AmountType
<1> HIDE DEF p, d, x
<1>2. Total(p, Refs) \in Int /\ Total(d, Refs) \in Int /\ Total(x, Refs) \in Int
  BY <1>1, TotalType, TransactionAssumption
<1>3. Plain(E, a) \in Int
  <2>1. Of(E, a, "success", NoRef) \in SUBSET events
    BY DEF Of, Counted
  <2>2. IsFiniteSet(Of(E, a, "success", NoRef))
    BY <2>1, FS_Subset DEF KeysOK
  <2>3. \A e \in Of(E, a, "success", NoRef) : e.amount \in Int
    BY <2>1 DEF TypeOK, Event
  <2> QED BY <2>2, <2>3, AmountsInType DEF Plain
<1> QED BY <1>2, <1>3 DEF Pending, Done, Extra, p, d, x

\* The amounts of the four columns and the four pending ones.
LEMMA CalculationFacts ==
    ASSUME TypeOK, KeysOK, Unique, NEW amounts \in Calculations(events)
    PROVE  /\ amounts \in Amounts
           /\ \E A \in AuthorizeEvents(Counted(events)) :
                 A \in SUBSET Counted(events) /\ amounts = AmountsOf(Counted(events), A)
<1> DEFINE E == Counted(events)
<1>1. PICK A \in AuthorizeEvents(E) : amounts = AmountsOf(E, A)
  BY DEF Calculations
<1>2. A \in SUBSET E
  BY DEF AuthorizeEvents, Latest
<1>3. \A a \in Actions : Pending(E, a) \in Int /\ Done(E, a) \in Int
                            /\ Extra(E, a) \in Int /\ Plain(E, a) \in Int
  BY SumsType
<1>4. \A a \in Actions : Pending(A, a) \in Int /\ Done(A, a) \in Int /\ Plain(A, a) \in Int
  BY <1>2, SumsType
<1>5. Authorized(A) \in Int
  <2> DEFINE adjustment == {e \in A : e.kind = "extra"}
  <2>1. (IF adjustment = {} THEN 0 ELSE (CHOOSE e \in adjustment : TRUE).amount) \in Int
    <3>1. \A e \in adjustment : e.amount \in Int
      BY <1>2 DEF Counted, TypeOK, Event
    <3> HIDE DEF adjustment
    <3> QED BY <3>1
  <2> QED BY <1>4, <2>1 DEF Authorized, Actions
<1>6. \A a \in Actions : Balance(E, A, a) \in Int
  BY <1>3, <1>5 DEF Balance, Moved, Actions
<1>7. \A a \in Actions : Pending(IF a = "authorization" THEN A ELSE E, a) \in Int
  BY <1>3, <1>4
<1>8. amounts \in Amounts
  BY <1>1, <1>6, <1>7 DEF AmountsOf, Amounts
<1> QED BY <1>1, <1>2, <1>8

LEMMA ClampedFacts ==
    ASSUME NEW amounts \in Amounts
    PROVE  /\ Clamped(amounts) \in Amounts
           /\ Clamped(amounts).pending = amounts.pending
           /\ Clamped(amounts).done["authorization"] = Pos(amounts.done["authorization"])
           /\ \A a \in Actions \ {"authorization"} :
                 Clamped(amounts).done[a] = amounts.done[a]
<1> DEFINE new == [amounts.done EXCEPT !["authorization"] = Pos(amounts.done["authorization"])]
<1>1. amounts.done \in [Actions -> Int] /\ amounts.pending \in [Actions -> Int]
  BY DEF Amounts
<1>2. /\ new \in [Actions -> Int]
      /\ new["authorization"] = Pos(amounts.done["authorization"])
      /\ \A a \in Actions \ {"authorization"} : new[a] = amounts.done[a]
  BY <1>1 DEF Pos, Actions
<1>3. Clamped(amounts) = [amounts EXCEPT !.done = new]
  BY DEF Clamped
<1> HIDE DEF new
<1> QED BY <1>1, <1>2, <1>3 DEF Amounts

-----------------------------------------------------------------------------
(***************************************************************************)
(* Rows and workers.                                                       *)
(***************************************************************************)
\* The states x and y of a worker agree in all but alone.
Agree(x, y) ==
    /\ x.pc = y.pc /\ x.event = y.event /\ x.request = y.request
    /\ x.field = y.field /\ x.input = y.input /\ x.held = y.held

LEMMA RowFacts ==
    ASSUME TypeOK, KeysOK, RoomForRow, NEW m,
           m.action \in Actions, m.kind \in Kinds, m.amount \in Int, m.time \in Times,
           NEW ref \in Refs \cup {NoRef}, NEW included \in BOOLEAN
    PROVE  LET row == Row(m, ref, included)
           IN  /\ row \in Event /\ row.pk = Cardinality(events) + 1
               /\ row.action = m.action /\ row.kind = m.kind /\ row.ref = ref
               /\ row.amount = m.amount /\ row.time = m.time /\ (row.included <=> included)
<1>1. Cardinality(events) \in Nat /\ Cardinality(events) < MaxEvents
  BY FS_CardinalityType DEF KeysOK, RoomForRow
<1>2. Cardinality(events) + 1 \in 1 .. MaxEvents
  BY <1>1, TransactionAssumption
<1>3. Row(m, ref, included) \in Event
  BY <1>2 DEF Row, Event
<1> QED BY <1>3 DEF Row

\* A row that comes gets the next key.  It must not repeat one that counts.
LEMMA RowAdded ==
    ASSUME TypeOK, KeysOK, Unique, NEW row \in Event, row.pk = Cardinality(events) + 1,
           events' = events \cup {row},
           row.included /\ row.ref # NoRef =>
               \A e \in Counted(events) :
                   e.ref # NoRef /\ e.action = row.action /\ e.kind = row.kind =>
                       /\ e.ref # row.ref
                       /\ ~(e.action = "authorization" /\ e.kind = "success")
    PROVE  /\ row \notin events /\ events' \subseteq Event /\ KeysOK' /\ Unique'
           /\ \A e \in events : e \in events'
<1>1. Cardinality(events) \in Nat
  BY FS_CardinalityType DEF KeysOK
<1>2. \A e \in events : e.pk \in Int /\ e.pk < row.pk
  BY <1>1 DEF KeysOK, TypeOK, Event
<1>3. row \notin events
  BY <1>2, <1>1
<1>4. IsFiniteSet(events') /\ Cardinality(events') = Cardinality(events) + 1
  BY <1>3, FS_AddElement DEF KeysOK
<1>5. KeysOK'
  <2>1. \A e, f \in events' : e.pk = f.pk => e = f
    BY <1>1, <1>2 DEF KeysOK
  <2>2. \A e \in events' : e.pk <= Cardinality(events')
    BY <1>1, <1>2, <1>4
  <2> QED BY <1>4, <2>1, <2>2 DEF KeysOK
<1>6. Unique'
  BY DEF Unique, Counted
<1>7. events' \subseteq Event
  BY DEF TypeOK
<1> QED BY <1>3, <1>5, <1>6, <1>7

\* get_already_existing_event finds a row if there is one.
LEMMA ExistingFacts ==
    ASSUME TypeOK, KeysOK, NEW m
    PROVE  /\ Existing(m) \subseteq Of(events, m.action, m.kind, m.ref)
           /\ Existing(m) = {} => Of(events, m.action, m.kind, m.ref) = {}
<1> DEFINE same == Of(events, m.action, m.kind, m.ref)
           keys == {e.pk : e \in same}
<1>1. Existing(m) \subseteq same
  BY DEF Existing
<1>2. ASSUME same # {}
      PROVE  Existing(m) # {}
  <2>1. keys \subseteq Nat /\ keys # {}
    BY <1>2 DEF Of, TypeOK, Event
  <2>2. PICK k \in keys : \A j \in keys : k <= j
    <3> HIDE DEF keys
    <3> QED BY <2>1, LeastNumber
  <2>3. PICK e \in same : e.pk = k
    BY <2>2
  <2>4. e \in Existing(m)
    BY <2>2, <2>3 DEF Existing
  <2> QED BY <2>4
<1> QED BY <1>1, <1>2

\* The worker that starts, and the others.
LEMMA BeginFacts ==
    ASSUME TypeOK, NEW w \in Workers, NEW s \in WorkerStates, Begin(w, s)
    PROVE  /\ worker' \in [Workers -> WorkerStates]
           /\ Agree(worker'[w], s)
           /\ (worker'[w].alone <=> \A u \in Workers : ~Active(u))
           /\ \A v \in Workers \ {w} : /\ Agree(worker'[v], worker[v])
                                      /\ (Active(v) => ~worker'[v].alone)
                                      /\ (~Active(v) => worker'[v] = worker[v])
<1>1. ASSUME NEW t \in WorkerStates, NEW b \in BOOLEAN
      PROVE  /\ [t EXCEPT !.alone = b] \in WorkerStates
             /\ Agree([t EXCEPT !.alone = b], t)
             /\ [t EXCEPT !.alone = b].alone <=> b
  BY DEF WorkerStates, Agree
<1>2. worker'[w] = [s EXCEPT !.alone = \A u \in Workers : ~Active(u)]
  BY DEF Begin
<1>3. \A v \in Workers \ {w} :
         worker'[v] = IF Active(v) THEN [worker[v] EXCEPT !.alone = FALSE] ELSE worker[v]
  BY DEF Begin
<1>4. \A v \in Workers : worker[v] \in WorkerStates /\ Agree(worker[v], worker[v])
  BY DEF TypeOK, Agree
<1>5. /\ worker'[w] \in WorkerStates
      /\ Agree(worker'[w], s)
      /\ worker'[w].alone <=> \A u \in Workers : ~Active(u)
  BY <1>1, <1>2
<1>6. ASSUME NEW v \in Workers \ {w}
      PROVE  /\ worker'[v] \in WorkerStates
             /\ Agree(worker'[v], worker[v])
             /\ Active(v) => ~worker'[v].alone
             /\ ~Active(v) => worker'[v] = worker[v]
  <2>1. [worker[v] EXCEPT !.alone = FALSE].alone <=> FALSE
    BY <1>1, <1>4
  <2> QED BY <1>1, <1>3, <1>4, <2>1
<1>7. worker' = [v \in Workers |-> worker'[v]]
  BY DEF Begin
<1>8. worker' \in [Workers -> WorkerStates]
  BY <1>5, <1>6, <1>7
<1> QED BY <1>5, <1>6, <1>8

LEMMA IdleType == Idle \in WorkerStates
<1>1. NoAmounts \in Amounts
  BY DEF NoAmounts, Zero, Amounts
<1> QED BY <1>1 DEF Idle, WorkerStates

\* A step of one worker leaves the others alone.
LEMMA StepFacts ==
    ASSUME TypeOK, NEW w \in Workers, NEW s \in WorkerStates,
           worker' = [worker EXCEPT ![w] = s]
    PROVE  /\ worker' \in [Workers -> WorkerStates]
           /\ worker'[w] = s
           /\ \A v \in Workers \ {w} : worker'[v] = worker[v]
BY DEF TypeOK

\* The states in which a worker starts.
LEMMA StartFacts ==
    /\ LET s == [Idle EXCEPT !.pc = "calculate"]
       IN  s \in WorkerStates /\ s.pc = "calculate" /\ s.field = NoMoney
    /\ \A m \in Told :
          LET s == [Idle EXCEPT !.pc = "fail", !.event = {m}]
          IN  s \in WorkerStates /\ s.pc = "fail" /\ s.field = NoMoney
<1>1. Idle \in WorkerStates /\ Idle.field = NoMoney
  BY IdleType DEF Idle
<1> QED BY <1>1 DEF WorkerStates

LEMMA MessageFacts ==
    ASSUME NEW m \in Reports
    PROVE  m \in Told /\ m.ref # NoRef
BY TransactionAssumption DEF Message, Told

LEMMA ToldFacts ==
    ASSUME NEW m \in Told
    PROVE  /\ m.action \in Actions /\ m.kind \in Kinds /\ m.amount \in Int
           /\ m.time \in Times /\ m.ref \in Refs /\ m.ref # NoRef
BY TransactionAssumption DEF Told

LEMMA EventFacts ==
    ASSUME NEW e \in Event
    PROVE  /\ e.action \in Actions /\ e.kind \in Kinds /\ e.amount \in Int
           /\ e.time \in Times /\ e.ref \in Refs \cup {NoRef} /\ e.pk \in 1 .. MaxEvents
           /\ e.included \in BOOLEAN /\ Msg(e) \in [action : Actions, kind : Kinds,
                  ref : Refs \cup {NoRef}, amount : Int, time : Times]
BY DEF Event, Msg

LEMMA FailureFacts ==
    ASSUME NEW m \in Told \cup Event
    PROVE  /\ Failure(m).action = m.action /\ Failure(m).kind = "failure"
           /\ Failure(m).amount = m.amount /\ Failure(m).time = Now
BY DEF Failure, Told, Event

\* The row of an outstanding request.
LEMMA RequestFacts ==
    ASSUME TypeOK, KeysOK, NEW pk, \E e \in events : e.pk = pk
    PROVE  /\ Request(pk) \in events /\ Request(pk) \in Event
           /\ Request(pk).pk = pk
           /\ \A e \in events : e.pk = pk => e = Request(pk)
BY DEF Request, TypeOK, KeysOK

LEMMA AskedFacts ==
    ASSUME Inv, NEW pk \in asked
    PROVE  /\ \E e \in events : e.pk = pk
           /\ Request(pk).ref = NoRef /\ ~Request(pk).included
           /\ Request(pk).kind = "request"
<1>1. PICK e \in events : e.pk = pk /\ e.ref = NoRef /\ ~e.included /\ e.kind = "request"
  BY DEF Inv, AskedOK
<1>2. e = Request(pk)
  BY <1>1, RequestFacts DEF Inv
<1> QED BY <1>1, <1>2

\* Where rows only come, what is asked for and what workers refer to stays.
LEMMA RowsStay ==
    ASSUME Inv, \A e \in events : e \in events', asked' \subseteq asked,
           \A w \in Workers :
               \/ worker'[w].pc \notin {"answer", "measure", "adjust"}
               \/ /\ worker'[w].pc = worker[w].pc /\ worker'[w].field = worker[w].field
                  /\ worker'[w].request = worker[w].request
    PROVE  AskedOK' /\ WorkersOK'
<1>1. AskedOK'
  BY DEF Inv, AskedOK
<1>2. WorkersOK'
  BY DEF Inv, WorkersOK
<1> QED BY <1>1, <1>2

\* What is told has its type.
LEMMA TellType ==
    ASSUME TypeOK, NEW m \in Told, Tell(m)
    PROVE  told' \subseteq Told
BY DEF TypeOK, Tell

-----------------------------------------------------------------------------
(***************************************************************************)
(* Each action preserves Inv.                                              *)
(***************************************************************************)
\* A row for a message that is new repeats nothing that counts.
LEMMA NewRow ==
    ASSUME Inv, RoomForRow, NEW m \in Told, IsNew(m),
           events' = events \cup {Row(m, m.ref, TRUE)}
    PROVE  LET row == Row(m, m.ref, TRUE)
           IN  /\ row \in Event /\ Msg(row) = m /\ row.included /\ row \notin events
               /\ events' \subseteq Event /\ KeysOK' /\ Unique'
               /\ \A e \in events : e \in events'
<1> DEFINE row == Row(m, m.ref, TRUE)
<1>1. /\ m.action \in Actions /\ m.kind \in Kinds /\ m.amount \in Int
      /\ m.time \in Times /\ m.ref \in Refs /\ m.ref # NoRef
  BY ToldFacts
<1>2. /\ row \in Event /\ row.pk = Cardinality(events) + 1
      /\ row.action = m.action /\ row.kind = m.kind /\ row.ref = m.ref
      /\ row.amount = m.amount /\ row.time = m.time /\ (row.included <=> TRUE)
  BY <1>1, RowFacts, TRUE \in BOOLEAN DEF Inv
<1>3. Msg(row) = m
  BY <1>2 DEF Msg, Told
<1>4. Of(events, m.action, m.kind, m.ref) = {}
  BY ExistingFacts DEF Inv, IsNew
<1>5. \A e \in Counted(events) :
         e.ref # NoRef /\ e.action = row.action /\ e.kind = row.kind =>
             e.ref # row.ref /\ ~(e.action = "authorization" /\ e.kind = "success")
  BY <1>2, <1>4 DEF IsNew, AuthorizedBefore, Of, Counted
<1> HIDE DEF row
<1>6. /\ row \notin events /\ events' \subseteq Event /\ KeysOK' /\ Unique'
      /\ \A e \in events : e \in events'
  BY <1>2, <1>5, RowAdded DEF Inv, row
<1> QED BY <1>2, <1>3, <1>6 DEF row

\* A row without reference, or one that does not count, repeats nothing.
LEMMA OtherRow ==
    ASSUME Inv, RoomForRow, NEW m, NEW ref \in Refs \cup {NoRef}, NEW included \in BOOLEAN,
           m.action \in Actions, m.kind \in Kinds, m.amount \in Int, m.time \in Times,
           ~included \/ ref = NoRef,
           events' = events \cup {Row(m, ref, included)}
    PROVE  LET row == Row(m, ref, included)
           IN  /\ row \in Event /\ row \notin events /\ row.pk = Cardinality(events) + 1
               /\ row.action = m.action /\ row.kind = m.kind /\ row.ref = ref
               /\ row.amount = m.amount /\ row.time = m.time /\ (row.included <=> included)
               /\ events' \subseteq Event /\ KeysOK' /\ Unique'
               /\ \A e \in events : e \in events'
<1> DEFINE row == Row(m, ref, included)
<1>1. /\ row \in Event /\ row.pk = Cardinality(events) + 1
      /\ row.action = m.action /\ row.kind = m.kind /\ row.ref = ref
      /\ row.amount = m.amount /\ row.time = m.time /\ (row.included <=> included)
  BY RowFacts DEF Inv
<1> HIDE DEF row
<1>2. /\ row \notin events /\ events' \subseteq Event /\ KeysOK' /\ Unique'
      /\ \A e \in events : e \in events'
  BY <1>1, RowAdded DEF Inv, row
<1> QED BY <1>1, <1>2 DEF row

LEMMA ReportNewInv ==
    ASSUME Inv, NEW w \in Workers, NEW m \in Reports, ReportNew(w, m)
    PROVE  Inv'
<1> DEFINE s == [Idle EXCEPT !.pc = "calculate"]
<1>1. m \in Told
  BY MessageFacts
<1>2. s \in WorkerStates /\ s.pc = "calculate"
  BY StartFacts
<1>3. /\ events' \subseteq Event /\ KeysOK' /\ Unique' /\ \A e \in events : e \in events'
  BY <1>1, NewRow DEF ReportNew
<1>4. Begin(w, s)
  BY DEF ReportNew
<1> HIDE DEF s
<1>5. /\ worker' \in [Workers -> WorkerStates] /\ worker'[w].pc = "calculate"
      /\ \A v \in Workers \ {w} : Agree(worker'[v], worker[v])
  <2>1. /\ worker' \in [Workers -> WorkerStates] /\ Agree(worker'[w], s)
        /\ \A v \in Workers \ {w} : Agree(worker'[v], worker[v])
    BY <1>2, <1>4, BeginFacts DEF Inv
  <2> QED BY <1>2, <1>4, <2>1 DEF Agree
<1>6. told' \subseteq Told
  BY <1>1, TellType DEF ReportNew, Inv
<1>7. TypeOK'
  BY <1>3, <1>5, <1>6 DEF ReportNew, Inv, TypeOK
<1>8. AskedOK' /\ WorkersOK'
  BY <1>3, <1>5, RowsStay DEF Agree, ReportNew
<1> QED BY <1>3, <1>7, <1>8 DEF Inv

LEMMA ReportRepeatedInv ==
    ASSUME Inv, NEW w \in Workers, NEW m \in Reports, ReportRepeated(w, m)
    PROVE  Inv'
<1>1. m \in Told
  BY MessageFacts
<1>2. told' \subseteq Told
  BY <1>1, TellType DEF ReportRepeated, Inv
<1>3. TypeOK'
  BY <1>2 DEF ReportRepeated, Inv, TypeOK
<1> QED BY <1>3 DEF ReportRepeated, Inv, KeysOK, AskedOK, WorkersOK, Unique, Counted

LEMMA ReportConflictingInv ==
    ASSUME Inv, NEW w \in Workers, NEW m \in Reports, ReportConflicting(w, m)
    PROVE  Inv'
<1> DEFINE s == [Idle EXCEPT !.pc = "fail", !.event = {m}]
<1>1. s \in WorkerStates /\ s.pc = "fail"
  BY MessageFacts, StartFacts
<1>2. Begin(w, s)
  BY DEF ReportConflicting
<1> HIDE DEF s
<1>3. /\ worker' \in [Workers -> WorkerStates] /\ worker'[w].pc = "fail"
      /\ \A v \in Workers \ {w} : Agree(worker'[v], worker[v])
  <2>1. /\ worker' \in [Workers -> WorkerStates] /\ Agree(worker'[w], s)
        /\ \A v \in Workers \ {w} : Agree(worker'[v], worker[v])
    BY <1>1, <1>2, BeginFacts DEF Inv
  <2> QED BY <1>1, <1>2, <2>1 DEF Agree
<1>4. TypeOK'
  BY <1>3 DEF ReportConflicting, Inv, TypeOK
<1>5. AskedOK' /\ WorkersOK'
  BY <1>3, RowsStay DEF Agree, ReportConflicting
<1> QED BY <1>4, <1>5 DEF ReportConflicting, Inv, KeysOK, Unique, Counted

LEMMA RecordFailureInv ==
    ASSUME Inv, NEW w \in Workers, RecordFailure(w)
    PROVE  Inv'
<1>1. PICK m \in worker[w].event : events' = events \cup {Row(Failure(m), m.ref, FALSE)}
  BY DEF RecordFailure
<1>2. m \in Told
  BY DEF Inv, TypeOK, WorkerStates
<1>3. /\ m.action \in Actions /\ m.kind \in Kinds /\ m.amount \in Int
      /\ m.time \in Times /\ m.ref \in Refs /\ m.ref # NoRef
  BY <1>2, ToldFacts
<1>4. /\ Failure(m).action \in Actions /\ Failure(m).kind \in Kinds
      /\ Failure(m).amount \in Int /\ Failure(m).time \in Times
  BY <1>2, <1>3, FailureFacts, TransactionAssumption DEF Kinds
<1>5. /\ events' \subseteq Event /\ KeysOK' /\ Unique' /\ \A e \in events : e \in events'
  <2> DEFINE n == Failure(m)
  <2> HIDE DEF n
  <2> QED BY <1>1, <1>3, <1>4, OtherRow DEF RecordFailure, n
<1>6. /\ worker' \in [Workers -> WorkerStates] /\ worker'[w] = Idle
      /\ \A v \in Workers \ {w} : worker'[v] = worker[v]
  BY IdleType, StepFacts DEF RecordFailure, Inv
<1>7. TypeOK'
  BY <1>5, <1>6 DEF RecordFailure, Inv, TypeOK
<1>8. AskedOK' /\ WorkersOK'
  BY <1>5, <1>6, RowsStay DEF RecordFailure, Idle
<1> QED BY <1>5, <1>7, <1>8 DEF Inv

LEMMA RequestActionInv ==
    ASSUME Inv, NEW a \in {"charge", "refund", "cancel"}, NEW v \in Nat, RequestAction(a, v)
    PROVE  Inv'
<1> DEFINE left == IF a = "charge" THEN item.done["authorization"] ELSE item.done["charge"]
           amount == IF a = "cancel" THEN 0
                     ELSE IF v = 0 \/ left < v THEN left ELSE v
           m == [action |-> a, kind |-> "request", amount |-> amount, time |-> Now]
           row == Row(m, NoRef, FALSE)
<1>1. amount \in Int
  BY DEF Inv, TypeOK, Amounts, Actions
<1>2. /\ RoomForRow
      /\ events' = events \cup {row}
      /\ asked' = asked \cup {Cardinality(events) + 1}
      /\ UNCHANGED <<item, worker, told, disturbed, refused>>
  BY DEF RequestAction
<1> HIDE DEF amount
<1>3. /\ m.action \in Actions /\ m.kind \in Kinds /\ m.amount \in Int
      /\ m.time \in Times /\ m.kind = "request"
  BY <1>1, TransactionAssumption DEF Actions, Kinds
<1> HIDE DEF m
<1>4. /\ row \in Event /\ row.pk = Cardinality(events) + 1 /\ row.kind = "request"
      /\ row.ref = NoRef /\ (row.included <=> FALSE)
      /\ events' \subseteq Event /\ KeysOK' /\ Unique' /\ \A e \in events : e \in events'
  <2>1. FALSE \in BOOLEAN /\ NoRef \in Refs \cup {NoRef}
    OBVIOUS
  <2>2. /\ row \in Event /\ row.pk = Cardinality(events) + 1 /\ row.kind = "request"
        /\ row.ref = NoRef /\ (row.included <=> FALSE)
    BY <1>2, <1>3, <2>1, RowFacts DEF Inv
  <2>3. /\ events' \subseteq Event /\ KeysOK' /\ Unique'
        /\ \A e \in events : e \in events'
    BY <1>2, <1>3, <2>1, OtherRow
  <2> QED BY <2>2, <2>3
<1> HIDE DEF row
<1>5. asked' \subseteq 1 .. MaxEvents
  BY <1>2, <1>4 DEF Inv, TypeOK, Event
<1>6. AskedOK'
  BY <1>2, <1>4 DEF Inv, AskedOK
<1>7. WorkersOK'
  BY <1>2, <1>4 DEF Inv, WorkersOK
<1>8. TypeOK'
  BY <1>2, <1>4, <1>5 DEF Inv, TypeOK
<1> QED BY <1>4, <1>6, <1>7, <1>8 DEF Inv

LEMMA AnswerNothingInv ==
    ASSUME Inv, NEW pk \in asked, AnswerNothing(pk)
    PROVE  Inv'
<1>1. Request(pk) \in Event
  BY AskedFacts, RequestFacts DEF Inv
<1>2. /\ Failure(Request(pk)).action \in Actions /\ Failure(Request(pk)).kind \in Kinds
      /\ Failure(Request(pk)).amount \in Int /\ Failure(Request(pk)).time \in Times
  BY <1>1, EventFacts, FailureFacts, TransactionAssumption DEF Kinds
<1>3. /\ events' \subseteq Event /\ KeysOK' /\ Unique' /\ \A e \in events : e \in events'
  <2> DEFINE n == Failure(Request(pk))
  <2> HIDE DEF n
  <2> QED BY <1>2, OtherRow DEF AnswerNothing, n
<1>4. TypeOK'
  BY <1>3 DEF AnswerNothing, Inv, TypeOK
<1>5. AskedOK' /\ WorkersOK'
  BY <1>3, RowsStay DEF AnswerNothing
<1> QED BY <1>3, <1>4, <1>5 DEF Inv

\* The request gets its reference and keeps its key.
LEMMA ReferenceGiven ==
    ASSUME Inv, NEW pk \in asked, NEW ref \in Refs,
           Of(events, Request(pk).action, "request", ref) = {},
           events' = (events \ {Request(pk)})
                         \cup {[Request(pk) EXCEPT !.ref = ref, !.included = TRUE]}
    PROVE  LET row == [Request(pk) EXCEPT !.ref = ref, !.included = TRUE]
           IN  /\ row \in Event /\ row.pk = pk /\ row.ref = ref /\ (row.included <=> TRUE)
               /\ row.action = Request(pk).action /\ row.kind = "request"
               /\ row.amount = Request(pk).amount /\ row.time = Request(pk).time
               /\ row \notin events
               /\ events' \subseteq Event /\ KeysOK' /\ Unique'
<1> DEFINE e == Request(pk)
           row == [e EXCEPT !.ref = ref, !.included = TRUE]
<1>1. /\ e \in events /\ e \in Event /\ e.pk = pk /\ e.kind = "request"
      /\ e.ref = NoRef /\ ~e.included /\ \A f \in events : f.pk = pk => f = e
  BY AskedFacts, RequestFacts DEF Inv
<1> HIDE DEF e
<1>2. /\ row \in Event /\ row.pk = pk /\ row.ref = ref /\ (row.included <=> TRUE)
      /\ row.action = e.action /\ row.kind = "request"
      /\ row.amount = e.amount /\ row.time = e.time
  BY <1>1 DEF Event
<1>3. events' = (events \ {e}) \cup {row}
  BY DEF e
<1> HIDE DEF row
<1>4. ref # NoRef
  BY TransactionAssumption
<1>5. row # e /\ row \notin events
  BY <1>1, <1>2, <1>4
<1>6. IsFiniteSet(events') /\ Cardinality(events') = Cardinality(events)
  <2>1. IsFiniteSet(events \ {e}) /\ Cardinality(events \ {e}) = Cardinality(events) - 1
    BY <1>1, FS_RemoveElement DEF Inv, KeysOK
  <2>2. IsFiniteSet(events') /\ Cardinality(events') = (Cardinality(events) - 1) + 1
    BY <1>3, <1>5, <2>1, FS_AddElement
  <2>3. Cardinality(events) \in Nat
    BY FS_CardinalityType DEF Inv, KeysOK
  <2> QED BY <2>2, <2>3
<1>7. KeysOK'
  BY <1>1, <1>2, <1>3, <1>6 DEF Inv, KeysOK
<1>8. Unique'
  <2>1. Of(events, row.action, row.kind, row.ref) = {}
    BY <1>2 DEF e
  <2>2. row.kind # "success"
    BY <1>2
  <2> QED BY <1>3, <2>1, <2>2 DEF Inv, Unique, Counted, Of
<1>9. events' \subseteq Event
  BY <1>2, <1>3 DEF Inv, TypeOK
<1> QED BY <1>2, <1>5, <1>7, <1>8, <1>9 DEF row, e

LEMMA AnswersFacts ==
    ASSUME NEW pk, NEW ref, NEW answer \in Answers(pk, ref)
    PROVE  answer \in SUBSET Told
<1>1. Reports \subseteq Told
  BY MessageFacts
<1> QED BY <1>1 DEF Answers

LEMMA AnswerReferenceInv ==
    ASSUME Inv, NEW w \in Workers, NEW pk \in asked, NEW ref \in Refs,
           NEW answer \in SUBSET Told, AnswerReference(w, pk, ref, answer)
    PROVE  Inv'
<1> DEFINE e == Request(pk)
           given == [action |-> e.action, kind |-> "request", ref |-> ref,
                     amount |-> e.amount, time |-> e.time]
           pc == IF answer = {} THEN "calculate" ELSE "answer"
           s == [Idle EXCEPT !.pc = pc, !.event = answer, !.request = pk]
           row == [e EXCEPT !.ref = ref, !.included = TRUE]
<1>1. /\ Of(events, e.action, "request", ref) = {}
      /\ events' = (events \ {e}) \cup {row}
      /\ asked' = asked \ {pk} /\ Begin(w, s) /\ Tell(given)
      /\ UNCHANGED <<item, disturbed, refused>>
  BY DEF AnswerReference
<1>2. /\ e \in events /\ e \in Event /\ e.pk = pk
      /\ \A f \in events : f.pk = pk => f = e
  BY AskedFacts, RequestFacts DEF Inv
<1>3. given \in Told
  BY <1>2 DEF Told, Event, Kinds
<1>4. s \in WorkerStates /\ s.pc = pc /\ s.request = pk /\ s.field = NoMoney
  <2>1. pc \in {"calculate", "answer"} /\ pk \in Nat /\ Idle.field = NoMoney
    BY DEF Inv, TypeOK, Idle
  <2> HIDE DEF pc
  <2> QED BY <2>1, IdleType DEF WorkerStates
<1>5. /\ row.pk = pk /\ events' \subseteq Event /\ KeysOK' /\ Unique'
  BY <1>1, ReferenceGiven
<1> HIDE DEF s, given, row, e
<1>6. /\ worker' \in [Workers -> WorkerStates]
      /\ worker'[w].pc = pc /\ worker'[w].request = pk /\ worker'[w].field = NoMoney
      /\ \A v \in Workers \ {w} : Agree(worker'[v], worker[v])
  <2>1. /\ worker' \in [Workers -> WorkerStates] /\ Agree(worker'[w], s)
        /\ \A v \in Workers \ {w} : Agree(worker'[v], worker[v])
    BY <1>1, <1>4, BeginFacts DEF Inv
  <2> QED BY <1>4, <2>1 DEF Agree
<1>7. told' \subseteq Told
  BY <1>1, <1>3, TellType DEF Inv
<1>8. TypeOK'
  BY <1>1, <1>5, <1>6, <1>7 DEF Inv, TypeOK
<1>9. AskedOK'
  BY <1>1, <1>2 DEF Inv, AskedOK
<1>10. \A f \in events : \E g \in events' : g.pk = f.pk
  BY <1>1, <1>2, <1>5
<1>11. WorkersOK'
  BY <1>1, <1>5, <1>6, <1>10 DEF Inv, WorkersOK, Agree
<1> QED BY <1>5, <1>8, <1>9, <1>11 DEF Inv

\* A step in which only the state of w may change.
LEMMA StepInv ==
    ASSUME Inv, NEW w \in Workers, NEW s \in WorkerStates,
           worker' = [worker EXCEPT ![w] = s],
           UNCHANGED <<events, asked, told>>, item' \in Amounts,
           disturbed' \in BOOLEAN, refused' \in BOOLEAN,
           s.pc # "answer", s.pc \in {"measure", "adjust"} => s.field # NoMoney
    PROVE  Inv'
<1>1. /\ worker' \in [Workers -> WorkerStates] /\ worker'[w] = s
      /\ \A v \in Workers \ {w} : worker'[v] = worker[v]
  BY StepFacts DEF Inv
<1>2. TypeOK'
  BY <1>1 DEF Inv, TypeOK
<1>3. WorkersOK'
  BY <1>1 DEF Inv, WorkersOK
<1> QED BY <1>2, <1>3 DEF Inv, KeysOK, AskedOK, Unique, Counted

LEMMA WorkerFacts ==
    ASSUME TypeOK, NEW w \in Workers
    PROVE  /\ worker[w] \in WorkerStates
           /\ worker[w].held \in Amounts /\ worker[w].event \in SUBSET Told
           /\ worker[w].request \in Nat /\ worker[w].field \in Actions \cup {NoMoney}
           /\ worker[w].input \in Nat /\ worker[w].alone \in BOOLEAN
BY DEF TypeOK, WorkerStates

LEMMA UpdateReadInv ==
    ASSUME Inv, NEW w \in Workers, NEW field \in Fields, NEW input \in Inputs,
           UpdateRead(w, field, input)
    PROVE  Inv'
<1> DEFINE s == [Idle EXCEPT !.pc = "store", !.field = field, !.input = input,
                             !.held = item]
<1>1. s \in WorkerStates /\ s.pc = "store"
  <2>1. field \in Actions \cup {NoMoney} /\ input \in Nat /\ item \in Amounts
    BY TransactionAssumption DEF Inv, TypeOK
  <2> QED BY <2>1, IdleType DEF WorkerStates
<1>2. Begin(w, s)
  BY DEF UpdateRead
<1> HIDE DEF s
<1>3. /\ worker' \in [Workers -> WorkerStates] /\ worker'[w].pc = "store"
      /\ \A v \in Workers \ {w} : Agree(worker'[v], worker[v])
  <2>1. /\ worker' \in [Workers -> WorkerStates] /\ Agree(worker'[w], s)
        /\ \A v \in Workers \ {w} : Agree(worker'[v], worker[v])
    BY <1>1, <1>2, BeginFacts DEF Inv
  <2> QED BY <1>1, <2>1 DEF Agree
<1>4. TypeOK'
  BY <1>3 DEF UpdateRead, Inv, TypeOK
<1>5. AskedOK' /\ WorkersOK'
  BY <1>3, RowsStay DEF Agree, UpdateRead
<1> QED BY <1>4, <1>5 DEF UpdateRead, Inv, KeysOK, Unique, Counted

LEMMA UpdateStoreInv ==
    ASSUME Inv, NEW w \in Workers, UpdateStore(w)
    PROVE  Inv'
<1>1. worker[w].held \in Amounts /\ worker[w].event \in SUBSET Told
  BY DEF Inv, TypeOK, WorkerStates
<1>2. disturbed' \in BOOLEAN
  BY DEF UpdateStore, Inv, TypeOK
<1>3. CASE worker' = [worker EXCEPT ![w] = Idle]
  <2>1. Idle.pc = "idle"
    BY DEF Idle
  <2> QED BY <1>1, <1>2, <1>3, <2>1, IdleType, StepInv DEF UpdateStore, Inv, TypeOK
<1>4. CASE worker[w].field # NoMoney /\ Step(w, "measure")
  <2> DEFINE s == [worker[w] EXCEPT !.pc = "measure"]
  <2>1. s \in WorkerStates /\ s.pc = "measure" /\ s.field = worker[w].field
    BY WorkerFacts DEF Inv, WorkerStates
  <2>2. worker' = [worker EXCEPT ![w] = s]
    BY <1>4 DEF Inv, TypeOK, Step
  <2> HIDE DEF s
  <2> QED BY <1>1, <1>2, <1>4, <2>1, <2>2, StepInv DEF UpdateStore, Inv, TypeOK
<1> QED BY <1>3, <1>4 DEF UpdateStore

LEMMA UpdateMeasureInv ==
    ASSUME Inv, NEW w \in Workers, UpdateMeasure(w)
    PROVE  Inv'
<1>1. PICK amounts \in Calculations(events) :
         worker' = [worker EXCEPT ![w].pc = "adjust", ![w].held = amounts]
  BY DEF UpdateMeasure
<1>2. amounts \in Amounts
  BY CalculationFacts DEF Inv
<1>3. worker[w].field # NoMoney /\ worker[w].event \in SUBSET Told
  BY DEF UpdateMeasure, Inv, WorkersOK, TypeOK, WorkerStates
<1> DEFINE s == [worker[w] EXCEPT !.pc = "adjust", !.held = amounts]
<1>4. s \in WorkerStates /\ s.pc = "adjust" /\ s.field = worker[w].field
  BY <1>2, WorkerFacts DEF Inv, WorkerStates
<1>5. worker' = [worker EXCEPT ![w] = s]
  BY <1>1 DEF Inv, TypeOK
<1> HIDE DEF s
<1> QED BY <1>3, <1>4, <1>5, StepInv DEF UpdateMeasure, Inv, TypeOK

LEMMA CalculateInv ==
    ASSUME Inv, NEW w \in Workers, Calculate(w)
    PROVE  Inv'
<1>1. PICK amounts \in Calculations(events) :
         worker' = [worker EXCEPT ![w].pc = "save", ![w].held = Clamped(amounts)]
  BY DEF Calculate
<1>2. Clamped(amounts) \in Amounts
  BY CalculationFacts, ClampedFacts DEF Inv
<1> DEFINE s == [worker[w] EXCEPT !.pc = "save", !.held = Clamped(amounts)]
<1>3. s \in WorkerStates /\ s.pc = "save"
  BY <1>2, WorkerFacts DEF Inv, WorkerStates
<1>4. worker' = [worker EXCEPT ![w] = s]
  BY <1>1 DEF Inv, TypeOK
<1> HIDE DEF s
<1> QED BY <1>3, <1>4, StepInv DEF Calculate, Inv, TypeOK

LEMMA SaveInv ==
    ASSUME Inv, NEW w \in Workers, Save(w) \/ Kill(w)
    PROVE  Inv'
<1>1. worker[w].held \in Amounts
  BY DEF Inv, TypeOK, WorkerStates
<1>2. disturbed' \in BOOLEAN
  BY DEF Save, Kill
<1>3. Idle.pc = "idle"
  BY DEF Idle
<1> QED BY <1>1, <1>2, <1>3, IdleType, StepInv DEF Save, Kill, Inv, TypeOK

\* create_manual_adjustment_events adds a row without reference, or none.
LEMMA AdjustFacts ==
    ASSUME Inv, NEW w \in Workers, UpdateAdjust(w)
    PROVE  LET field == worker[w].field
               replaces == /\ field = "authorization"
                           /\ \E e \in events : e.action = field /\ e.kind = "success"
               manual == [action |-> field, kind |-> IF replaces THEN "extra" ELSE "success",
                          amount |-> IF replaces THEN worker[w].input ELSE Difference(w),
                          time |-> Now]
               row == Row(manual, NoRef, TRUE)
           IN  /\ field \in Actions /\ Difference(w) \in Int
               /\ IF worker[w].held.done[field] = worker[w].input THEN UNCHANGED events
                  ELSE /\ events' = events \cup {row} /\ row \notin events
                       /\ row \in Event /\ row.action = field /\ row.kind = manual.kind
                       /\ row.amount = manual.amount /\ row.ref = NoRef
                       /\ (row.included <=> TRUE)
               /\ events' \subseteq Event /\ KeysOK' /\ Unique'
               /\ \A e \in events : e \in events'
<1> DEFINE field == worker[w].field
           replaces == /\ field = "authorization"
                       /\ \E e \in events : e.action = field /\ e.kind = "success"
           manual == [action |-> field, kind |-> IF replaces THEN "extra" ELSE "success",
                      amount |-> IF replaces THEN worker[w].input ELSE Difference(w),
                      time |-> Now]
           row == Row(manual, NoRef, TRUE)
<1>1. field \in Actions /\ Difference(w) \in Int
  <2>1. field \in Actions
    BY WorkerFacts DEF UpdateAdjust, Inv, WorkersOK
  <2>2. worker[w].held.done[field] \in Int
    BY <2>1, WorkerFacts DEF Inv, Amounts
  <2> QED BY <2>1, <2>2, WorkerFacts DEF Inv, Difference
<1>2. RoomForRow
  BY DEF UpdateAdjust
<1>3. CASE worker[w].held.done[field] = worker[w].input
  <2>1. UNCHANGED events
    BY <1>3 DEF UpdateAdjust
  <2> QED BY <1>1, <1>3, <2>1 DEF Inv, TypeOK, KeysOK, Unique, Counted
<1>4. CASE worker[w].held.done[field] # worker[w].input
  <2>1. events' = events \cup {row}
    BY <1>4 DEF UpdateAdjust
  <2> HIDE DEF replaces
  <2>2. /\ manual.action \in Actions /\ manual.kind \in Kinds /\ manual.amount \in Int
        /\ manual.time \in Times /\ manual.action = field
    BY <1>1, WorkerFacts, TransactionAssumption DEF Kinds, Inv
  <2>3. TRUE \in BOOLEAN /\ NoRef \in Refs \cup {NoRef}
    OBVIOUS
  <2> HIDE DEF manual
  <2>4. /\ row \in Event /\ row.action = field /\ row.kind = manual.kind
        /\ row.amount = manual.amount /\ row.ref = NoRef /\ (row.included <=> TRUE)
    BY <1>2, <2>2, <2>3, RowFacts DEF Inv
  <2>5. /\ row \notin events /\ events' \subseteq Event /\ KeysOK' /\ Unique'
        /\ \A e \in events : e \in events'
    BY <1>2, <2>1, <2>2, <2>3, OtherRow
  <2> HIDE DEF row
  <2>6. /\ IF worker[w].held.done[field] = worker[w].input THEN UNCHANGED events
           ELSE /\ events' = events \cup {row} /\ row \notin events
                /\ row \in Event /\ row.action = field /\ row.kind = manual.kind
                /\ row.amount = manual.amount /\ row.ref = NoRef /\ (row.included <=> TRUE)
    BY <1>4, <2>1, <2>4, <2>5
  <2> QED BY <1>1, <2>5, <2>6 DEF row, manual, replaces
<1> QED BY <1>3, <1>4

LEMMA UpdateAdjustInv ==
    ASSUME Inv, NEW w \in Workers, UpdateAdjust(w)
    PROVE  Inv'
<1>1. events' \subseteq Event /\ KeysOK' /\ Unique' /\ \A e \in events : e \in events'
  BY AdjustFacts
<1> DEFINE s == [worker[w] EXCEPT !.pc = "calculate"]
<1>2. s \in WorkerStates /\ s.pc = "calculate"
  BY WorkerFacts DEF Inv, WorkerStates
<1>3. worker' = [worker EXCEPT ![w] = s]
  BY DEF Inv, TypeOK, UpdateAdjust, Step
<1> HIDE DEF s
<1>4. /\ worker' \in [Workers -> WorkerStates] /\ worker'[w] = s
      /\ \A v \in Workers \ {w} : worker'[v] = worker[v]
  BY <1>2, <1>3, StepFacts DEF Inv
<1>5. UNCHANGED <<asked, item, told, disturbed, refused>>
  BY DEF UpdateAdjust
<1>6. TypeOK'
  BY <1>1, <1>4, <1>5 DEF Inv, TypeOK
<1>7. AskedOK' /\ WorkersOK'
  BY <1>1, <1>2, <1>4, <1>5, RowsStay
<1> QED BY <1>1, <1>6, <1>7 DEF Inv

LEMMA AnswerEventInv ==
    ASSUME Inv, NEW w \in Workers, AnswerEvent(w)
    PROVE  Inv'
<1>1. PICK m \in worker[w].event :
         /\ worker[w].pc = "answer" /\ RoomForRow
         /\ \/ /\ IsNew(m)
               /\ events' = events \cup {Row(m, m.ref, TRUE)}
               /\ Step(w, "calculate") /\ Tell(m)
               /\ UNCHANGED refused
            \/ /\ IsRepeated(m)
               /\ Step(w, "calculate") /\ Tell(m)
               /\ UNCHANGED <<events, refused>>
            \/ /\ Conflicts(m)
               /\ refused' = TRUE
               /\ worker' = [worker EXCEPT ![w].pc = "fail",
                                 ![w].event = {[m EXCEPT !.amount = Request(worker[w].request).amount]}]
               /\ UNCHANGED <<events, told>>
         /\ UNCHANGED <<asked, item, disturbed>>
  BY DEF AnswerEvent
<1>2. m \in Told
  BY WorkerFacts DEF Inv
<1>3. CASE Step(w, "calculate") /\ Tell(m)
  <2> DEFINE s == [worker[w] EXCEPT !.pc = "calculate"]
  <2>1. s \in WorkerStates /\ s.pc = "calculate"
    BY WorkerFacts DEF Inv, WorkerStates
  <2>2. worker' = [worker EXCEPT ![w] = s]
    BY <1>3 DEF Inv, TypeOK, Step
  <2> HIDE DEF s
  <2>3. /\ worker' \in [Workers -> WorkerStates] /\ worker'[w] = s
        /\ \A v \in Workers \ {w} : worker'[v] = worker[v]
    BY <2>1, <2>2, StepFacts DEF Inv
  <2>4. told' \subseteq Told
    BY <1>2, <1>3, TellType DEF Inv
  <2>5. /\ events' \subseteq Event /\ KeysOK' /\ Unique' /\ refused' \in BOOLEAN
        /\ \A e \in events : e \in events'
    <3>1. CASE IsNew(m) /\ events' = events \cup {Row(m, m.ref, TRUE)} /\ UNCHANGED refused
      BY <1>1, <1>2, <3>1, NewRow DEF Inv, TypeOK
    <3>2. CASE UNCHANGED events
      BY <1>1, <3>2 DEF Inv, TypeOK, KeysOK, Unique, Counted
    <3> QED BY <1>1, <3>1, <3>2
  <2>6. TypeOK'
    BY <1>1, <2>3, <2>4, <2>5 DEF Inv, TypeOK
  <2>7. AskedOK' /\ WorkersOK'
    BY <1>1, <2>1, <2>3, <2>5, RowsStay
  <2> QED BY <2>5, <2>6, <2>7 DEF Inv
<1>4. CASE /\ refused' = TRUE
           /\ worker' = [worker EXCEPT ![w].pc = "fail",
                             ![w].event = {[m EXCEPT !.amount = Request(worker[w].request).amount]}]
           /\ UNCHANGED <<events, told>>
  <2> DEFINE n == [m EXCEPT !.amount = Request(worker[w].request).amount]
             s == [worker[w] EXCEPT !.pc = "fail", !.event = {n}]
  <2>1. Request(worker[w].request).amount \in Int
    <3>1. \E e \in events : e.pk = worker[w].request
      BY <1>1 DEF Inv, WorkersOK
    <3> QED BY <3>1, RequestFacts, EventFacts DEF Inv
  <2>2. n \in Told
    BY <1>2, <2>1 DEF Told
  <2>3. worker' = [worker EXCEPT ![w] = s]
    BY <1>4 DEF Inv, TypeOK
  <2> HIDE DEF n
  <2>4. s \in WorkerStates /\ s.pc = "fail"
    BY <2>2, WorkerFacts DEF Inv, WorkerStates
  <2> HIDE DEF s
  <2> QED BY <1>1, <1>4, <2>3, <2>4, StepInv DEF Inv, TypeOK
<1> QED BY <1>1, <1>3, <1>4

LEMMA InitInv == ASSUME Init PROVE Inv
<1>1. worker \in [Workers -> WorkerStates] /\ \A w \in Workers : worker[w].pc = "idle"
  BY IdleType DEF Init, Idle
<1>2. item \in Amounts
  BY DEF Init, NoAmounts, Zero, Amounts
<1>3. TypeOK
  BY <1>1, <1>2 DEF Init, TypeOK
<1>4. KeysOK
  BY FS_EmptySet DEF Init, KeysOK
<1>5. AskedOK /\ WorkersOK /\ Unique
  BY <1>1 DEF Init, AskedOK, WorkersOK, Unique, Counted
<1> QED BY <1>3, <1>4, <1>5 DEF Inv

LEMMA NextInv == ASSUME Inv, [Next]_vars PROVE Inv'
<1>1. ASSUME NEW w \in Workers, NEW m \in Reports,
             ReportNew(w, m) \/ ReportRepeated(w, m) \/ ReportConflicting(w, m)
      PROVE  Inv'
  BY <1>1, ReportNewInv, ReportRepeatedInv, ReportConflictingInv
<1>2. ASSUME NEW request \in Requested, RequestAction(request[1], request[2])
      PROVE  Inv'
  <2>1. request[1] \in {"charge", "refund", "cancel"} /\ request[2] \in Nat
    BY TransactionAssumption
  <2> QED BY <1>2, <2>1, RequestActionInv
<1>3. ASSUME NEW pk \in asked, AnswerNothing(pk)
      PROVE  Inv'
  BY <1>3, AnswerNothingInv
<1>4. ASSUME NEW w \in Workers, NEW pk \in asked, NEW ref \in Refs,
             NEW answer \in Answers(pk, ref), AnswerReference(w, pk, ref, answer)
      PROVE  Inv'
  BY <1>4, AnswersFacts, AnswerReferenceInv
<1>5. ASSUME NEW w \in Workers, NEW field \in Fields, NEW input \in Inputs,
             UpdateRead(w, field, input)
      PROVE  Inv'
  BY <1>5, UpdateReadInv
<1>6. ASSUME NEW w \in Workers,
             \/ RecordFailure(w) \/ AnswerEvent(w)
             \/ UpdateStore(w) \/ UpdateMeasure(w) \/ UpdateAdjust(w)
             \/ Calculate(w) \/ Save(w) \/ Kill(w)
      PROVE  Inv'
  BY <1>6, RecordFailureInv, AnswerEventInv, UpdateStoreInv, UpdateMeasureInv,
     UpdateAdjustInv, CalculateInv, SaveInv
<1>7. CASE UNCHANGED vars
  BY <1>7 DEF vars, Inv, TypeOK, KeysOK, AskedOK, WorkersOK, Unique, Counted
<1> QED BY <1>1, <1>2, <1>3, <1>4, <1>5, <1>6, <1>7 DEF Next

LEMMA Invariance == Spec => []Inv
<1>1. Init => Inv
  BY InitInv
<1>2. Inv /\ [Next]_vars => Inv'
  BY NextInv
<1> QED BY <1>1, <1>2, PTL DEF Spec

\* The rows, amounts and workers of a transaction keep their types.  That an
\* answer's request can still be found and that an amount is always a number
\* is part of it (transaction_item_calculations.py).
THEOREM TransactionTypeCorrect == Spec => []TypeOK
<1>1. Inv => TypeOK
  BY DEF Inv
<1> QED BY <1>1, Invariance, PTL

\* transactionEventReport creates "a single event on our side for specific
\* action": whatever is reported, answered, repeated and overlaps.
THEOREM EventCountsOnce == Spec => []SingleEvent
<1>1. Inv => SingleEvent
  BY DEF Inv, Unique, SingleEvent, Counted
<1> QED BY <1>1, Invariance, PTL

-----------------------------------------------------------------------------
(***************************************************************************)
(* The amounts and the ledger of what the app told.                        *)
(***************************************************************************)
\* The rows with a reference are what the app told.
LEMMA ToldRows ==
    ASSUME Inv, Known, ~refused, NEW a, NEW k, NEW r \in Refs
    PROVE  /\ \A m \in Of(told, a, k, r) : \E e \in Of(Counted(events), a, k, r) : Msg(e) = m
           /\ \A e \in Of(Counted(events), a, k, r) : Of(told, a, k, r) = {Msg(e)}
           /\ Of(told, a, k, r) = {} <=> Of(Counted(events), a, k, r) = {}
<1>1. r # NoRef
  BY TransactionAssumption
<1>2. ASSUME NEW m \in Of(told, a, k, r)
      PROVE  \E e \in Of(Counted(events), a, k, r) : Msg(e) = m
  <2>1. PICK e \in events : Msg(e) = m
    BY DEF Known, Of
  <2>2. e.action = a /\ e.kind = k /\ e.ref = r
    BY <2>1 DEF Of, Msg
  <2>3. e.included
    BY <1>1, <2>2 DEF Known
  <2> QED BY <2>1, <2>2, <2>3 DEF Of, Counted
<1>3. ASSUME NEW e \in Of(Counted(events), a, k, r)
      PROVE  Of(told, a, k, r) = {Msg(e)}
  <2>1. Msg(e) \in told
    BY <1>1 DEF Of, Counted, Known
  <2>2. Msg(e) \in Of(told, a, k, r)
    BY <2>1 DEF Of, Counted, Msg
  <2>3. Of(Counted(events), a, k, r) = {e}
    BY KeptFacts DEF Inv
  <2> QED BY <1>2, <2>2, <2>3
<1> QED BY <1>2, <1>3

\* A sum of told amounts is the sum, over the references, of the amounts of
\* the rows.
LEMMA Booked ==
    ASSUME Inv, Known, ~refused, NEW a, NEW k, NEW R \in SUBSET Refs
    PROVE  ToldAmount(a, k, R) =
             Total([r \in Refs |-> IF r \in R THEN Amount(Counted(events), a, k, r) ELSE 0], Refs)
<1> DEFINE E == Counted(events)
           M == {m \in told : m.action = a /\ m.kind = k /\ m.ref \in R}
           D == {m.ref : m \in M}
           h == [m \in M |-> m.ref]
           f == [m \in M |-> m.amount]
           g == [r \in Refs |-> IF r \in R THEN Amount(E, a, k, r) ELSE 0]
<1>1. \A m \in M : m \in Of(told, a, k, m.ref) /\ m.ref \in Refs /\ m.amount \in Int
  BY DEF Of, Inv, TypeOK, Told
<1>2. \A m, n \in M : m.ref = n.ref => m = n
  <2> SUFFICES ASSUME NEW m \in M, NEW n \in M, m.ref = n.ref
               PROVE  m = n
    OBVIOUS
  <2>1. PICK e \in Of(E, a, k, m.ref) : Msg(e) = m
    BY <1>1, ToldRows
  <2>2. Of(told, a, k, m.ref) = {Msg(e)}
    BY <1>1, <2>1, ToldRows
  <2> QED BY <1>1, <2>2
<1>3. D \in SUBSET Refs
  BY <1>1
<1>4. h \in Bijection(M, D)
  <2>1. h \in [M -> D] /\ \A d \in D : \E m \in M : h[m] = d
    OBVIOUS
  <2>2. \A m, n \in M : h[m] = h[n] => m = n
    BY <1>2
  <2> HIDE DEF M, D, h
  <2> QED BY <2>1, <2>2 DEF Bijection, Injection, Surjection, IsInjective
<1>5. IsFiniteSet(M)
  <2>1. IsFiniteSet(D)
    BY <1>3, FS_Subset, TransactionAssumption
  <2> HIDE DEF M, D, h
  <2>2. ExistsInjection(M, D)
    BY <1>4 DEF ExistsInjection, Bijection
  <2> QED BY <1>4, <2>1, <2>2, FS_Injection DEF Bijection
<1>6. \A m \in M : f[m] \in Int /\ g[h[m]] = f[m]
  <2> SUFFICES ASSUME NEW m \in M
               PROVE  f[m] \in Int /\ g[h[m]] = f[m]
    OBVIOUS
  <2>1. PICK e \in Of(E, a, k, m.ref) : Msg(e) = m
    BY <1>1, ToldRows
  <2>2. Amount(E, a, k, m.ref) = e.amount
    BY <1>1, <2>1, KeptFacts DEF Inv, Amount
  <2>3. e.amount = m.amount
    BY <2>1 DEF Msg
  <2> QED BY <1>1, <2>2, <2>3
<1>7. \A r \in Refs \ D : g[r] = 0
  <2> SUFFICES ASSUME NEW r \in Refs \ D, r \in R
               PROVE  Amount(E, a, k, r) = 0
    OBVIOUS
  <2>1. Of(told, a, k, r) = {}
    BY DEF Of
  <2>2. Of(E, a, k, r) = {}
    BY <2>1, ToldRows
  <2> QED BY <2>2 DEF Amount
<1>8. ToldAmount(a, k, R) = Total(f, M)
  BY DEF ToldAmount, AmountsIn
<1> HIDE DEF M, D, h, f, g
<1>9. Total(g, Refs) = Total(f, M)
  BY <1>3, <1>4, <1>5, <1>6, <1>7, TotalRenamed
<1> QED BY <1>8, <1>9 DEF g

LEMMA SumsBooked ==
    ASSUME Inv, PlainCounted, Known, ~refused, NEW a
    PROVE  LET E == Counted(events)
           IN  /\ Pending(E, a) = OnTheWay(a) /\ Done(E, a) = Ledger(a)
               /\ Extra(E, a) = ToldAmount(a, "extra", Refs)
               /\ Plain(E, a) = Plain(events, a)
<1> DEFINE E == Counted(events)
<1>1. Pending(E, a) = OnTheWay(a)
  <2>1. ASSUME NEW r \in Refs
        PROVE  r \in Waiting(a) <=> IsPending(E, a, r)
    <3>1. /\ Of(told, a, "success", r) = {} <=> Of(E, a, "success", r) = {}
          /\ Of(told, a, "failure", r) = {} <=> Of(E, a, "failure", r) = {}
      BY ToldRows
    <3>2. r \in Waiting(a) <=>
             Of(told, a, "success", r) = {} /\ Of(told, a, "failure", r) = {}
      BY DEF Waiting
    <3> QED BY <3>1, <3>2 DEF IsPending
  <2>2. Waiting(a) \in SUBSET Refs
    BY DEF Waiting
  <2>3. [r \in Refs |-> IF r \in Waiting(a) THEN Amount(E, a, "request", r) ELSE 0]
          = [r \in Refs |-> IF IsPending(E, a, r) THEN Amount(E, a, "request", r) ELSE 0]
    BY <2>1
  <2> HIDE DEF E
  <2> QED BY <2>2, <2>3, Booked DEF OnTheWay, Pending, E
<1>2. Done(E, a) = Ledger(a)
  <2>1. ASSUME NEW r \in Refs
        PROVE  (IF r \in CarriedOut(a) THEN Amount(E, a, "success", r) ELSE 0)
                 = (IF IsDone(E, a, r) THEN Amount(E, a, "success", r) ELSE 0)
    <3>1. CASE Of(E, a, "success", r) = {}
      BY <3>1 DEF Amount
    <3>2. CASE Of(E, a, "success", r) # {}
      <4>1. PICK e \in Of(E, a, "success", r) : TRUE
        BY <3>2
      <4>2. Of(told, a, "success", r) = {Msg(e)} /\ Msg(e).time = e.time
        BY ToldRows DEF Msg
      <4>3. Kept(E, a, "success", r) = e
        BY KeptFacts DEF Inv
      <4>4. r \in CarriedOut(a) <=> \A m \in Of(told, a, "failure", r) : e.time > m.time
        BY <4>2 DEF CarriedOut
      <4>5. CASE Of(E, a, "failure", r) = {}
        <5>1. Of(told, a, "failure", r) = {}
          BY <4>5, ToldRows
        <5> QED BY <4>4, <4>5, <5>1 DEF IsDone
      <4>6. CASE Of(E, a, "failure", r) # {}
        <5>1. PICK f \in Of(E, a, "failure", r) : TRUE
          BY <4>6
        <5>2. Of(told, a, "failure", r) = {Msg(f)} /\ Msg(f).time = f.time
          BY ToldRows DEF Msg
        <5>3. Kept(E, a, "failure", r) = f
          BY KeptFacts DEF Inv
        <5>4. r \in CarriedOut(a) <=> e.time > f.time
          BY <4>4, <5>2
        <5>5. IsDone(E, a, r) <=> e.time > f.time
          BY <3>2, <4>3, <4>6, <5>3 DEF IsDone
        <5> QED BY <5>4, <5>5
      <4> QED BY <4>5, <4>6
    <3> QED BY <3>1, <3>2
  <2>2. CarriedOut(a) \in SUBSET Refs
    BY DEF CarriedOut
  <2>3. [r \in Refs |-> IF r \in CarriedOut(a) THEN Amount(E, a, "success", r) ELSE 0]
          = [r \in Refs |-> IF IsDone(E, a, r) THEN Amount(E, a, "success", r) ELSE 0]
    BY <2>1
  <2> HIDE DEF E
  <2> QED BY <2>2, <2>3, Booked DEF Ledger, Done, E
<1>3. Extra(E, a) = ToldAmount(a, "extra", Refs)
  <2>1. [r \in Refs |-> IF r \in Refs THEN Amount(E, a, "extra", r) ELSE 0]
          = [r \in Refs |-> Amount(E, a, "extra", r)]
    OBVIOUS
  <2> HIDE DEF E
  <2> QED BY <2>1, Booked DEF Extra, E
<1>4. Of(E, a, "success", NoRef) = Of(events, a, "success", NoRef)
  BY DEF Of, Counted, PlainCounted
<1> QED BY <1>1, <1>2, <1>3, <1>4 DEF Plain

\* Which events with a reference there are decides about the sums over them.
LEMMA SameSums ==
    ASSUME NEW E, NEW F, NEW a, \A k : \A r \in Refs : Of(E, a, k, r) = Of(F, a, k, r)
    PROVE  Pending(E, a) = Pending(F, a) /\ Done(E, a) = Done(F, a) /\ Extra(E, a) = Extra(F, a)
<1>1. ASSUME NEW r \in Refs, NEW k
      PROVE  Amount(E, a, k, r) = Amount(F, a, k, r) /\ Kept(E, a, k, r) = Kept(F, a, k, r)
  <2>1. Of(E, a, k, r) = Of(F, a, k, r)
    OBVIOUS
  <2>2. Kept(E, a, k, r) = Kept(F, a, k, r)
    BY <2>1, Zenon DEF Kept
  <2> QED BY <2>1, <2>2 DEF Amount
<1>2. ASSUME NEW r \in Refs
      PROVE  /\ (IF IsPending(E, a, r) THEN Amount(E, a, "request", r) ELSE 0)
                  = (IF IsPending(F, a, r) THEN Amount(F, a, "request", r) ELSE 0)
             /\ (IF IsDone(E, a, r) THEN Amount(E, a, "success", r) ELSE 0)
                  = (IF IsDone(F, a, r) THEN Amount(F, a, "success", r) ELSE 0)
  <2>1. IsPending(E, a, r) <=> IsPending(F, a, r)
    BY DEF IsPending
  <2>2. IsDone(E, a, r) <=> IsDone(F, a, r)
    BY <1>1 DEF IsDone
  <2> QED BY <1>1, <2>1, <2>2
<1>3. \A r \in Refs : Amount(E, a, "extra", r) = Amount(F, a, "extra", r)
  BY <1>1
<1>4. [r \in Refs |-> IF IsPending(E, a, r) THEN Amount(E, a, "request", r) ELSE 0]
        = [r \in Refs |-> IF IsPending(F, a, r) THEN Amount(F, a, "request", r) ELSE 0]
  BY <1>2
<1>5. [r \in Refs |-> IF IsDone(E, a, r) THEN Amount(E, a, "success", r) ELSE 0]
        = [r \in Refs |-> IF IsDone(F, a, r) THEN Amount(F, a, "success", r) ELSE 0]
  BY <1>2
<1>6. [r \in Refs |-> Amount(E, a, "extra", r)] = [r \in Refs |-> Amount(F, a, "extra", r)]
  BY <1>3
<1> QED BY <1>4, <1>5, <1>6 DEF Pending, Done, Extra

\* What recalculate_transaction_amounts saves is the ledger, provided no event
\* was refused.
LEMMA LedgerCalculated ==
    ASSUME Inv, PlainCounted, Known, ~refused, NEW amounts \in Calculations(events)
    PROVE  ShowLedger(Clamped(amounts))
<1> DEFINE E == Counted(events)
           c == Clamped(amounts)
<1>1. PICK A \in AuthorizeEvents(E) : A \in SUBSET E /\ amounts = AmountsOf(E, A)
  BY CalculationFacts DEF Inv
<1>2. /\ c.pending = amounts.pending
      /\ c.done["authorization"] = Pos(amounts.done["authorization"])
      /\ \A a \in Actions \ {"authorization"} : c.done[a] = amounts.done[a]
  BY CalculationFacts, ClampedFacts DEF Inv
<1>3. \A a \in Actions : amounts.done[a] = Balance(E, A, a)
  BY <1>1 DEF AmountsOf
<1>4. \A a \in Actions \ {"authorization"} : amounts.pending[a] = Pending(E, a)
  BY <1>1 DEF AmountsOf
<1> HIDE DEF c, E
<1>5. \A a : /\ Pending(E, a) = OnTheWay(a) /\ Done(E, a) = Ledger(a)
             /\ Extra(E, a) = ToldAmount(a, "extra", Refs)
             /\ Plain(E, a) = Plain(events, a)
  BY SumsBooked DEF E
<1>6. \A a : /\ Pending(E, a) \in Int /\ Done(E, a) \in Int
             /\ Extra(E, a) \in Int /\ Plain(E, a) \in Int
  BY SumsType DEF E, Inv
<1>7. \A a \in Actions \ {"authorization"} : c.pending[a] = OnTheWay(a)
  BY <1>2, <1>4, <1>5
<1>8. c.done["charge"] =
        Ledger("charge") + Plain(events, "charge") - ToldAmount("charge", "extra", Refs)
            - Ledger("refund") - OnTheWay("refund") + ToldAmount("refund", "extra", Refs)
  <2>1. c.done["charge"] = Plain(E, "charge") + Done(E, "charge") - Extra(E, "charge")
                             + Extra(E, "refund") - (Pending(E, "refund") + Done(E, "refund"))
    BY <1>2, <1>3 DEF Balance, Actions, Moved
  <2> QED BY <1>5, <1>6, <2>1
<1>9. c.done["refund"] =
        Ledger("refund") + Plain(events, "refund") - ToldAmount("refund", "extra", Refs)
  <2>1. c.done["refund"] = Plain(E, "refund") + Done(E, "refund") - Extra(E, "refund")
    BY <1>2, <1>3 DEF Balance, Actions
  <2> QED BY <1>5, <1>6, <2>1
<1>10. c.done["cancel"] = Ledger("cancel") + Plain(events, "cancel")
  <2>1. c.done["cancel"] = Plain(E, "cancel") + Done(E, "cancel")
    BY <1>2, <1>3 DEF Balance, Actions
  <2> QED BY <1>5, <1>6, <2>1
<1>11. ASSUME ~(\E e \in events : e.action = "authorization" /\ e.kind = "extra")
       PROVE  c.done["authorization"] =
                Pos(Ledger("authorization") + Plain(events, "authorization")
                        - Ledger("charge") - OnTheWay("charge")
                        - Ledger("cancel") - OnTheWay("cancel"))
  <2> DEFINE all == {e \in E : e.action = "authorization"}
  <2>1. {e \in all : e.kind = "extra"} = {}
    BY <1>11 DEF E, Counted
  <2>2. A = all
    BY <1>1, <2>1 DEF AuthorizeEvents, Latest
  <2>3. {e \in A : e.kind = "extra"} = {}
    BY <2>1, <2>2
  <2>4. \A k, r : Of(A, "authorization", k, r) = Of(E, "authorization", k, r)
    BY <2>2 DEF Of
  <2>5. Done(A, "authorization") = Done(E, "authorization")
    BY <2>4, SameSums
  <2>6. Plain(A, "authorization") = Plain(E, "authorization")
    BY <2>4 DEF Plain
  <2>7. Authorized(A) = Done(E, "authorization") + 0 + Plain(E, "authorization")
    BY <2>3, <2>5, <2>6 DEF Authorized
  <2>8. c.done["authorization"] =
          Pos(Authorized(A) - (Pending(E, "charge") + Done(E, "charge"))
                            - (Pending(E, "cancel") + Done(E, "cancel")))
    BY <1>2, <1>3 DEF Balance, Actions, Moved
  <2>9. Authorized(A) - (Pending(E, "charge") + Done(E, "charge"))
                      - (Pending(E, "cancel") + Done(E, "cancel"))
          = Ledger("authorization") + Plain(events, "authorization")
                - Ledger("charge") - OnTheWay("charge")
                - Ledger("cancel") - OnTheWay("cancel")
    BY <1>5, <1>6, <2>7
  <2> QED BY <2>8, <2>9
<1> QED BY <1>7, <1>8, <1>9, <1>10, <1>11 DEF ShowLedger, c

\* A charged, refunded or canceled amount does not depend on which
\* authorizations count.
LEMMA ValueCalculated ==
    ASSUME Inv, NEW a \in Actions \ {"authorization"}
    PROVE  /\ Value(a) \in Int
           /\ \A amounts \in Calculations(events) : amounts.done[a] = Value(a)
<1> DEFINE E == Counted(events)
<1>1. \A A : Balance(E, A, a) = Balance(E, {}, a)
  BY DEF Balance, Actions
<1>2. \A amounts \in Calculations(events) : \E A : amounts = AmountsOf(E, A)
  BY DEF Calculations
<1>3. \A amounts \in Calculations(events) : amounts.done[a] = Balance(E, {}, a)
  BY <1>1, <1>2 DEF AmountsOf
<1>4. \A b : /\ Pending(E, b) \in Int /\ Done(E, b) \in Int
             /\ Extra(E, b) \in Int /\ Plain(E, b) \in Int
  BY SumsType DEF Inv
<1>5. Balance(E, {}, a) \in Int
  BY <1>4 DEF Balance, Actions, Moved
<1> QED BY <1>3, <1>5 DEF Value

\* A manual correction changes the amount by what it says.
LEMMA ValueCorrected ==
    ASSUME Inv, NEW a \in Actions \ {"authorization"}, NEW row, row \notin events,
           events' = events \cup {row}, row.included, row.ref = NoRef,
           row.action = a, row.kind = "success", row.amount \in Int
    PROVE  Balance(Counted(events'), {}, a) = Value(a) + row.amount
<1> DEFINE E == Counted(events)
           F == Counted(events')
           S == Of(E, a, "success", NoRef)
<1>1. F = E \cup {row} /\ row \notin E
  BY DEF Counted
<1>2. Of(F, a, "success", NoRef) = S \cup {row} /\ row \notin S
  BY <1>1 DEF Of
<1>3. \A b, k : \A r \in Refs : Of(F, b, k, r) = Of(E, b, k, r)
  BY <1>1, TransactionAssumption DEF Of
<1>4. \A b : Pending(F, b) = Pending(E, b) /\ Done(F, b) = Done(E, b) /\ Extra(F, b) = Extra(E, b)
  <2> HIDE DEF E, F
  <2> QED BY <1>3, SameSums
<1>5. S \in SUBSET events
  BY DEF Of, Counted
<1>6. IsFiniteSet(S) /\ \A e \in S : e.amount \in Int
  BY <1>5, FS_Subset DEF Inv, KeysOK, TypeOK, Event
<1>7. Plain(F, a) = Plain(E, a) + row.amount
  <2> HIDE DEF S
  <2>1. AmountsIn(S \cup {row}) = AmountsIn(S) + row.amount
    BY <1>2, <1>6, AmountsInAdd
  <2> QED BY <1>2, <2>1 DEF Plain, S
<1>8. /\ Pending(E, "refund") \in Int /\ Done(E, "refund") \in Int
       /\ Extra(E, "refund") \in Int /\ Done(E, a) \in Int
       /\ Extra(E, a) \in Int /\ Plain(E, a) \in Int
  BY SumsType DEF Inv
<1> HIDE DEF E, F
<1>9. CASE a = "charge"
  <2>1. /\ Balance(E, {}, a) = Plain(E, a) + Done(E, a) - Extra(E, a)
                  + Extra(E, "refund") - (Pending(E, "refund") + Done(E, "refund"))
        /\ Balance(F, {}, a) = Plain(F, a) + Done(F, a) - Extra(F, a)
                  + Extra(F, "refund") - (Pending(F, "refund") + Done(F, "refund"))
    BY <1>9 DEF Balance, Moved
  <2>2. Balance(F, {}, a) = Balance(E, {}, a) + row.amount
    BY <1>4, <1>7, <1>8, <2>1
  <2> QED BY <2>2 DEF Value, E, F
<1>10. CASE a = "refund"
  <2>1. /\ Balance(E, {}, a) = Plain(E, a) + Done(E, a) - Extra(E, a)
        /\ Balance(F, {}, a) = Plain(F, a) + Done(F, a) - Extra(F, a)
    BY <1>10 DEF Balance
  <2>2. Balance(F, {}, a) = Balance(E, {}, a) + row.amount
    BY <1>4, <1>7, <1>8, <2>1
  <2> QED BY <2>2 DEF Value, E, F
<1>11. CASE a = "cancel"
  <2>1. /\ Balance(E, {}, a) = Plain(E, a) + Done(E, a)
        /\ Balance(F, {}, a) = Plain(F, a) + Done(F, a)
    BY <1>11 DEF Balance
  <2>2. Balance(F, {}, a) = Balance(E, {}, a) + row.amount
    BY <1>4, <1>7, <1>8, <2>1
  <2> QED BY <2>2 DEF Value, E, F
<1> QED BY <1>9, <1>10, <1>11 DEF Actions

-----------------------------------------------------------------------------
(***************************************************************************)
(* Each action preserves Books.                                            *)
(***************************************************************************)
LEMMA BeginLonely ==
    ASSUME TypeOK, Lonely, NEW w \in Workers, NEW s \in WorkerStates, Begin(w, s)
    PROVE  Lonely'
<1>1. /\ (worker'[w].alone <=> \A u \in Workers : ~Active(u))
      /\ \A v \in Workers \ {w} : /\ Agree(worker'[v], worker[v])
                                 /\ (Active(v) => ~worker'[v].alone)
  BY BeginFacts
<1>2. \A v \in Workers \ {w} : worker'[v].pc = worker[v].pc
  BY <1>1 DEF Agree
<1> QED BY <1>1, <1>2 DEF Lonely, Active

LEMMA StepLonely ==
    ASSUME TypeOK, Lonely, NEW w \in Workers, NEW s \in WorkerStates, Active(w),
           worker' = [worker EXCEPT ![w] = s],
           s.pc = "idle" \/ (s.alone <=> worker[w].alone)
    PROVE  Lonely'
<1>1. worker'[w] = s /\ \A v \in Workers \ {w} : worker'[v] = worker[v]
  BY StepFacts
<1> QED BY <1>1 DEF Lonely, Active

\* While w works, nobody else can be alone.
LEMMA BusyBooks ==
    ASSUME Lonely', NEW w \in Workers
    PROVE  /\ worker'[w].pc \notin {"idle", "save", "store"} => Ledgered'
           /\ worker'[w].pc # "idle" /\ AdjustedAt(w)' => Adjusted'
<1>1. ASSUME worker'[w].pc \notin {"idle", "save", "store"}
      PROVE  Ledgered'
  BY <1>1 DEF Ledgered, Lonely, Active
<1>2. ASSUME worker'[w].pc # "idle", AdjustedAt(w)'
      PROVE  Adjusted'
  <2> SUFFICES ASSUME NEW v \in Workers, v # w
               PROVE  AdjustedAt(v)'
    BY <1>2 DEF Adjusted
  <2> QED BY <1>2 DEF Lonely, Active, AdjustedAt
<1> QED BY <1>1, <1>2

\* A message that is new becomes a row and is told.
LEMMA NewKnown ==
    ASSUME Inv, Known, NEW m \in Told, IsNew(m), NEW row, Msg(row) = m, row.included,
           events' = events \cup {row}, Tell(m), refused' = refused,
           ~refused => \A w \in Workers : worker'[w].pc # "fail"
    PROVE  Known'
<1> SUFFICES ASSUME ~refused
             PROVE  Known'
  BY DEF Known
<1>1. Of(events, m.action, m.kind, m.ref) = {}
  BY ExistingFacts DEF Inv, IsNew
<1>2. Of(told, m.action, m.kind, m.ref) = {}
  <2> SUFFICES ASSUME NEW n \in Of(told, m.action, m.kind, m.ref)
               PROVE  FALSE
    OBVIOUS
  <2>1. PICK e \in events : Msg(e) = n
    BY DEF Known, Of
  <2>2. e \in Of(events, m.action, m.kind, m.ref)
    BY <2>1 DEF Of, Msg
  <2> QED BY <1>1, <2>2
<1>3. told' = told \cup {m}
  BY <1>2 DEF Tell
<1> QED BY <1>3 DEF Known

\* A message that is repeated has been told.
LEMMA RepeatedKnown ==
    ASSUME Inv, Known, ~refused, NEW m \in Told, IsRepeated(m), Tell(m)
    PROVE  told' = told
<1>1. PICK e \in Of(events, m.action, m.kind, m.ref) : TRUE
  BY ExistingFacts DEF Inv, IsRepeated
<1>2. Msg(e) \in told
  BY <1>1, ToldFacts DEF Known, Of
<1>3. Msg(e) \in Of(told, m.action, m.kind, m.ref)
  BY <1>1, <1>2 DEF Of, Msg
<1> QED BY <1>3 DEF Tell

\* A row without reference tells nothing.
LEMMA PlainKnown ==
    ASSUME Known, NEW row, row.ref = NoRef, events' = events \cup {row},
           told' = told, refused' = refused,
           ~refused => \A w \in Workers : worker'[w].pc # "fail"
    PROVE  Known'
BY DEF Known

\* Requests and failures without reference do not show in the ledger.
LEMMA QuietRow ==
    ASSUME NEW row, events' = events \cup {row}, row.ref = NoRef, ~row.included,
           row.kind \in {"request", "failure"}, told' = told
    PROVE  /\ \A x : ShowLedger(x)' <=> ShowLedger(x)
           /\ Counted(events') = Counted(events)
<1>1. \A a : Of(events', a, "success", NoRef) = Of(events, a, "success", NoRef)
  BY DEF Of
<1>2. \A a : Plain(events', a) = Plain(events, a)
  BY <1>1 DEF Plain
<1>3. \A a, k, R : ToldAmount(a, k, R)' = ToldAmount(a, k, R)
  BY DEF ToldAmount
<1>4. \A a : CarriedOut(a)' = CarriedOut(a) /\ Waiting(a)' = Waiting(a)
  BY DEF CarriedOut, Waiting
<1>5. \A a : Ledger(a)' = Ledger(a) /\ OnTheWay(a)' = OnTheWay(a)
  BY <1>4 DEF Ledger, OnTheWay, ToldAmount
<1>6. (\E e \in events' : e.action = "authorization" /\ e.kind = "extra")
        <=> (\E e \in events : e.action = "authorization" /\ e.kind = "extra")
  OBVIOUS
<1>7. ASSUME NEW x
      PROVE  ShowLedger(x)' <=> ShowLedger(x)
  BY <1>2, <1>3, <1>5, <1>6 DEF ShowLedger
<1>8. Counted(events') = Counted(events)
  BY DEF Counted
<1> QED BY <1>7, <1>8

LEMMA QuietBooks ==
    ASSUME Inv, Books, NEW row, events' = events \cup {row}, row.ref = NoRef, ~row.included,
           row.kind \in {"request", "failure"},
           UNCHANGED <<item, worker, told, disturbed, refused>>
    PROVE  Books'
<1>1. /\ \A x : ShowLedger(x)' <=> ShowLedger(x)
      /\ Counted(events') = Counted(events)
  BY QuietRow
<1>2. Lonely' /\ PlainCounted'
  BY DEF Books, Lonely, Active, PlainCounted
<1>3. Known'
  BY PlainKnown DEF Books, Known
<1>4. Ledgered'
  BY <1>1 DEF Books, Ledgered, Active
<1>5. Adjusted'
  BY <1>1 DEF Books, Adjusted, AdjustedAt, Value
<1> QED BY <1>2, <1>3, <1>4, <1>5 DEF Books

LEMMA ReportNewBooks ==
    ASSUME Inv, Books, NEW w \in Workers, NEW m \in Reports, ReportNew(w, m)
    PROVE  Books'
<1> DEFINE s == [Idle EXCEPT !.pc = "calculate"]
           row == Row(m, m.ref, TRUE)
<1>1. m \in Told /\ m.ref # NoRef
  BY MessageFacts
<1>2. s \in WorkerStates /\ s.pc = "calculate" /\ s.field = NoMoney
  BY StartFacts
<1>3. Begin(w, s) /\ events' = events \cup {row}
  BY DEF ReportNew
<1>4. Msg(row) = m /\ row.included
  BY <1>1, <1>3, NewRow DEF ReportNew
<1> HIDE DEF s, row
<1>5. /\ Agree(worker'[w], s)
      /\ \A v \in Workers \ {w} : Agree(worker'[v], worker[v])
  BY <1>2, <1>3, BeginFacts DEF Inv
<1>6. /\ worker'[w].pc = "calculate" /\ worker'[w].field = NoMoney
      /\ \A v \in Workers \ {w} : worker'[v].pc = worker[v].pc
  BY <1>2, <1>5 DEF Agree
<1>7. Lonely'
  BY <1>2, <1>3, BeginLonely DEF Inv, Books
<1>8. PlainCounted'
  BY <1>3, <1>4 DEF Books, PlainCounted
<1>9. Known'
  <2>1. ~refused => \A v \in Workers : worker'[v].pc # "fail"
    BY <1>6 DEF Books, Known
  <2> QED BY <1>1, <1>3, <1>4, <2>1, NewKnown DEF Books, ReportNew
<1>10. AdjustedAt(w)'
  BY <1>6 DEF AdjustedAt, NoMoney, Actions
<1>11. Ledgered' /\ Adjusted'
  BY <1>6, <1>7, <1>10, BusyBooks
<1> QED BY <1>7, <1>8, <1>9, <1>11 DEF Books

LEMMA ReportRepeatedBooks ==
    ASSUME Inv, Books, NEW w \in Workers, NEW m \in Reports, ReportRepeated(w, m)
    PROVE  Books'
<1>1. Lonely' /\ PlainCounted' /\ Adjusted'
  BY DEF Books, Lonely, PlainCounted, Adjusted, AdjustedAt, Value, Active, ReportRepeated
<1>2. CASE refused
  BY <1>1, <1>2 DEF Books, Known, Ledgered, ReportRepeated
<1>3. CASE ~refused
  <2>1. told' = told
    BY <1>3, MessageFacts, RepeatedKnown DEF Books, ReportRepeated
  <2>2. Known'
    BY <2>1 DEF Books, Known, ReportRepeated
  <2>3. \A x : ShowLedger(x)' <=> ShowLedger(x)
    BY <2>1 DEF ReportRepeated, ShowLedger, OnTheWay, Ledger, ToldAmount, Waiting, CarriedOut
  <2>4. Ledgered'
    BY <2>3 DEF Books, Ledgered, Active, ReportRepeated
  <2> QED BY <1>1, <2>2, <2>4 DEF Books
<1> QED BY <1>2, <1>3

LEMMA ReportConflictingBooks ==
    ASSUME Inv, Books, NEW w \in Workers, NEW m \in Reports, ReportConflicting(w, m)
    PROVE  Books'
<1> DEFINE s == [Idle EXCEPT !.pc = "fail", !.event = {m}]
<1>1. s \in WorkerStates /\ s.pc = "fail"
  BY MessageFacts, StartFacts
<1>2. Begin(w, s)
  BY DEF ReportConflicting
<1> HIDE DEF s
<1>3. worker'[w].pc = "fail"
  BY <1>1, <1>2, BeginFacts DEF Inv, Agree
<1>4. Lonely'
  BY <1>1, <1>2, BeginLonely DEF Inv, Books
<1>5. PlainCounted' /\ Known' /\ Ledgered'
  BY DEF Books, PlainCounted, Known, Ledgered, ReportConflicting
<1>6. AdjustedAt(w)'
  BY <1>3 DEF AdjustedAt
<1>7. Adjusted'
  BY <1>3, <1>4, <1>6, BusyBooks
<1> QED BY <1>4, <1>5, <1>7 DEF Books

LEMMA RecordFailureBooks ==
    ASSUME Inv, Books, NEW w \in Workers, RecordFailure(w)
    PROVE  Books'
<1>1. PICK m \in worker[w].event : events' = events \cup {Row(Failure(m), m.ref, FALSE)}
  BY DEF RecordFailure
<1>2. m \in Told
  BY WorkerFacts DEF Inv
<1> DEFINE row == Row(Failure(m), m.ref, FALSE)
<1>3. row.kind = "failure" /\ (row.included <=> FALSE)
  BY <1>2, FailureFacts DEF Row
<1>4. events' = events \cup {row}
  BY <1>1
<1> HIDE DEF row
<1>5. worker'[w] = Idle /\ \A v \in Workers \ {w} : worker'[v] = worker[v]
  BY IdleType, StepFacts DEF RecordFailure, Inv
<1>6. Idle.pc = "idle"
  BY DEF Idle
<1>7. refused
  BY DEF RecordFailure, Books, Known
<1>8. refused' = refused
  BY DEF RecordFailure
<1>9. Known' /\ Ledgered'
  BY <1>7, <1>8 DEF Known, Ledgered
<1>10. PlainCounted'
  BY <1>3, <1>4 DEF Books, PlainCounted
<1>11. Lonely'
  BY <1>6, IdleType, StepLonely DEF RecordFailure, Inv, Books, Active
<1>12. Counted(events') = Counted(events)
  BY <1>3, <1>4 DEF Counted
<1>13. Adjusted'
  BY <1>5, <1>6, <1>12 DEF Books, Adjusted, AdjustedAt, Value
<1> QED BY <1>9, <1>10, <1>11, <1>13 DEF Books

LEMMA RequestActionBooks ==
    ASSUME Inv, Books, NEW a \in {"charge", "refund", "cancel"}, NEW v \in Nat,
           RequestAction(a, v)
    PROVE  Books'
<1> DEFINE left == IF a = "charge" THEN item.done["authorization"] ELSE item.done["charge"]
           amount == IF a = "cancel" THEN 0
                     ELSE IF v = 0 \/ left < v THEN left ELSE v
           m == [action |-> a, kind |-> "request", amount |-> amount, time |-> Now]
           row == Row(m, NoRef, FALSE)
<1>1. /\ events' = events \cup {row}
      /\ UNCHANGED <<item, worker, told, disturbed, refused>>
  BY DEF RequestAction
<1>2. row.kind = "request" /\ row.ref = NoRef /\ (row.included <=> FALSE)
  BY DEF Row
<1> HIDE DEF row
<1> QED BY <1>1, <1>2, QuietBooks

LEMMA AnswerNothingBooks ==
    ASSUME Inv, Books, NEW pk \in asked, AnswerNothing(pk)
    PROVE  Books'
<1> DEFINE row == Row(Failure(Request(pk)), NoRef, FALSE)
<1>1. /\ events' = events \cup {row}
      /\ UNCHANGED <<item, worker, told, disturbed, refused>>
  BY DEF AnswerNothing
<1>2. Request(pk) \in Event
  BY AskedFacts, RequestFacts DEF Inv
<1>3. row.kind = "failure" /\ row.ref = NoRef /\ (row.included <=> FALSE)
  BY <1>2, FailureFacts DEF Row
<1> HIDE DEF row
<1> QED BY <1>1, <1>3, QuietBooks

LEMMA AnswerReferenceBooks ==
    ASSUME Inv, Books, NEW w \in Workers, NEW pk \in asked, NEW ref \in Refs,
           NEW answer \in SUBSET Told, AnswerReference(w, pk, ref, answer)
    PROVE  Books'
<1> DEFINE e == Request(pk)
           given == [action |-> e.action, kind |-> "request", ref |-> ref,
                     amount |-> e.amount, time |-> e.time]
           pc == IF answer = {} THEN "calculate" ELSE "answer"
           s == [Idle EXCEPT !.pc = pc, !.event = answer, !.request = pk]
           row == [e EXCEPT !.ref = ref, !.included = TRUE]
<1>1. /\ Of(events, e.action, "request", ref) = {}
      /\ events' = (events \ {e}) \cup {row}
      /\ Begin(w, s) /\ Tell(given) /\ refused' = refused
  BY DEF AnswerReference
<1>2. e \in events /\ e \in Event /\ e.ref = NoRef /\ e.kind = "request"
  BY AskedFacts, RequestFacts DEF Inv
<1>3. s \in WorkerStates /\ s.pc = pc /\ s.field = NoMoney
  <2>1. pc \in {"calculate", "answer"} /\ pk \in Nat /\ Idle.field = NoMoney
    BY DEF Inv, TypeOK, Idle
  <2> HIDE DEF pc
  <2> QED BY <2>1, IdleType DEF WorkerStates
<1>4. /\ row.ref = ref /\ (row.included <=> TRUE) /\ row.action = e.action
      /\ row.kind = "request" /\ row.amount = e.amount /\ row.time = e.time
  <2> HIDE DEF e
  <2> QED BY <1>2 DEF Event
<1>5. /\ Msg(row) = given /\ given.ref = ref
      /\ given.action = e.action /\ given.kind = "request"
  BY <1>4 DEF Msg
<1>6. ref # NoRef
  BY TransactionAssumption
<1> HIDE DEF s, row, e, given
<1>7. Agree(worker'[w], s) /\ \A v \in Workers \ {w} : Agree(worker'[v], worker[v])
  BY <1>1, <1>3, BeginFacts DEF Inv
<1>8. /\ worker'[w].pc \in {"calculate", "answer"} /\ worker'[w].field = NoMoney
      /\ \A v \in Workers \ {w} : worker'[v].pc = worker[v].pc
  BY <1>3, <1>7 DEF Agree
<1>9. Lonely'
  BY <1>1, <1>3, BeginLonely DEF Inv, Books
<1>10. PlainCounted'
  BY <1>1, <1>4 DEF Books, PlainCounted
<1>11. Known'
  <2> SUFFICES ASSUME ~refused
               PROVE  Known'
    BY <1>1 DEF Known
  <2>1. Of(told, e.action, "request", ref) = {}
    <3> SUFFICES ASSUME NEW n \in Of(told, e.action, "request", ref)
                 PROVE  FALSE
      OBVIOUS
    <3>1. PICK f \in events : Msg(f) = n
      BY DEF Books, Known, Of
    <3>2. f \in Of(events, e.action, "request", ref)
      BY <3>1 DEF Of, Msg
    <3> QED BY <1>1, <3>2
  <2>2. told' = told \cup {given}
    BY <1>1, <1>5, <2>1 DEF Tell
  <2>3. \A f \in events' : f.ref # NoRef => f.included /\ Msg(f) \in told'
    BY <1>1, <1>4, <1>5, <2>2 DEF Books, Known
  <2>4. \A n \in told' : \E f \in events' : Msg(f) = n
    <3> SUFFICES ASSUME NEW n \in told
                 PROVE  \E f \in events' : Msg(f) = n
      BY <1>1, <1>5, <2>2
    <3>1. PICK f \in events : Msg(f) = n
      BY DEF Books, Known
    <3>2. n.ref # NoRef /\ n.ref = f.ref
      BY <3>1, ToldFacts DEF Inv, TypeOK, Msg
    <3>3. f # e
      BY <1>2, <3>2
    <3> QED BY <1>1, <3>1, <3>3
  <2>5. \A v \in Workers : worker'[v].pc # "fail"
    BY <1>8 DEF Books, Known
  <2> QED BY <2>3, <2>4, <2>5 DEF Known
<1>12. AdjustedAt(w)'
  BY <1>8 DEF AdjustedAt, NoMoney, Actions
<1>13. Ledgered' /\ Adjusted'
  BY <1>8, <1>9, <1>12, BusyBooks
<1> QED BY <1>9, <1>10, <1>11, <1>13 DEF Books

LEMMA AnswerEventBooks ==
    ASSUME Inv, Books, NEW w \in Workers, AnswerEvent(w)
    PROVE  Books'
<1>1. PICK m \in worker[w].event :
         /\ worker[w].pc = "answer" /\ RoomForRow
         /\ \/ /\ IsNew(m)
               /\ events' = events \cup {Row(m, m.ref, TRUE)}
               /\ Step(w, "calculate") /\ Tell(m)
               /\ UNCHANGED refused
            \/ /\ IsRepeated(m)
               /\ Step(w, "calculate") /\ Tell(m)
               /\ UNCHANGED <<events, refused>>
            \/ /\ Conflicts(m)
               /\ refused' = TRUE
               /\ worker' = [worker EXCEPT ![w].pc = "fail",
                                 ![w].event = {[m EXCEPT !.amount = Request(worker[w].request).amount]}]
               /\ UNCHANGED <<events, told>>
         /\ UNCHANGED <<asked, item, disturbed>>
  BY DEF AnswerEvent
<1>2. m \in Told
  BY WorkerFacts DEF Inv
<1>3. Active(w) /\ worker[w].field = NoMoney
  BY <1>1 DEF Active, Inv, WorkersOK
<1>4. CASE Step(w, "calculate") /\ Tell(m) /\ UNCHANGED refused
  <2> DEFINE s == [worker[w] EXCEPT !.pc = "calculate"]
  <2>1. /\ s \in WorkerStates /\ s.pc = "calculate" /\ (s.alone <=> worker[w].alone)
        /\ s.field = worker[w].field
    BY WorkerFacts DEF Inv, WorkerStates
  <2>2. worker' = [worker EXCEPT ![w] = s]
    BY <1>4 DEF Inv, TypeOK, Step
  <2> HIDE DEF s
  <2>3. worker'[w] = s /\ \A v \in Workers \ {w} : worker'[v] = worker[v]
    BY <2>1, <2>2, StepFacts DEF Inv
  <2>4. Lonely'
    BY <1>3, <2>1, <2>2, StepLonely DEF Inv, Books
  <2>5. ~refused => \A v \in Workers : worker'[v].pc # "fail"
    BY <2>1, <2>3 DEF Books, Known
  <2>6. PlainCounted' /\ Known'
    <3>1. CASE IsNew(m) /\ events' = events \cup {Row(m, m.ref, TRUE)}
      <4> DEFINE row == Row(m, m.ref, TRUE)
      <4>1. Msg(row) = m /\ row.included /\ events' = events \cup {row}
        BY <1>1, <1>2, <3>1, NewRow
      <4> HIDE DEF row
      <4> QED BY <1>2, <1>4, <2>5, <3>1, <4>1, NewKnown DEF Books, PlainCounted
    <3>2. CASE IsRepeated(m) /\ UNCHANGED events
      <4>1. ~refused => told' = told
        BY <1>2, <1>4, <3>2, RepeatedKnown DEF Books
      <4> QED BY <1>4, <2>5, <3>2, <4>1 DEF Books, PlainCounted, Known
    <3>3. CASE refused' = TRUE /\ UNCHANGED events
      BY <3>3 DEF Books, PlainCounted, Known
    <3> QED BY <1>1, <3>1, <3>2, <3>3
  <2>7. AdjustedAt(w)'
    BY <1>3, <2>1, <2>3 DEF AdjustedAt, NoMoney, Actions
  <2>8. Ledgered' /\ Adjusted'
    BY <2>1, <2>3, <2>4, <2>7, BusyBooks
  <2> QED BY <2>4, <2>6, <2>8 DEF Books
<1>5. CASE /\ refused' = TRUE /\ UNCHANGED events
           /\ worker' = [worker EXCEPT ![w].pc = "fail",
                             ![w].event = {[m EXCEPT !.amount = Request(worker[w].request).amount]}]
  <2> DEFINE n == [m EXCEPT !.amount = Request(worker[w].request).amount]
             s == [worker[w] EXCEPT !.pc = "fail", !.event = {n}]
  <2>1. worker' = [worker EXCEPT ![w] = s]
    BY <1>5 DEF Inv, TypeOK
  <2>2. Request(worker[w].request).amount \in Int
    <3>1. \E e \in events : e.pk = worker[w].request
      BY <1>1 DEF Inv, WorkersOK
    <3> QED BY <3>1, RequestFacts, EventFacts DEF Inv
  <2>3. n \in Told
    BY <1>2, <2>2 DEF Told
  <2> HIDE DEF n
  <2>4. s \in WorkerStates /\ s.pc = "fail" /\ (s.alone <=> worker[w].alone)
    BY <2>3, WorkerFacts DEF Inv, WorkerStates
  <2> HIDE DEF s
  <2>5. worker'[w] = s
    BY <2>1, <2>4, StepFacts DEF Inv
  <2>6. Lonely'
    BY <1>3, <2>1, <2>4, StepLonely DEF Inv, Books
  <2>7. PlainCounted' /\ Known' /\ Ledgered'
    BY <1>5 DEF Books, PlainCounted, Known, Ledgered
  <2>8. AdjustedAt(w)'
    BY <2>4, <2>5 DEF AdjustedAt
  <2>9. Adjusted'
    BY <2>4, <2>5, <2>6, <2>8, BusyBooks
  <2> QED BY <2>6, <2>7, <2>9 DEF Books
<1> QED BY <1>1, <1>4, <1>5

\* Where neither rows nor messages come, the ledger stays.
LEMMA SameRows ==
    ASSUME UNCHANGED <<events, told>>
    PROVE  \A x : ShowLedger(x)' <=> ShowLedger(x)
BY DEF ShowLedger, OnTheWay, Ledger, ToldAmount, Waiting, CarriedOut

LEMMA UpdateReadBooks ==
    ASSUME Inv, Books, NEW w \in Workers, NEW field \in Fields, NEW input \in Inputs,
           UpdateRead(w, field, input)
    PROVE  Books'
<1> DEFINE s == [Idle EXCEPT !.pc = "store", !.field = field, !.input = input,
                             !.held = item]
<1>1. s \in WorkerStates /\ s.pc = "store" /\ s.held = item
  <2>1. field \in Actions \cup {NoMoney} /\ input \in Nat /\ item \in Amounts
    BY TransactionAssumption DEF Inv, TypeOK
  <2> QED BY <2>1, IdleType DEF WorkerStates
<1>2. Begin(w, s) /\ UNCHANGED <<events, asked, item, told, disturbed, refused>>
  BY DEF UpdateRead
<1> HIDE DEF s
<1>3. /\ Agree(worker'[w], s)
      /\ (worker'[w].alone <=> \A u \in Workers : ~Active(u))
      /\ \A v \in Workers \ {w} : Agree(worker'[v], worker[v])
  BY <1>1, <1>2, BeginFacts DEF Inv
<1>4. /\ worker'[w].pc = "store" /\ worker'[w].held = item
      /\ \A v \in Workers \ {w} : worker'[v].pc = worker[v].pc
  BY <1>1, <1>3 DEF Agree
<1>5. Lonely'
  BY <1>1, <1>2, BeginLonely DEF Inv, Books
<1>6. PlainCounted' /\ Known'
  BY <1>2, <1>4 DEF Books, PlainCounted, Known
<1>7. Ledgered'
  <2> SUFFICES ASSUME ~refused
               PROVE  Ledgered'
    BY <1>2 DEF Ledgered
  <2>1. \A x : ShowLedger(x)' <=> ShowLedger(x)
    BY <1>2, SameRows
  <2>2. worker'[w].alone /\ ~disturbed => ShowLedger(worker[w].held)'
    BY <1>3, <1>4, <2>1 DEF Books, Ledgered
  <2>3. \A v \in Workers \ {w} : worker'[v].pc \in {"save", "store"} => ~worker'[v].alone
    BY <1>4, <1>5 DEF Lonely, Active
  <2> QED BY <1>2, <1>4, <2>2, <2>3 DEF Ledgered, Active
<1>8. AdjustedAt(w)'
  BY <1>4 DEF AdjustedAt
<1>9. Adjusted'
  BY <1>4, <1>5, <1>8, BusyBooks
<1> QED BY <1>5, <1>6, <1>7, <1>9 DEF Books

\* The worker w leaves; what it saved counts if it was alone.
LEMMA LeaveBooks ==
    ASSUME Inv, Books, NEW w \in Workers, Active(w),
           worker' = [worker EXCEPT ![w] = Idle],
           UNCHANGED <<events, told, refused>>,
           ~disturbed' => /\ worker[w].alone /\ item' = worker[w].held
                          /\ worker[w].pc = "save" \/ (worker[w].pc = "store" /\ ~disturbed)
    PROVE  Books'
<1>1. worker'[w] = Idle /\ \A v \in Workers \ {w} : worker'[v] = worker[v]
  BY IdleType, StepFacts DEF Inv
<1>2. Idle.pc = "idle"
  BY DEF Idle
<1>3. Lonely'
  BY <1>2, IdleType, StepLonely DEF Inv, Books
<1>4. PlainCounted' /\ Known'
  BY <1>1, <1>2 DEF Books, PlainCounted, Known
<1>5. Ledgered'
  <2> SUFFICES ASSUME ~refused
               PROVE  Ledgered'
    BY DEF Ledgered
  <2>1. \A x : ShowLedger(x)' <=> ShowLedger(x)
    BY SameRows
  <2>2. ~disturbed' => ShowLedger(item)'
    BY <2>1 DEF Books, Ledgered
  <2>3. ASSUME NEW v \in Workers, worker'[v].alone, worker'[v].pc \in {"save", "store"}
        PROVE  FALSE
    <3>1. v # w /\ worker[v] = worker'[v]
      BY <1>1, <1>2, <2>3
    <3> QED BY <2>3, <3>1 DEF Books, Lonely, Active
  <2> QED BY <2>2, <2>3 DEF Ledgered
<1>6. Adjusted'
  BY <1>1, <1>2 DEF Books, Adjusted, AdjustedAt, Value
<1> QED BY <1>3, <1>4, <1>5, <1>6 DEF Books

LEMMA UpdateStoreBooks ==
    ASSUME Inv, Books, NEW w \in Workers, UpdateStore(w)
    PROVE  Books'
<1>1. /\ worker[w].pc = "store" /\ Active(w) /\ item' = worker[w].held
      /\ UNCHANGED <<events, told, refused>>
  BY DEF UpdateStore, Active
<1>2. CASE /\ worker' = [worker EXCEPT ![w] = Idle]
           /\ disturbed' = (disturbed \/ ~worker[w].alone)
  BY <1>1, <1>2, LeaveBooks
<1>3. CASE Step(w, "measure")
  <2> DEFINE s == [worker[w] EXCEPT !.pc = "measure"]
  <2>1. s \in WorkerStates /\ s.pc = "measure" /\ (s.alone <=> worker[w].alone)
    BY WorkerFacts DEF Inv, WorkerStates
  <2>2. worker' = [worker EXCEPT ![w] = s]
    BY <1>3 DEF Inv, TypeOK, Step
  <2> HIDE DEF s
  <2>3. worker'[w] = s /\ \A v \in Workers \ {w} : worker'[v] = worker[v]
    BY <2>1, <2>2, StepFacts DEF Inv
  <2>4. Lonely'
    BY <1>1, <2>1, <2>2, StepLonely DEF Inv, Books
  <2>5. PlainCounted' /\ Known'
    BY <1>1, <2>1, <2>3 DEF Books, PlainCounted, Known
  <2>6. AdjustedAt(w)'
    BY <2>1, <2>3 DEF AdjustedAt
  <2>7. Ledgered' /\ Adjusted'
    BY <2>1, <2>3, <2>4, <2>6, BusyBooks
  <2> QED BY <2>4, <2>5, <2>7 DEF Books
<1> QED BY <1>2, <1>3 DEF UpdateStore

LEMMA SaveBooks ==
    ASSUME Inv, Books, NEW w \in Workers, Save(w) \/ Kill(w)
    PROVE  Books'
<1>1. CASE Save(w)
  BY <1>1, LeaveBooks DEF Save, Active
<1>2. CASE Kill(w)
  BY <1>2, LeaveBooks DEF Kill
<1> QED BY <1>1, <1>2

LEMMA UpdateMeasureBooks ==
    ASSUME Inv, Books, NEW w \in Workers, UpdateMeasure(w)
    PROVE  Books'
<1>1. PICK amounts \in Calculations(events) :
         worker' = [worker EXCEPT ![w].pc = "adjust", ![w].held = amounts]
  BY DEF UpdateMeasure
<1>2. amounts \in Amounts
  BY CalculationFacts DEF Inv
<1>3. /\ Active(w) /\ UNCHANGED <<events, told, refused>>
  BY DEF UpdateMeasure, Active
<1> DEFINE s == [worker[w] EXCEPT !.pc = "adjust", !.held = amounts]
<1>4. /\ s \in WorkerStates /\ s.pc = "adjust" /\ s.held = amounts
      /\ (s.alone <=> worker[w].alone)
  BY <1>2, WorkerFacts DEF Inv, WorkerStates
<1>5. worker' = [worker EXCEPT ![w] = s]
  BY <1>1 DEF Inv, TypeOK
<1> HIDE DEF s
<1>6. worker'[w] = s /\ \A v \in Workers \ {w} : worker'[v] = worker[v]
  BY <1>4, <1>5, StepFacts DEF Inv
<1>7. Lonely'
  BY <1>3, <1>4, <1>5, StepLonely DEF Inv, Books
<1>8. PlainCounted' /\ Known'
  BY <1>3, <1>4, <1>6 DEF Books, PlainCounted, Known
<1>9. AdjustedAt(w)'
  <2>1. \A a \in Actions \ {"authorization"} : amounts.done[a] = Value(a) /\ Value(a)' = Value(a)
    BY <1>3, ValueCalculated DEF Value
  <2> QED BY <1>4, <1>6, <2>1 DEF AdjustedAt
<1>10. Ledgered' /\ Adjusted'
  BY <1>4, <1>6, <1>7, <1>9, BusyBooks
<1> QED BY <1>7, <1>8, <1>10 DEF Books

LEMMA UpdateAdjustBooks ==
    ASSUME Inv, Books, NEW w \in Workers, UpdateAdjust(w)
    PROVE  Books'
<1> DEFINE field == worker[w].field
           replaces == /\ field = "authorization"
                       /\ \E e \in events : e.action = field /\ e.kind = "success"
           manual == [action |-> field, kind |-> IF replaces THEN "extra" ELSE "success",
                      amount |-> IF replaces THEN worker[w].input ELSE Difference(w),
                      time |-> Now]
           row == Row(manual, NoRef, TRUE)
           s == [worker[w] EXCEPT !.pc = "calculate"]
<1>1. /\ field \in Actions /\ Difference(w) \in Int
      /\ IF worker[w].held.done[field] = worker[w].input THEN UNCHANGED events
         ELSE /\ events' = events \cup {row} /\ row \notin events
              /\ row \in Event /\ row.action = field /\ row.kind = manual.kind
              /\ row.amount = manual.amount /\ row.ref = NoRef
              /\ (row.included <=> TRUE)
  BY AdjustFacts
<1>2. /\ manual.kind = (IF replaces THEN "extra" ELSE "success")
      /\ manual.amount = (IF replaces THEN worker[w].input ELSE Difference(w))
  OBVIOUS
<1>3. field # "authorization" => manual.kind = "success" /\ manual.amount = Difference(w)
  BY <1>2
<1>4. /\ worker[w].pc = "adjust" /\ Active(w) /\ told' = told /\ refused' = refused
  BY DEF UpdateAdjust, Active
<1>5. /\ s \in WorkerStates /\ s.pc = "calculate" /\ (s.alone <=> worker[w].alone)
      /\ s.field = worker[w].field /\ s.input = worker[w].input
  BY WorkerFacts DEF Inv, WorkerStates
<1>6. worker' = [worker EXCEPT ![w] = s]
  BY DEF Inv, TypeOK, UpdateAdjust, Step
<1> HIDE DEF s, row, manual, replaces
<1>7. worker'[w] = s /\ \A v \in Workers \ {w} : worker'[v] = worker[v]
  BY <1>5, <1>6, StepFacts DEF Inv
<1>8. Lonely'
  BY <1>4, <1>5, <1>6, StepLonely DEF Inv, Books
<1>9. ~refused => \A v \in Workers : worker'[v].pc # "fail"
  BY <1>5, <1>7 DEF Books, Known
<1>10. PlainCounted' /\ Known'
  <2>1. CASE UNCHANGED events
    BY <1>4, <1>9, <2>1 DEF Books, PlainCounted, Known
  <2>2. CASE events' = events \cup {row} /\ row.ref = NoRef /\ (row.included <=> TRUE)
    BY <1>4, <1>9, <2>2, PlainKnown DEF Books, PlainCounted
  <2> QED BY <1>1, <2>1, <2>2
<1>11. AdjustedAt(w)'
  <2> SUFFICES ASSUME worker[w].alone, field \in Actions \ {"authorization"}
               PROVE  Balance(Counted(events'), {}, field) = worker[w].input
    BY <1>5, <1>7 DEF AdjustedAt, Value
  <2>1. worker[w].held.done[field] = Value(field)
    BY <1>4 DEF Books, Adjusted, AdjustedAt
  <2>2. CASE worker[w].held.done[field] = worker[w].input
    BY <1>1, <2>1, <2>2 DEF Value
  <2>3. CASE worker[w].held.done[field] # worker[w].input
    <3>1. /\ row.amount = Difference(w) /\ row.kind = "success" /\ row.action = field
          /\ events' = events \cup {row} /\ row \notin events /\ row.ref = NoRef
          /\ (row.included <=> TRUE) /\ row.amount \in Int
      BY <1>1, <1>3, <2>3
    <3>2. Balance(Counted(events'), {}, field) = Value(field) + row.amount
      BY <3>1, ValueCorrected
    <3>3. Value(field) \in Int /\ worker[w].input \in Int
      BY ValueCalculated, WorkerFacts DEF Inv
    <3> QED BY <2>1, <3>1, <3>2, <3>3 DEF Difference
  <2> QED BY <2>2, <2>3
<1>12. Ledgered' /\ Adjusted'
  BY <1>5, <1>7, <1>8, <1>11, BusyBooks
<1> QED BY <1>8, <1>10, <1>12 DEF Books

LEMMA CalculateBooks ==
    ASSUME Inv, Books, NEW w \in Workers, Calculate(w)
    PROVE  Books'
<1>1. PICK amounts \in Calculations(events) :
         worker' = [worker EXCEPT ![w].pc = "save", ![w].held = Clamped(amounts)]
  BY DEF Calculate
<1>2. PICK held : held = Clamped(amounts)
  OBVIOUS
<1>3. /\ held \in Amounts
      /\ \A a \in Actions \ {"authorization"} : held.done[a] = Value(a)
  BY <1>2, CalculationFacts, ClampedFacts, ValueCalculated DEF Inv
<1>4. /\ worker[w].pc = "calculate" /\ Active(w)
      /\ UNCHANGED <<events, told, disturbed, refused>>
  BY DEF Calculate, Active
<1> DEFINE s == [worker[w] EXCEPT !.pc = "save", !.held = held]
<1>5. /\ s \in WorkerStates /\ s.pc = "save" /\ s.held = held
      /\ (s.alone <=> worker[w].alone) /\ s.field = worker[w].field
      /\ s.input = worker[w].input
  BY <1>3, WorkerFacts DEF Inv, WorkerStates
<1>6. worker' = [worker EXCEPT ![w] = s]
  BY <1>1, <1>2 DEF Inv, TypeOK
<1> HIDE DEF s
<1>7. worker'[w] = s /\ \A v \in Workers \ {w} : worker'[v] = worker[v]
  BY <1>5, <1>6, StepFacts DEF Inv
<1>8. Lonely'
  BY <1>4, <1>5, <1>6, StepLonely DEF Inv, Books
<1>9. PlainCounted' /\ Known'
  BY <1>4, <1>5, <1>7 DEF Books, PlainCounted, Known
<1>10. Ledgered'
  <2> SUFFICES ASSUME ~refused
               PROVE  Ledgered'
    BY <1>4 DEF Ledgered
  <2>1. ShowLedger(held)
    BY <1>2, LedgerCalculated DEF Books
  <2>2. \A x : ShowLedger(x)' <=> ShowLedger(x)
    BY <1>4, SameRows
  <2>3. ShowLedger(worker[w].held)'
    BY <1>5, <1>7, <2>1, <2>2
  <2>4. \A v \in Workers \ {w} : worker'[v].pc \in {"save", "store"} => ~worker'[v].alone
    BY <1>5, <1>7, <1>8 DEF Lonely, Active
  <2> QED BY <1>5, <1>7, <2>3, <2>4 DEF Ledgered, Active
<1>11. AdjustedAt(w)'
  BY <1>3, <1>4, <1>5, <1>7 DEF Books, Adjusted, AdjustedAt
<1>12. Adjusted'
  BY <1>5, <1>7, <1>8, <1>11, BusyBooks
<1> QED BY <1>8, <1>9, <1>10, <1>12 DEF Books

LEMMA InitBooks == ASSUME Init PROVE Books
<1>1. \A w \in Workers : worker[w] = Idle /\ worker[w].pc = "idle"
  BY DEF Init, Idle
<1>2. AmountsIn({}) = 0
  <2> DEFINE f == [e \in {} |-> e.amount]
             g == [e \in {} |-> -f[e]]
  <2>1. SumOf(f, {}) = 0 /\ SumOf(g, {}) = 0
    <3> HIDE DEF f, g
    <3> QED BY SumZero
  <2>2. AmountsIn({}) = SumOf(f, {}) - SumOf(g, {})
    BY DEF AmountsIn, Total
  <2> HIDE DEF f, g
  <2> QED BY <2>1, <2>2
<1>3. \A a, k, R : {m \in told : m.action = a /\ m.kind = k /\ m.ref \in R} = {}
  BY DEF Init
<1>4. \A a, k, R : ToldAmount(a, k, R) = 0
  BY <1>2, <1>3 DEF ToldAmount
<1>5. \A a : Ledger(a) = 0 /\ OnTheWay(a) = 0
  BY <1>4 DEF Ledger, OnTheWay
<1>6. \A a : Of(events, a, "success", NoRef) = {}
  BY DEF Init, Of
<1>7. \A a : Plain(events, a) = 0
  BY <1>2, <1>6 DEF Plain
<1>8. \A a \in Actions : item.done[a] = 0 /\ item.pending[a] = 0
  BY DEF Init, NoAmounts, Zero
<1>9. ShowLedger(item)
  BY <1>4, <1>5, <1>7, <1>8 DEF ShowLedger, Actions, Pos
<1>10. Lonely /\ PlainCounted /\ Known
  BY <1>1 DEF Init, Lonely, Active, PlainCounted, Known
<1>11. Ledgered /\ Adjusted
  BY <1>1, <1>9 DEF Ledgered, Adjusted, AdjustedAt
<1> QED BY <1>10, <1>11 DEF Books

LEMMA NextBooks == ASSUME Inv, Books, [Next]_vars PROVE Books'
<1>1. ASSUME NEW w \in Workers, NEW m \in Reports,
             ReportNew(w, m) \/ ReportRepeated(w, m) \/ ReportConflicting(w, m)
      PROVE  Books'
  BY <1>1, ReportNewBooks, ReportRepeatedBooks, ReportConflictingBooks
<1>2. ASSUME NEW request \in Requested, RequestAction(request[1], request[2])
      PROVE  Books'
  <2>1. request[1] \in {"charge", "refund", "cancel"} /\ request[2] \in Nat
    BY TransactionAssumption
  <2> QED BY <1>2, <2>1, RequestActionBooks
<1>3. ASSUME NEW pk \in asked, AnswerNothing(pk)
      PROVE  Books'
  BY <1>3, AnswerNothingBooks
<1>4. ASSUME NEW w \in Workers, NEW pk \in asked, NEW ref \in Refs,
             NEW answer \in Answers(pk, ref), AnswerReference(w, pk, ref, answer)
      PROVE  Books'
  BY <1>4, AnswersFacts, AnswerReferenceBooks
<1>5. ASSUME NEW w \in Workers, NEW field \in Fields, NEW input \in Inputs,
             UpdateRead(w, field, input)
      PROVE  Books'
  BY <1>5, UpdateReadBooks
<1>6. ASSUME NEW w \in Workers,
             \/ RecordFailure(w) \/ AnswerEvent(w)
             \/ UpdateStore(w) \/ UpdateMeasure(w) \/ UpdateAdjust(w)
             \/ Calculate(w) \/ Save(w) \/ Kill(w)
      PROVE  Books'
  BY <1>6, RecordFailureBooks, AnswerEventBooks, UpdateStoreBooks, UpdateMeasureBooks,
     UpdateAdjustBooks, CalculateBooks, SaveBooks
<1>7. CASE UNCHANGED vars
  <2>1. \A x : ShowLedger(x)' <=> ShowLedger(x)
    BY <1>7, SameRows DEF vars
  <2>2. Lonely' /\ PlainCounted' /\ Known'
    BY <1>7 DEF vars, Books, Lonely, Active, PlainCounted, Known
  <2>3. Ledgered'
    BY <1>7, <2>1 DEF vars, Books, Ledgered, Active
  <2>4. Adjusted'
    BY <1>7 DEF vars, Books, Adjusted, AdjustedAt, Value
  <2> QED BY <2>2, <2>3, <2>4 DEF Books
<1> QED BY <1>1, <1>2, <1>3, <1>4, <1>5, <1>6, <1>7 DEF Next

LEMMA BooksKept == Spec => []Books
<1>1. Init => Books
  BY InitBooks
<1>2. Inv /\ Books /\ [Next]_vars => Books'
  BY NextBooks
<1> QED BY <1>1, <1>2, Invariance, PTL DEF Spec

\* When all workers are done, the saved amounts are the ledger of what the app
\* told, whatever the order, the repetitions and the times in which it told
\* it - unless the last recalculate_transaction_amounts overlapped other work
\* or died before its save, or an event was refused for its details.
THEOREM AmountsAreTheLedger == Spec => []LedgerShown
<1>1. Books => LedgerShown
  BY DEF Books, Ledgered, LedgerShown
<1> QED BY <1>1, BooksKept, PTL

\* transactionUpdate leaves the amount that it was given, whatever events the
\* transaction has, when nothing else works on the transaction meanwhile: the
\* correction of create_manual_adjustment_events is what the calculation
\* afterwards lacks.
THEOREM UpdateSetsAmount == Spec => UpdateSticks
<1> DEFINE Sticks ==
      \A w \in Workers :
          (/\ worker[w].pc = "save" /\ worker'[w].pc = "idle" /\ item' = worker[w].held
           /\ worker[w].alone
           /\ worker[w].field \in Actions \ {"authorization"})
              => item'.done[worker[w].field] = worker[w].input
<1>1. Books /\ [Next]_vars => [Sticks]_vars
  BY DEF Books, Adjusted, AdjustedAt
<1> QED BY <1>1, BooksKept, PTL DEF Spec, UpdateSticks
=============================================================================

