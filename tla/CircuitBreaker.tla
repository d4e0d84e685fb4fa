--------------------------- MODULE CircuitBreaker ---------------------------
(***************************************************************************)
(* The circuit breaker of one app: BreakerBoard and RedisStorage of        *)
(* saleor/webhook/circuit_breaker, called by the workers that send the     *)
(* app's synchronous webhooks.                                             *)
(*                                                                         *)
(* The breaker lives in three Redis keys: its state, and two sorted sets   *)
(* of events, "error" and "total", scored by the time they were            *)
(* registered.  Each Redis call is a step; nothing locks the keys between  *)
(* the calls of one worker.  An event set is pruned only when an event is  *)
(* added to it, so get_event_count also counts events past their TTL.      *)
(*                                                                         *)
(* Time is a clock of ticks and is kept as ages; int() of the times drops  *)
(* a fraction below the model's resolution.  A webhook with an event type  *)
(* that is not monitored never reaches the breaker, and a dry-run event in *)
(* the open state is sent without its result being used: for the breaker   *)
(* that is a skipped call.                                                 *)
(***************************************************************************)
EXTENDS Quantities

CONSTANTS
    Callers,            \* workers sending webhooks of the app
    FailureMinCount,    \* BREAKER_BOARD_FAILURE_MIN_COUNT
    FailureThreshold,   \* ..._FAILURE_THRESHOLD_PERCENTAGE
    RecoveryMinCount,   \* ..._FAILURE_MIN_COUNT_RECOVERY
    RecoveryThreshold,  \* ..._FAILURE_THRESHOLD_PERCENTAGE_RECOVERY
    SuccessCount,       \* ..._SUCCESS_COUNT_RECOVERY
    Cooldown,           \* ..._COOLDOWN_SECONDS, in ticks
    TTL,                \* ..._TTL_SECONDS, in ticks
    MinCalls, MaxCalls, \* calls that start between two ticks of the clock
    Troubles            \* Redis may be unreachable and workers be killed

ASSUME BreakerAssumption ==
    /\ FailureMinCount \in Nat \ {0} /\ RecoveryMinCount \in Nat \ {0}
    /\ FailureThreshold \in Nat /\ RecoveryThreshold \in Nat
    /\ SuccessCount \in Nat \ {0}
    /\ Cooldown \in Nat /\ TTL \in Nat \ {0}
    /\ MinCalls \in Nat /\ MaxCalls \in Nat
    /\ Troubles \in BOOLEAN

VARIABLES
    state,     \* the state key; "CLOSED" when there is no key
    age,       \* ticks since changed_at, at most Old
    errors,    \* the "error" set: how many events of each age
    total,     \* the "total" set
    pc,        \* the Redis call that each worker makes next
    seen,      \* what the worker has read, and the state it will set
    calls,     \* calls that started since the last tick
    app,       \* "up": the app answers, "down": its webhooks fail
    trouble,   \* Redis is failing, workers are being killed
    disturbed  \* history: an update overlapped another or met trouble

vars == <<state, age, errors, total, pc, seen, calls, app, trouble, disturbed>>

States == {"CLOSED", "OPEN", "HALF_OPEN"}
Old == Cooldown + 1
Ages == 0 .. TTL      \* TTL stands for any age of at least TTL
NoEvents == [a \in Ages |-> 0]
Updating == {"read_total", "read_errors", "clear", "set", "reenable"}

\* zcard: expired events that no register_event has removed count as well.
EventCount(events) == SumOf(events, Ages)

\* Mutant: every earlier event is removed, not only the expired ones.
RegisteredAlone(events) == [NoEvents EXCEPT ![0] = 1]

\* register_event: remove what has reached its TTL from this set only, add.
Registered(events) == [events EXCEPT ![TTL] = 0, ![0] = @ + 1]

Older(events) ==
    [a \in Ages |-> CASE a = 0 -> 0
                      [] a = TTL -> events[TTL - 1] + events[TTL]
                      [] OTHER -> events[a - 1]]

NextTick(a) == IF a < Old THEN a + 1 ELSE Old

Readings == [state : States, age : 0 .. Old, total : Nat, target : States]
NothingSeen == [state |-> "CLOSED", age |-> Old, total |-> 0, target |-> "CLOSED"]

Init ==
    /\ state = "CLOSED" /\ age = Old
    /\ errors = NoEvents /\ total = NoEvents
    /\ pc = [c \in Callers |-> "idle"]
    /\ seen = [c \in Callers |-> NothingSeen]
    /\ calls = 0
    /\ app = "up" /\ trouble = FALSE
    /\ disturbed = FALSE

Goto(c, step) == pc' = [pc EXCEPT ![c] = step]

\* A Redis read: the value, or the default when the command fails.
Reads(value, default) == {value} \cup (IF trouble THEN {default} ELSE {})

\* The worker c touches the breaker while another update is under way, or
\* while commands may fail.
Disturb(c) ==
    disturbed' = (disturbed \/ trouble
                    \/ \E d \in Callers \ {c} : pc[d] \in Updating)

Exceeded(s, count, failed) ==
    LET minimum == IF s = "HALF_OPEN" THEN RecoveryMinCount ELSE FailureMinCount
        threshold == IF s = "HALF_OPEN" THEN RecoveryThreshold ELSE FailureThreshold
    IN  failed >= minimum /\ failed * 100 >= threshold * count

\* Mutant: a half-open breaker is given a state that does not exist.
DecisionMisspelt(s, a, count, failed) ==
    CASE s = "CLOSED" /\ Exceeded(s, count, failed) -> "OPEN"
      [] s = "OPEN" /\ a > Cooldown -> "HALF-OPEN"
      [] OTHER -> s

\* Mutant: the cooldown is not waited for.
DecisionUncooled(s, a, count, failed) ==
    CASE s = "CLOSED" /\ Exceeded(s, count, failed) -> "OPEN"
      [] s = "OPEN" -> "HALF_OPEN"
      [] OTHER -> s

\* The state that update_breaker_state returns for what has been read.
Decision(s, a, count, failed) ==
    CASE s = "CLOSED" /\ Exceeded(s, count, failed) -> "OPEN"
      [] s = "OPEN" /\ a > Cooldown -> "HALF_OPEN"
      [] s = "HALF_OPEN" /\ Exceeded(s, count, failed) -> "OPEN"
      [] /\ s = "HALF_OPEN" /\ ~Exceeded(s, count, failed)
         /\ count - failed >= SuccessCount -> "CLOSED"
      [] OTHER -> s

(***************************************************************************)
(* BreakerBoard.__call__ and update_breaker_state, call by call.           *)
(***************************************************************************)
ReadState(c) ==
    /\ pc[c] = "idle"
    /\ calls < MaxCalls
    /\ \E r \in Reads(<<state, age>>, <<"CLOSED", Old>>) :
          seen' = [seen EXCEPT ![c].state = r[1], ![c].age = r[2]]
    /\ calls' = calls + 1
    /\ Goto(c, "read_total")
    /\ Disturb(c)
    /\ UNCHANGED <<state, age, errors, total, app, trouble>>

ReadTotal(c) ==
    /\ pc[c] = "read_total"
    /\ \E n \in Reads(EventCount(total), 0) :
          seen' = [seen EXCEPT ![c].total = IF n = 0 THEN 1 ELSE n]
    /\ Goto(c, "read_errors")
    /\ Disturb(c)
    /\ UNCHANGED <<state, age, errors, total, calls, app, trouble>>

\* Reads the errors and decides.  An open breaker skips the call.
ReadErrors(c) ==
    /\ pc[c] = "read_errors"
    /\ \E failed \in Reads(EventCount(errors), 0) :
          LET s == seen[c].state
              next == Decision(s, seen[c].age, seen[c].total, failed)
          IN  /\ seen' = [seen EXCEPT ![c] =
                            IF next = s THEN NothingSeen
                            ELSE [@ EXCEPT !.total = 0, !.target = next]]
              /\ Goto(c, IF next # s THEN "clear"
                         ELSE IF s = "OPEN" THEN "idle" ELSE "call")
    /\ Disturb(c)
    /\ UNCHANGED <<state, age, errors, total, calls, app, trouble>>

\* Mutant: the event counts survive the change of state.
ClearStateKey(c) ==
    /\ pc[c] = "clear"
    /\ state' = "CLOSED" /\ age' = Old
    /\ Goto(c, "set")
    /\ Disturb(c)
    /\ UNCHANGED <<errors, total, seen, calls, app, trouble>>

\* set_breaker_state, first half: the three keys are deleted.
ClearState(c) ==
    /\ pc[c] = "clear"
    /\ \/ /\ state' = "CLOSED" /\ age' = Old
          /\ errors' = NoEvents /\ total' = NoEvents
       \/ trouble /\ UNCHANGED <<state, age, errors, total>>
    /\ Goto(c, "set")
    /\ Disturb(c)
    /\ UNCHANGED <<seen, calls, app, trouble>>

\* set_breaker_state, second half: the new state is written.
SetState(c) ==
    /\ pc[c] = "set"
    /\ \/ state' = seen[c].target /\ age' = 0
       \/ trouble /\ UNCHANGED <<state, age>>
    /\ seen' = [seen EXCEPT ![c] = NothingSeen]
    /\ Goto(c, IF seen[c].target = "OPEN" THEN "idle" ELSE "call")
    /\ Disturb(c)
    /\ UNCHANGED <<errors, total, calls, app, trouble>>

\* The webhook is sent; None means that it failed or timed out.
Respond(c) ==
    /\ pc[c] = "call"
    /\ Goto(c, IF app = "up" THEN "register_total" ELSE "register_error")
    /\ UNCHANGED <<state, age, errors, total, seen, calls, app, trouble, disturbed>>

RegisterError(c) ==
    /\ pc[c] = "register_error"
    /\ \/ errors' = Registered(errors)
       \/ trouble /\ UNCHANGED errors
    /\ Goto(c, "register_total")
    /\ UNCHANGED <<state, age, total, seen, calls, app, trouble, disturbed>>

RegisterTotal(c) ==
    /\ pc[c] = "register_total"
    /\ \/ total' = Registered(total)
       \/ trouble /\ UNCHANGED total
    /\ Goto(c, "idle")
    /\ UNCHANGED <<state, age, errors, seen, calls, app, trouble, disturbed>>

(***************************************************************************)
(* AppReenableSyncWebhooks: staff reset the breaker, also in two Redis     *)
(* calls; when the first one fails the mutation is refused.                *)
(***************************************************************************)
ReenableClear(c) ==
    /\ pc[c] = "idle"
    /\ state' = "CLOSED" /\ age' = Old
    /\ errors' = NoEvents /\ total' = NoEvents
    /\ Goto(c, "reenable")
    /\ Disturb(c)
    /\ UNCHANGED <<seen, calls, app, trouble>>

ReenableSet(c) ==
    /\ pc[c] = "reenable"
    /\ \/ state' = "CLOSED" /\ age' = 0
       \/ trouble /\ UNCHANGED <<state, age>>
    /\ Goto(c, "idle")
    /\ Disturb(c)
    /\ UNCHANGED <<errors, total, seen, calls, app, trouble>>

(***************************************************************************)
(* The environment: the clock, the app's health, Redis and the workers.    *)
(***************************************************************************)
Tick ==
    /\ calls >= MinCalls
    /\ calls' = 0
    /\ age' = NextTick(age)
    /\ seen' = [c \in Callers |-> [seen[c] EXCEPT !.age = NextTick(@)]]
    /\ errors' = Older(errors)
    /\ total' = Older(total)
    /\ UNCHANGED <<state, pc, app, trouble, disturbed>>

AppChanges ==
    /\ app' = IF app = "up" THEN "down" ELSE "up"
    /\ UNCHANGED <<state, age, errors, total, pc, seen, calls, trouble, disturbed>>

TroubleChanges ==
    /\ Troubles
    /\ trouble' = ~trouble
    /\ UNCHANGED <<state, age, errors, total, pc, seen, calls, app, disturbed>>

\* A worker is killed in the middle of a call.
Kill(c) ==
    /\ trouble /\ pc[c] # "idle"
    /\ Goto(c, "idle")
    /\ seen' = [seen EXCEPT ![c] = NothingSeen]
    /\ disturbed' = TRUE
    /\ UNCHANGED <<state, age, errors, total, calls, app, trouble>>

Call(c) ==
    \/ ReadState(c) \/ ReadTotal(c) \/ ReadErrors(c)
    \/ ClearState(c) \/ SetState(c)
    \/ Respond(c) \/ RegisterError(c) \/ RegisterTotal(c)
    \/ ReenableSet(c)

Next ==
    \/ \E c \in Callers : Call(c) \/ ReenableClear(c) \/ Kill(c)
    \/ Tick \/ AppChanges \/ TroubleChanges

\* Webhooks keep being sent, each Redis call and each request ends (both
\* have timeouts), and time passes.
Fairness == WF_vars(Tick) /\ \A c \in Callers : WF_vars(Call(c))

Spec == Init /\ [][Next]_vars
FairSpec == Spec /\ Fairness

-----------------------------------------------------------------------------
TypeOK ==
    /\ state \in States /\ age \in 0 .. Old
    /\ errors \in [Ages -> Nat] /\ total \in [Ages -> Nat]
    /\ pc \in [Callers -> Updating \cup {"idle", "call", "register_error", "register_total"}]
    /\ seen \in [Callers -> Readings]
    /\ calls \in Nat
    /\ app \in {"up", "down"} /\ trouble \in BOOLEAN /\ disturbed \in BOOLEAN

(***************************************************************************)
(* Between the deletion of the keys and the writing of the new state the   *)
(* breaker is still in the state that the worker has read.                 *)
(***************************************************************************)
Cleared == {c \in Callers : pc[c] = "set"}
Setter == CHOOSE c \in Cleared : TRUE

VisibleState == IF Cleared = {} THEN state ELSE seen[Setter].state
VisibleAge == IF Cleared = {} THEN age ELSE seen[Setter].age

Abstract == INSTANCE Breaker WITH state <- VisibleState, age <- VisibleAge

\* Until two updates overlap or one meets trouble, update_breaker_state and
\* set_breaker_state, two reads, a deletion and a write in Redis with
\* registrations in between, act as one atomic change of the breaker.
AtomicBreaker == Abstract!Spec

\* The app answers, and Redis and the workers are well, from some time on.
Healthy == app = "up" /\ ~trouble

\* Webhooks of an app that has recovered are not kept from it: neither
\* stale errors, nor late writes of other workers, nor lost commands leave
\* the breaker open or let it open again for ever.
SuccessHeals == <>[]Healthy => <>[](state = "CLOSED")

\* An app that only fails is cut off, whatever the workers have done before.
FailureTrips ==
    <>[](app = "down" /\ ~trouble /\ \A c \in Callers : pc[c] # "reenable")
        => []<>(state = "OPEN")
=============================================================================
