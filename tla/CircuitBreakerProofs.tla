------------------------ MODULE CircuitBreakerProofs ------------------------
(***************************************************************************)
(* For any number of workers and any thresholds the breaker in Redis       *)
(* implements the atomic breaker of module Breaker.                        *)
(*                                                                         *)
(* The mapping alone is not inductive.  Undisturbed says what holds until  *)
(* an update overlaps another or meets trouble: one worker at a time       *)
(* updates the breaker, what it has read is still in Redis until it        *)
(* deletes the keys, and the state it will set follows from what it read.  *)
(***************************************************************************)
EXTENDS CircuitBreaker, QuantityFacts

\* A change that update_breaker_state may decide on.
Change(s, a, next) ==
    \/ s = "CLOSED" /\ next = "OPEN"
    \/ s = "OPEN" /\ a > Cooldown /\ next = "HALF_OPEN"
    \/ s = "HALF_OPEN" /\ next \in {"OPEN", "CLOSED"}

OneUpdates ==
    \A c, d \in Callers : pc[c] \in Updating /\ pc[d] \in Updating => c = d

ReadStands ==
    \A c \in Callers :
        /\ pc[c] \in {"read_total", "read_errors", "clear"} =>
              seen[c].state = state /\ seen[c].age = age
        /\ pc[c] \in {"clear", "set"} => Change(seen[c].state, seen[c].age, seen[c].target)

Undisturbed == ~disturbed => OneUpdates /\ ReadStands

-----------------------------------------------------------------------------
(***************************************************************************)
(* The event sets and the decision.                                        *)
(***************************************************************************)
\* zcard is a number.
LEMMA CountType ==
    ASSUME NEW events \in [Ages -> Nat]
    PROVE  EventCount(events) \in Nat
<1>1. IsFiniteSet(Ages)
  BY BreakerAssumption, FS_Interval DEF Ages
<1> QED BY <1>1, SumType DEF EventCount

LEMMA NoEventsType == NoEvents \in [Ages -> Nat]
BY DEF NoEvents

LEMMA RegisteredType ==
    ASSUME NEW events \in [Ages -> Nat]
    PROVE  Registered(events) \in [Ages -> Nat]
BY BreakerAssumption DEF Registered, Ages

LEMMA OlderType ==
    ASSUME NEW events \in [Ages -> Nat]
    PROVE  Older(events) \in [Ages -> Nat]
<1>1. ASSUME NEW a \in Ages, a # 0
      PROVE  a - 1 \in Ages
  BY <1>1, BreakerAssumption DEF Ages
<1>2. TTL \in Ages /\ TTL - 1 \in Ages
  BY BreakerAssumption DEF Ages
<1> QED BY <1>1, <1>2 DEF Older

\* A decision keeps the state or is one of the changes.
LEMMA DecisionFacts ==
    ASSUME NEW s \in States, NEW a, NEW count, NEW failed
    PROVE  /\ Decision(s, a, count, failed) \in States
           /\ Decision(s, a, count, failed) # s => Change(s, a, Decision(s, a, count, failed))
BY DEF Decision, States, Change

\* What a worker has read, with the state that it will set.
LEMMA TargetType ==
    ASSUME NEW r \in Readings, NEW s \in States
    PROVE  [r EXCEPT !.total = 0, !.target = s] \in Readings
BY DEF Readings

-----------------------------------------------------------------------------
(***************************************************************************)
(* Every action keeps the types and Undisturbed.                           *)
(***************************************************************************)
LEMMA ReadStateStep ==
    ASSUME TypeOK, Undisturbed, NEW c \in Callers, ReadState(c)
    PROVE  TypeOK' /\ Undisturbed'
<1> USE BreakerAssumption DEF ReadState, Goto, Disturb, Updating, States, Readings
<1>0. PICK r \in Reads(<<state, age>>, <<"CLOSED", Old>>) :
         seen' = [seen EXCEPT ![c].state = r[1], ![c].age = r[2]]
  OBVIOUS
<1>a. r[1] \in States /\ r[2] \in 0 .. Old /\ (~trouble => r[1] = state /\ r[2] = age)
  BY DEF Reads, TypeOK, Old
<1>b. seen'[c].state = r[1] /\ seen'[c].age = r[2] /\ pc'[c] = "read_total"
  BY <1>0 DEF TypeOK
<1>c. \A d \in Callers \ {c} : seen'[d] = seen[d] /\ pc'[d] = pc[d]
  BY <1>0 DEF TypeOK
<1>d. seen'[c] \in Readings
  <2>1. seen[c] \in Readings
    BY DEF TypeOK
  <2>2. seen'[c] = [seen[c] EXCEPT !.state = r[1], !.age = r[2]]
    BY <1>0, <2>1 DEF TypeOK
  <2> QED BY <1>a, <2>1, <2>2
<1>1. TypeOK'
  <2>1. seen' \in [Callers -> Readings]
    BY <1>0, <1>c, <1>d DEF TypeOK
  <2> QED BY <2>1 DEF TypeOK
<1>2. Undisturbed'
  BY <1>a, <1>b, <1>c DEF TypeOK, Undisturbed, OneUpdates, ReadStands
<1> QED BY <1>1, <1>2

LEMMA ReadTotalStep ==
    ASSUME TypeOK, Undisturbed, NEW c \in Callers, ReadTotal(c)
    PROVE  TypeOK' /\ Undisturbed'
<1> USE BreakerAssumption DEF ReadTotal, Goto, Disturb, Updating, States, Readings
<1>0. \A n \in Reads(EventCount(total), 0) : n \in Nat
  BY CountType DEF TypeOK, Reads
<1>1. TypeOK'
  BY <1>0 DEF TypeOK, Reads
<1>2. Undisturbed'
  BY <1>0 DEF TypeOK, Undisturbed, OneUpdates, ReadStands, Change
<1> QED BY <1>1, <1>2

LEMMA ReadErrorsStep ==
    ASSUME TypeOK, Undisturbed, NEW c \in Callers, ReadErrors(c)
    PROVE  TypeOK' /\ Undisturbed'
<1> USE BreakerAssumption DEF ReadErrors, Goto, Disturb, Updating, States, Readings
<1>0. PICK failed \in Reads(EventCount(errors), 0) :
         LET s == seen[c].state
             next == Decision(s, seen[c].age, seen[c].total, failed)
         IN  /\ seen' = [seen EXCEPT ![c] = IF next = s THEN NothingSeen
                                           ELSE [@ EXCEPT !.total = 0, !.target = next]]
             /\ pc' = [pc EXCEPT ![c] = IF next # s THEN "clear"
                                       ELSE IF s = "OPEN" THEN "idle" ELSE "call"]
  OBVIOUS
<1> DEFINE s == seen[c].state
           next == Decision(s, seen[c].age, seen[c].total, failed)
<1>a. s \in States /\ next \in States /\ (next # s => Change(s, seen[c].age, next))
  BY DecisionFacts DEF TypeOK
<1>b. /\ seen' = [seen EXCEPT ![c] = IF next = s THEN NothingSeen
                                      ELSE [@ EXCEPT !.total = 0, !.target = next]]
      /\ pc' = [pc EXCEPT ![c] = IF next # s THEN "clear"
                                  ELSE IF s = "OPEN" THEN "idle" ELSE "call"]
  BY <1>0
<1> HIDE DEF next
<1>c. /\ pc'[c] \in {"clear", "idle", "call"}
      /\ pc'[c] = "clear" => /\ seen'[c].state = s /\ seen'[c].age = seen[c].age
                              /\ seen'[c].target = next /\ next # s
      /\ seen'[c] \in Readings
  <2>1. seen[c] \in Readings
    BY DEF TypeOK
  <2>2. NothingSeen \in Readings
    BY DEF NothingSeen, Old
  <2>3. CASE next = s
    BY <1>b, <2>2, <2>3 DEF TypeOK
  <2>4. CASE next # s
    <3>1. seen'[c] = [seen[c] EXCEPT !.total = 0, !.target = next] /\ pc'[c] = "clear"
      BY <1>b, <2>4 DEF TypeOK
    <3>2. seen'[c] \in Readings
      BY <1>a, <2>1, <3>1, TargetType
    <3>3. /\ seen'[c].state = s /\ seen'[c].age = seen[c].age
          /\ seen'[c].target = next
      BY <2>1, <3>1
    <3> QED BY <2>4, <3>1, <3>2, <3>3
  <2> QED BY <2>3, <2>4
<1>d. \A d \in Callers \ {c} : seen'[d] = seen[d] /\ pc'[d] = pc[d]
  BY <1>b DEF TypeOK
<1>1. TypeOK'
  BY <1>b, <1>c DEF TypeOK
<1>2. Undisturbed'
  BY <1>a, <1>c, <1>d DEF TypeOK, Undisturbed, OneUpdates, ReadStands
<1> QED BY <1>1, <1>2

LEMMA ClearStateStep ==
    ASSUME TypeOK, Undisturbed, NEW c \in Callers, ClearState(c)
    PROVE  TypeOK' /\ Undisturbed'
<1> USE BreakerAssumption DEF ClearState, Goto, Disturb, Updating, States, Readings
<1>1. TypeOK'
  BY NoEventsType DEF TypeOK, Old
<1>2. Undisturbed'
  BY DEF TypeOK, Undisturbed, OneUpdates, ReadStands, Change, Old
<1> QED BY <1>1, <1>2

LEMMA SetStateStep ==
    ASSUME TypeOK, Undisturbed, NEW c \in Callers, SetState(c)
    PROVE  TypeOK' /\ Undisturbed'
<1> USE BreakerAssumption DEF SetState, Goto, Disturb, Updating, States, Readings
<1>1. TypeOK'
  BY DEF TypeOK, NothingSeen, Old
<1>2. Undisturbed'
  BY DEF TypeOK, Undisturbed, OneUpdates, ReadStands, Change, NothingSeen, Old
<1> QED BY <1>1, <1>2

LEMMA RespondStep ==
    ASSUME TypeOK, Undisturbed, NEW c \in Callers, Respond(c)
    PROVE  TypeOK' /\ Undisturbed'
<1> USE BreakerAssumption DEF Respond, Goto, Disturb, Updating, States, Readings
<1>1. TypeOK'
  BY DEF TypeOK
<1>2. Undisturbed'
  BY DEF TypeOK, Undisturbed, OneUpdates, ReadStands, Change
<1> QED BY <1>1, <1>2

LEMMA RegisterErrorStep ==
    ASSUME TypeOK, Undisturbed, NEW c \in Callers, RegisterError(c)
    PROVE  TypeOK' /\ Undisturbed'
<1> USE BreakerAssumption DEF RegisterError, Goto, Disturb, Updating, States, Readings
<1>1. TypeOK'
  BY RegisteredType DEF TypeOK
<1>2. Undisturbed'
  BY DEF TypeOK, Undisturbed, OneUpdates, ReadStands, Change
<1> QED BY <1>1, <1>2

LEMMA RegisterTotalStep ==
    ASSUME TypeOK, Undisturbed, NEW c \in Callers, RegisterTotal(c)
    PROVE  TypeOK' /\ Undisturbed'
<1> USE BreakerAssumption DEF RegisterTotal, Goto, Disturb, Updating, States, Readings
<1>1. TypeOK'
  BY RegisteredType DEF TypeOK
<1>2. Undisturbed'
  BY DEF TypeOK, Undisturbed, OneUpdates, ReadStands, Change
<1> QED BY <1>1, <1>2

LEMMA ReenableClearStep ==
    ASSUME TypeOK, Undisturbed, NEW c \in Callers, ReenableClear(c)
    PROVE  TypeOK' /\ Undisturbed'
<1> USE BreakerAssumption DEF ReenableClear, Goto, Disturb, Updating, States, Readings
<1>1. TypeOK'
  BY NoEventsType DEF TypeOK, Old
<1>2. Undisturbed'
  BY DEF TypeOK, Undisturbed, OneUpdates, ReadStands, Change, Old
<1> QED BY <1>1, <1>2

LEMMA ReenableSetStep ==
    ASSUME TypeOK, Undisturbed, NEW c \in Callers, ReenableSet(c)
    PROVE  TypeOK' /\ Undisturbed'
<1> USE BreakerAssumption DEF ReenableSet, Goto, Disturb, Updating, States, Readings
<1>1. TypeOK'
  BY DEF TypeOK, Old
<1>2. Undisturbed'
  BY DEF TypeOK, Undisturbed, OneUpdates, ReadStands, Change, Old
<1> QED BY <1>1, <1>2

LEMMA KillStep ==
    ASSUME TypeOK, Undisturbed, NEW c \in Callers, Kill(c)
    PROVE  TypeOK' /\ Undisturbed'
<1> USE BreakerAssumption DEF Kill, Goto, Disturb, Updating, States, Readings
<1>1. TypeOK'
  BY DEF TypeOK, NothingSeen, Old
<1>2. Undisturbed'
  BY DEF TypeOK, Undisturbed, OneUpdates, ReadStands, Change, NothingSeen, Old
<1> QED BY <1>1, <1>2

LEMMA TickStep ==
    ASSUME TypeOK, Undisturbed, Tick
    PROVE  TypeOK' /\ Undisturbed'
<1> USE BreakerAssumption DEF Tick, Goto, Disturb, Updating, States, Readings
<1>0. ASSUME NEW a \in 0 .. Old
      PROVE  NextTick(a) \in 0 .. Old /\ (a > Cooldown => NextTick(a) > Cooldown)
  BY DEF NextTick, Old
<1>a. \A c \in Callers : /\ seen'[c] = [seen[c] EXCEPT !.age = NextTick(@)]
                         /\ seen[c].age \in 0 .. Old
  BY DEF TypeOK
<1>1. TypeOK'
  <2>1. seen' \in [Callers -> Readings]
    <3>1. ASSUME NEW c \in Callers
          PROVE  [seen[c] EXCEPT !.age = NextTick(@)] \in Readings
      <4>1. seen[c] \in Readings
        BY DEF TypeOK
      <4> QED BY <1>0, <4>1
    <3> QED BY <3>1
  <2> QED BY <1>0, <2>1, OlderType DEF TypeOK
<1>2. Undisturbed'
  BY <1>0, <1>a DEF TypeOK, Undisturbed, OneUpdates, ReadStands, Change
<1> QED BY <1>1, <1>2

LEMMA AppChangesStep ==
    ASSUME TypeOK, Undisturbed, AppChanges
    PROVE  TypeOK' /\ Undisturbed'
<1> USE BreakerAssumption DEF AppChanges, Goto, Disturb, Updating, States, Readings
<1>1. TypeOK'
  BY DEF TypeOK
<1>2. Undisturbed'
  BY DEF TypeOK, Undisturbed, OneUpdates, ReadStands, Change
<1> QED BY <1>1, <1>2

LEMMA TroubleChangesStep ==
    ASSUME TypeOK, Undisturbed, TroubleChanges
    PROVE  TypeOK' /\ Undisturbed'
<1> USE BreakerAssumption DEF TroubleChanges, Goto, Disturb, Updating, States, Readings
<1>1. TypeOK'
  BY DEF TypeOK
<1>2. Undisturbed'
  BY DEF TypeOK, Undisturbed, OneUpdates, ReadStands, Change
<1> QED BY <1>1, <1>2

LEMMA InitStep == Init => TypeOK /\ Undisturbed
<1> SUFFICES ASSUME Init PROVE TypeOK /\ Undisturbed
  OBVIOUS
<1>1. NothingSeen \in Readings
  BY BreakerAssumption DEF NothingSeen, Readings, States, Old
<1>2. TypeOK
  <2>1. seen \in [Callers -> Readings]
    BY <1>1 DEF Init
  <2>2. state \in States /\ age \in 0 .. Old
    BY BreakerAssumption DEF Init, States, Old
  <2>3. trouble \in BOOLEAN /\ disturbed \in BOOLEAN
    BY DEF Init
  <2> QED BY <2>1, <2>2, <2>3, NoEventsType DEF Init, TypeOK
<1>3. Undisturbed
  BY DEF Init, Undisturbed, OneUpdates, ReadStands, Updating
<1> QED BY <1>2, <1>3

LEMMA NextStep == TypeOK /\ Undisturbed /\ [Next]_vars => (TypeOK /\ Undisturbed)'
<1> SUFFICES ASSUME TypeOK, Undisturbed, [Next]_vars
             PROVE  TypeOK' /\ Undisturbed'
  OBVIOUS
<1>1. CASE UNCHANGED vars
  BY <1>1 DEF vars, TypeOK, Undisturbed, OneUpdates, ReadStands
<1>2. CASE Next
  BY <1>2, ReadStateStep, ReadTotalStep, ReadErrorsStep, ClearStateStep, SetStateStep,
     RespondStep, RegisterErrorStep, RegisterTotalStep, ReenableClearStep, ReenableSetStep,
     KillStep, TickStep, AppChangesStep, TroubleChangesStep DEF Next, Call
<1> QED BY <1>1, <1>2

LEMMA InvHolds == Spec => [](TypeOK /\ Undisturbed)
<1> QED BY InitStep, NextStep, PTL DEF Spec

\* For any workers and thresholds no interleaving of the Redis calls of
\* BreakerBoard, and no failing command, takes the variables out of their
\* types: the state key only ever holds one of the three states.
THEOREM TypeCorrect == Spec => []TypeOK
<1> QED BY InvHolds, PTL

-----------------------------------------------------------------------------
(***************************************************************************)
(* The refinement.                                                         *)
(***************************************************************************)
\* Who has deleted the keys and will write the state, while undisturbed.
LEMMA VisibleFacts ==
    TypeOK /\ OneUpdates =>
        /\ \A c \in Callers : pc[c] = "set" =>
              VisibleState = seen[c].state /\ VisibleAge = seen[c].age
        /\ (\A c \in Callers : pc[c] # "set") => VisibleState = state /\ VisibleAge = age
<1> SUFFICES ASSUME OneUpdates
             PROVE  /\ \A c \in Callers : pc[c] = "set" =>
                          VisibleState = seen[c].state /\ VisibleAge = seen[c].age
                    /\ (\A c \in Callers : pc[c] # "set") =>
                          VisibleState = state /\ VisibleAge = age
  OBVIOUS
<1>1. ASSUME NEW c \in Callers, pc[c] = "set"
      PROVE  Cleared = {c} /\ Setter = c
  BY <1>1 DEF OneUpdates, Cleared, Setter, Updating
<1>2. ASSUME \A c \in Callers : pc[c] # "set"
      PROVE  Cleared = {}
  BY <1>2 DEF Cleared
<1> QED BY <1>1, <1>2 DEF VisibleState, VisibleAge

\* A change that is decided on is a step of the atomic breaker.
LEMMA ChangeFacts ==
    ASSUME VisibleState \in States, VisibleAge \in 0 .. Old, ~disturbed', VisibleAge' = 0,
           Change(VisibleState, VisibleAge, VisibleState')
    PROVE  Abstract!Next
BY DEF Change, Abstract!Next, Abstract!Trip, Abstract!Probe, Abstract!Reopen,
       Abstract!Recover, Abstract!ChangeTo

\* Initial states map to initial states.
LEMMA InitRefines == Init => Abstract!Init
<1> SUFFICES ASSUME Init PROVE Abstract!Init
  OBVIOUS
<1>1. Cleared = {}
  BY DEF Init, Cleared
<1> QED BY <1>1 DEF Init, Abstract!Init, VisibleState, VisibleAge, Old

\* Every step is a step of the atomic breaker or leaves it as it is.
LEMMA NextRefines ==
    TypeOK /\ Undisturbed /\ (TypeOK /\ Undisturbed)' /\ [Next]_vars
        => [Abstract!Next]_(Abstract!bvars)
<1> SUFFICES ASSUME TypeOK, Undisturbed, TypeOK', Undisturbed', [Next]_vars
             PROVE  Abstract!Next \/ UNCHANGED <<VisibleState, VisibleAge, disturbed>>
  BY DEF Abstract!bvars
<1> USE BreakerAssumption
<1>1. CASE disturbed'
  BY <1>1 DEF Abstract!Next
<1>2. CASE ~disturbed'
  <2>1. ~disturbed
    BY <1>2 DEF Next, Call, vars, ReadState, ReadTotal, ReadErrors, ClearState, SetState,
                Respond, RegisterError, RegisterTotal, ReenableClear, ReenableSet, Kill,
                Tick, AppChanges, TroubleChanges, Disturb, TypeOK
  <2>2. OneUpdates /\ ReadStands /\ OneUpdates' /\ ReadStands'
    BY <1>2, <2>1 DEF Undisturbed
  <2> DEFINE Facts ==
        /\ \A c \in Callers : pc[c] = "set" =>
              VisibleState = seen[c].state /\ VisibleAge = seen[c].age
        /\ (\A c \in Callers : pc[c] # "set") => VisibleState = state /\ VisibleAge = age
  <2>3. Facts
    BY <2>2, VisibleFacts
  <2>4. Facts'
    <3>1. (TypeOK /\ OneUpdates => Facts)'
      BY VisibleFacts, PTL
    <3> QED BY <2>2, <3>1
  <2>5. disturbed' = disturbed
    BY <1>2, <2>1 DEF TypeOK
  <2>6. VisibleState \in States /\ VisibleAge \in 0 .. Old
    BY <2>3 DEF TypeOK, Readings
  <2>7. ASSUME UNCHANGED <<state, age>>, \A c \in Callers : pc[c] = "set" => pc'[c] = "set",
               \A c \in Callers : pc'[c] = "set" => pc[c] = "set" /\ seen'[c] = seen[c]
        PROVE  UNCHANGED <<VisibleState, VisibleAge>>
    BY <2>3, <2>4, <2>7
  <2>8. CASE UNCHANGED vars
    BY <2>5, <2>7, <2>8 DEF vars
  <2>9. ASSUME NEW c \in Callers,
               \/ ReadState(c) \/ ReadTotal(c) \/ ReadErrors(c)
               \/ Respond(c) \/ RegisterError(c) \/ RegisterTotal(c)
        PROVE  UNCHANGED <<VisibleState, VisibleAge>>
    <3>1. UNCHANGED <<state, age>> /\ pc[c] # "set" /\ pc'[c] # "set"
      BY <2>9 DEF ReadState, ReadTotal, ReadErrors, Respond, RegisterError,
                  RegisterTotal, Goto, TypeOK
    <3>2. \A d \in Callers \ {c} : pc'[d] = pc[d] /\ seen'[d] = seen[d]
      BY <2>9 DEF ReadState, ReadTotal, ReadErrors, Respond, RegisterError,
                  RegisterTotal, Goto, TypeOK
    <3> QED BY <2>7, <3>1, <3>2
  <2>10. ASSUME NEW c \in Callers, ClearState(c)
         PROVE  UNCHANGED <<VisibleState, VisibleAge>>
    <3>1. pc[c] = "clear" /\ pc'[c] = "set" /\ seen' = seen
      BY <2>10 DEF ClearState, Goto, TypeOK
    <3>2. VisibleState' = seen[c].state /\ VisibleAge' = seen[c].age
      BY <2>4, <3>1
    <3>3. \A d \in Callers : pc[d] # "set"
      BY <2>2, <3>1 DEF OneUpdates, Updating
    <3> QED BY <2>2, <2>3, <3>1, <3>2, <3>3 DEF ReadStands
  <2>11. ASSUME NEW c \in Callers, SetState(c)
         PROVE  Abstract!Next
    <3>1. /\ pc[c] = "set" /\ pc'[c] # "set"
          /\ \A d \in Callers \ {c} : pc'[d] = pc[d]
          /\ ~trouble
      BY <1>2, <2>11 DEF SetState, Goto, Disturb, TypeOK
    <3>2. state' = seen[c].target /\ age' = 0
      BY <2>11, <3>1 DEF SetState
    <3>3. \A d \in Callers : pc'[d] # "set"
      BY <2>2, <3>1 DEF OneUpdates, Updating
    <3>4. VisibleState' = seen[c].target /\ VisibleAge' = 0
      BY <2>4, <3>2, <3>3
    <3>5. VisibleState = seen[c].state /\ VisibleAge = seen[c].age
      BY <2>3, <3>1
    <3>6. Change(VisibleState, VisibleAge, VisibleState')
      BY <2>2, <3>1, <3>4, <3>5 DEF ReadStands
    <3> QED BY <1>2, <2>6, <3>4, <3>6, ChangeFacts
  <2>12. ASSUME NEW c \in Callers, ReenableClear(c) \/ ReenableSet(c)
         PROVE  Abstract!Next
    <3>1. /\ state' = "CLOSED" /\ age' \in {0, Old}
          /\ pc'[c] # "set"
          /\ \A d \in Callers \ {c} : pc'[d] = pc[d] /\ pc[d] \notin Updating
      BY <1>2, <2>12 DEF ReenableClear, ReenableSet, Goto, Disturb, TypeOK
    <3>2. \A d \in Callers : pc'[d] # "set"
      BY <3>1 DEF Updating
    <3>3. VisibleState' = "CLOSED" /\ VisibleAge' \in {0, Cooldown + 1}
      BY <2>4, <3>1, <3>2 DEF Old
    <3> QED BY <1>2, <3>3 DEF Abstract!Next, Abstract!Reset
  <2>13. CASE Tick
    <3>1. /\ UNCHANGED <<state, pc>> /\ age' = NextTick(age)
          /\ \A c \in Callers : /\ seen'[c].state = seen[c].state
                                /\ seen'[c].age = NextTick(seen[c].age)
      BY <2>13 DEF Tick, TypeOK, Readings
    <3>2. VisibleState' = VisibleState /\ VisibleAge' = NextTick(VisibleAge)
      <4>1. CASE \A c \in Callers : pc[c] # "set"
        BY <2>3, <2>4, <3>1, <4>1
      <4>2. ASSUME NEW c \in Callers, pc[c] = "set"
            PROVE  VisibleState' = VisibleState /\ VisibleAge' = NextTick(VisibleAge)
        BY <2>3, <2>4, <3>1, <4>2
      <4> QED BY <4>1, <4>2
    <3> QED BY <1>2, <2>5, <2>6, <3>2 DEF Abstract!Next, Abstract!Wait, NextTick, Old
  <2>14. CASE AppChanges \/ TroubleChanges
    BY <2>7, <2>14 DEF AppChanges, TroubleChanges
  <2>15. \A c \in Callers : ~Kill(c)
    BY <1>2 DEF Kill
  <2> QED BY <2>5, <2>8, <2>9, <2>10, <2>11, <2>12, <2>13, <2>14, <2>15 DEF Next, Call
<1> QED BY <1>1, <1>2

\* Undisturbed, update_breaker_state and set_breaker_state act as one atomic
\* change of the breaker, although they are four Redis calls that calls and
\* registrations of other workers come between.
THEOREM Atomic == Spec => AtomicBreaker
<1> QED BY InitRefines, NextRefines, InvHolds, PTL DEF Spec, AtomicBreaker, Abstract!Spec
=============================================================================
