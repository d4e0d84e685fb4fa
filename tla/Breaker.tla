------------------------------ MODULE Breaker ------------------------------
(***************************************************************************)
(* What the circuit breaker of one app promises: every change of state is  *)
(* one atomic decision, taken in the state that it leaves, and an open     *)
(* breaker stays open for the cooldown.  saleor/webhook/circuit_breaker    *)
(* keeps the promise as long as nothing disturbs it: two updates of the    *)
(* state that overlap, a Redis command that fails, or a worker that is     *)
(* killed.  After a disturbance nothing is promised.                       *)
(***************************************************************************)
EXTENDS Naturals

CONSTANT Cooldown  \* BREAKER_BOARD_COOLDOWN_SECONDS, in ticks

VARIABLES
    state,     \* "CLOSED", "OPEN" or "HALF_OPEN"
    age,       \* ticks since the last change, Cooldown + 1 for any more
    disturbed  \* something has disturbed the breaker

bvars == <<state, age, disturbed>>

ChangeTo(s) ==
    /\ state' = s
    /\ age' = 0

Init ==
    /\ state = "CLOSED"
    /\ age = Cooldown + 1
    /\ disturbed = FALSE

\* Too many failures: the app is cut off.
Trip == state = "CLOSED" /\ ChangeTo("OPEN")

\* The cooldown is over: calls are let through to probe the app.
Probe == state = "OPEN" /\ age > Cooldown /\ ChangeTo("HALF_OPEN")

\* Failures while probing.
Reopen == state = "HALF_OPEN" /\ ChangeTo("OPEN")

\* Enough successes while probing.
Recover == state = "HALF_OPEN" /\ ChangeTo("CLOSED")

\* Staff re-enable the app's webhooks, in any state.
Reset == state' = "CLOSED" /\ age' \in {0, Cooldown + 1}

\* A tick of the clock.
Wait ==
    /\ age <= Cooldown
    /\ age' = age + 1
    /\ UNCHANGED state

Next ==
    \/ disturbed'
    \/ ~disturbed' /\ (Trip \/ Probe \/ Reopen \/ Recover \/ Reset \/ Wait)

Spec == Init /\ [][Next]_bvars
=============================================================================
