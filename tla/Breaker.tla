------------------------------- MODULE Breaker -------------------------------
(***************************************************************************)
(* The circuit of one provider, as a value: what CircuitBreaker keeps in   *)
(* _states, _failures and _opened_at under that provider's key, and the    *)
(* Prometheus gauge circuit_breaker_state it maintains beside them         *)
(* (src/app/gateway/circuit_breaker.py, src/app/telemetry/metrics.py).     *)
(*                                                                         *)
(* Every method of the class holds one lock for its whole body, so each is *)
(* a function from a circuit to a circuit; CircuitBreaker.tla and          *)
(* Fallback.tla use these functions in their actions.                      *)
(*                                                                         *)
(* Wall-clock time appears in the code only as time.time() - opened_at     *)
(* compared with the cooldown.  The circuit therefore holds age, the time  *)
(* since opened_at, saturated at Cooldown: nothing can tell a longer time  *)
(* apart.  For the same reason failures saturates at Threshold.            *)
(***************************************************************************)
EXTENDS Integers

CONSTANTS Threshold,    \* settings.circuit_failure_threshold
          Cooldown      \* settings.circuit_cooldown_seconds, in ticks

ASSUME ThresholdAssumption == Threshold \in Nat \ {0}
ASSUME CooldownAssumption == Cooldown \in Nat

CircuitState == {"closed", "open", "half_open"}

(***************************************************************************)
(* gauge is "absent" until the breaker first sets the provider's series.   *)
(***************************************************************************)
Circuit == [state    : CircuitState,
            failures : 0 .. Threshold,
            age      : 0 .. Cooldown,
            gauge    : CircuitState \cup {"absent"}]

(* A provider the breaker has never heard of: the defaults of the dict      *)
(* lookups.  opened_at defaults to 0, the epoch, hence an old age.          *)
NewCircuit == [state |-> "closed", failures |-> 0, age |-> Cooldown, gauge |-> "absent"]

------------------------------------------------------------------------------
(* Mutants of the operators below: plausible slips in circuit_breaker.py.   *)

NeverCooledDown(b) == FALSE                             \* OPEN never half-opens
CooledDownAtOnce(b) == b.state = "open"                 \* the cooldown is not compared
SilentSuccess(b) == [b EXCEPT !.state = "closed", !.failures = 0]
GivesOneBack(b) ==                                      \* failures - 1, not 0
    [state |-> "closed", failures |-> b.failures - 1, age |-> b.age, gauge |-> "closed"]
TripsOneLate(b) == b.failures + 1 > Threshold

------------------------------------------------------------------------------
(* time.time() - opened >= circuit_cooldown_seconds, asked of an OPEN one   *)
CooledDown(b) == b.state = "open" /\ b.age >= Cooldown

(* _get_state: reading the state of an OPEN circuit after its cooldown      *)
(* moves it to HALF_OPEN, gauge included; any other read changes nothing.   *)
Refreshed(b) ==
    IF CooledDown(b) THEN [b EXCEPT !.state = "half_open", !.gauge = "half_open"] ELSE b

(* can_execute, its answer and its effect: the gauge is set on every call.  *)
CanExecute(b) == Refreshed(b).state # "open"
Looked(b) == [Refreshed(b) EXCEPT !.gauge = Refreshed(b).state]

(* record_success, from whatever state the circuit is in.                   *)
Succeeded(b) == [state |-> "closed", failures |-> 0, age |-> b.age, gauge |-> "closed"]

(* The two conditions of record_failure under which the circuit opens.      *)
Trips(b) == b.failures + 1 >= Threshold \/ b.state = "half_open"

(* record_failure.  It opens the circuit afresh even when it is OPEN, which *)
(* restarts the cooldown; below the threshold it leaves the gauge alone.    *)
Failed(b) ==
    LET count == IF b.failures < Threshold THEN b.failures + 1 ELSE Threshold
    IN  IF Trips(b)
        THEN [state |-> "open", failures |-> count, age |-> 0, gauge |-> "open"]
        ELSE [b EXCEPT !.failures = count]

(* One tick of the wall clock.                                              *)
Aged(b) == [b EXCEPT !.age = IF @ < Cooldown THEN @ + 1 ELSE @]
==============================================================================
