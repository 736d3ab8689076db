---------------------------- MODULE CircuitBreaker ----------------------------
(***************************************************************************)
(* What the circuit breaker promises about one provider, whoever its       *)
(* callers are: the functions of Breaker.tla called in any order the       *)
(* gateway allows.  A caller asks can_execute; if the answer is yes it     *)
(* calls the provider and later reports success or failure, or never       *)
(* reports at all (a client that disconnects cancels its stream).  Many    *)
(* callers are in flight at once, so a report can be about a call that was *)
(* admitted several state changes ago.                                     *)
(*                                                                         *)
(* Fallback.tla, the program's two fallback loops, is checked to implement *)
(* this module for every provider.                                         *)
(***************************************************************************)
EXTENDS Breaker

CONSTANT Caller         \* the requests that may use the provider

VARIABLES circuit,      \* the provider's circuit
          calls         \* the callers admitted that have not reported yet

vars == <<circuit, calls>>

TypeOK == circuit \in Circuit /\ calls \subseteq Caller

Init == circuit = NewCircuit /\ calls = {}

------------------------------------------------------------------------------
(* can_execute: the answer decides whether the caller goes on to the call.  *)
Ask(c) ==
    /\ c \notin calls
    /\ circuit' = Looked(circuit)
    /\ calls' = IF CanExecute(circuit) THEN calls \cup {c} ELSE calls

RecordSuccess(c) ==
    /\ c \in calls
    /\ circuit' = Succeeded(circuit)
    /\ calls' = calls \ {c}

RecordFailure(c) ==
    /\ c \in calls
    /\ circuit' = Failed(circuit)
    /\ calls' = calls \ {c}

(* The caller is cancelled while it waits for the provider: CancelledError  *)
(* is no Exception, so neither loop catches it and the breaker hears        *)
(* nothing.                                                                 *)
Abandon(c) ==
    /\ c \in calls
    /\ calls' = calls \ {c}
    /\ UNCHANGED circuit

(* get_states, export_state and, at shutdown, save_snapshot: they read      *)
(* through _get_state, so an export can move the circuit to HALF_OPEN.      *)
Export == circuit' = Refreshed(circuit) /\ UNCHANGED calls

Tick == circuit' = Aged(circuit) /\ UNCHANGED calls

(* The process restarts: the breaker, its gauge and all calls are gone.     *)
(* The snapshot written at shutdown is never read back.                     *)
Restart == circuit' = NewCircuit /\ calls' = {}

Report(c) == RecordSuccess(c) \/ RecordFailure(c) \/ Abandon(c)

Next ==
    \/ \E c \in Caller :
          \/ Ask(c)
          \/ RecordSuccess(c)
          \/ RecordFailure(c)
          \/ Abandon(c)
    \/ Export
    \/ Tick
    \/ Restart

Spec == Init /\ [][Next]_vars

(***************************************************************************)
(* Time passes, a provider call ends (every client has an HTTP timeout),   *)
(* and the provider keeps being asked for.                                 *)
(***************************************************************************)
Fairness ==
    /\ WF_vars(Tick)
    /\ WF_vars(\E c \in Caller : Ask(c))
    /\ \A c \in Caller : WF_vars(Report(c))

LiveSpec == Spec /\ Fairness

------------------------------------------------------------------------------
(* The failure counter and the state never disagree: a circuit is closed    *)
(* exactly when it has seen fewer than Threshold failures since the last    *)
(* success.  It makes the HALF_OPEN branch of record_failure dead code: a   *)
(* half-open circuit is already at the threshold.                           *)
ClosedIffBelowThreshold == circuit.state = "closed" <=> circuit.failures < Threshold

(* The circuit_breaker_state gauge an operator watches is the state itself: *)
(* no path changes the state and forgets the gauge, and a call in flight    *)
(* means the series exists.                                                 *)
GaugeTellsState ==
    /\ circuit.gauge \in {"absent", circuit.state}
    /\ calls # {} => circuit.gauge # "absent"

(* While the circuit is open nobody is admitted and it stays open, until    *)
(* either a full cooldown has passed since the latest failure (HALF_OPEN),  *)
(* or a call admitted earlier reports, or the process restarts.  With no    *)
(* call in flight the provider is shielded for the whole cooldown.          *)
OpenHolds ==
    [][circuit.state = "open" =>
          \/ circuit'.state = "open" /\ calls' = calls
          \/ circuit'.state = "half_open" /\ circuit.age = Cooldown
          \/ calls' # calls /\ calls' \subseteq calls
          \/ circuit' = NewCircuit]_vars

(* A provider that is shut out is tried again: late failures of calls that  *)
(* were in flight can restart the cooldown, but only finitely often.        *)
OpenIsEventuallyProbed == circuit.state = "open" ~> circuit.state # "open"
==============================================================================
