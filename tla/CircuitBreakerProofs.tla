------------------------- MODULE CircuitBreakerProofs -------------------------
(***************************************************************************)
(* The safety of one circuit for every threshold, every cooldown and every *)
(* set of callers, finite or not.                                          *)
(*                                                                         *)
(* Inv is inductive as it stands: the one fact the others need is that the *)
(* failure counter and the state agree.  Each method is first shown to     *)
(* take a good circuit to a good circuit (the lemmas), then the inductive  *)
(* step has one step per action.                                           *)
(***************************************************************************)
EXTENDS CircuitBreaker, TLAPS

Inv == TypeOK /\ ClosedIffBelowThreshold /\ GaugeTellsState

(* A circuit whose counter, state and gauge agree.                          *)
Sound(b) ==
    /\ b \in Circuit
    /\ b.state = "closed" <=> b.failures < Threshold
    /\ b.gauge \in {"absent", b.state}

LEMMA NewIsSound == Sound(NewCircuit)
BY ThresholdAssumption, CooldownAssumption DEF Sound, NewCircuit, Circuit, CircuitState

(* _get_state keeps a circuit sound, and moves it only from an expired OPEN *)
(* to HALF_OPEN.                                                            *)
LEMMA RefreshedIsSound ==
    ASSUME NEW b, Sound(b)
    PROVE  /\ Sound(Refreshed(b))
           /\ Refreshed(b) # b => /\ b.state = "open"
                                 /\ b.age = Cooldown
                                 /\ Refreshed(b).state = "half_open"
           /\ Refreshed(b).gauge = "absent" => b.gauge = "absent"
<1>1. CASE CooledDown(b)
  <2>1. b.state = "open" /\ b.age = Cooldown
    BY <1>1, CooldownAssumption DEF CooledDown, Sound, Circuit
  <2>2. /\ Refreshed(b) \in Circuit
        /\ Refreshed(b).state = "half_open"
        /\ Refreshed(b).gauge = "half_open"
        /\ Refreshed(b).failures = b.failures
    BY <1>1 DEF Refreshed, Sound, Circuit, CircuitState
  <2>3. QED
    BY <2>1, <2>2 DEF Sound
<1>2. CASE ~CooledDown(b)
  BY <1>2 DEF Refreshed
<1>3. QED
  BY <1>1, <1>2

LEMMA LookedIsSound ==
    ASSUME NEW b, Sound(b)
    PROVE  /\ Sound(Looked(b))
           /\ Looked(b).gauge # "absent"
           /\ Looked(b).state = Refreshed(b).state
<1>1. Sound(Refreshed(b))
  BY RefreshedIsSound
<1>2. QED
  BY <1>1 DEF Sound, Looked, Circuit, CircuitState

LEMMA SucceededIsSound ==
    ASSUME NEW b, Sound(b)
    PROVE  Sound(Succeeded(b)) /\ Succeeded(b).gauge = "closed"
BY ThresholdAssumption DEF Sound, Succeeded, Circuit, CircuitState

(* record_failure: the threshold test alone decides, since a HALF_OPEN      *)
(* circuit is already at the threshold.                                     *)
LEMMA FailedIsSound ==
    ASSUME NEW b, Sound(b)
    PROVE  /\ Sound(Failed(b))
           /\ Trips(b) <=> b.failures + 1 >= Threshold
           /\ Failed(b).gauge = "absent" => b.gauge = "absent"
BY ThresholdAssumption, CooldownAssumption
   DEF Sound, Failed, Trips, Circuit, CircuitState

LEMMA AgedIsSound ==
    ASSUME NEW b, Sound(b)
    PROVE  Sound(Aged(b)) /\ Aged(b).gauge = b.gauge /\ Aged(b).state = b.state
BY CooldownAssumption DEF Sound, Aged, Circuit, CircuitState

------------------------------------------------------------------------------
LEMMA InvIsSound == Inv <=> /\ Sound(circuit)
                            /\ calls \subseteq Caller
                            /\ calls # {} => circuit.gauge # "absent"
BY DEF Inv, TypeOK, ClosedIffBelowThreshold, GaugeTellsState, Sound

LEMMA InitInv == Init => Inv
BY NewIsSound, InvIsSound DEF Init

LEMMA NextInv == Inv /\ [Next]_vars => Inv'
<1> SUFFICES ASSUME Inv, [Next]_vars
             PROVE  /\ Sound(circuit')
                    /\ calls' \subseteq Caller
                    /\ calls' # {} => circuit'.gauge # "absent"
  BY DEF Inv, TypeOK, ClosedIffBelowThreshold, GaugeTellsState, Sound
<1>0. Sound(circuit) /\ calls \subseteq Caller /\ (calls # {} => circuit.gauge # "absent")
  BY InvIsSound
<1>1. ASSUME NEW c \in Caller, Ask(c)
      PROVE  /\ Sound(circuit')
             /\ calls' \subseteq Caller
             /\ calls' # {} => circuit'.gauge # "absent"
  BY <1>0, <1>1, LookedIsSound DEF Ask
<1>2. ASSUME NEW c \in Caller, RecordSuccess(c)
      PROVE  /\ Sound(circuit')
             /\ calls' \subseteq Caller
             /\ calls' # {} => circuit'.gauge # "absent"
  BY <1>0, <1>2, SucceededIsSound DEF RecordSuccess
<1>3. ASSUME NEW c \in Caller, RecordFailure(c)
      PROVE  /\ Sound(circuit')
             /\ calls' \subseteq Caller
             /\ calls' # {} => circuit'.gauge # "absent"
  BY <1>0, <1>3, FailedIsSound DEF RecordFailure
<1>4. ASSUME NEW c \in Caller, Abandon(c)
      PROVE  /\ Sound(circuit')
             /\ calls' \subseteq Caller
             /\ calls' # {} => circuit'.gauge # "absent"
  BY <1>0, <1>4 DEF Abandon
<1>5. CASE Export
  BY <1>0, <1>5, RefreshedIsSound DEF Export
<1>6. CASE Tick
  BY <1>0, <1>6, AgedIsSound DEF Tick
<1>7. CASE Restart
  BY <1>7, NewIsSound DEF Restart
<1>8. CASE UNCHANGED vars
  BY <1>0, <1>8 DEF vars
<1>9. QED
  BY <1>1, <1>2, <1>3, <1>4, <1>5, <1>6, <1>7, <1>8 DEF Next

LEMMA Invariance == Spec => []Inv
BY InitInv, NextInv, PTL DEF Spec

------------------------------------------------------------------------------
(* Type correctness of the circuit and of the set of calls in flight.       *)
THEOREM TypeCorrect == Spec => []TypeOK
<1>1. Inv => TypeOK
  BY DEF Inv
<1>2. QED BY <1>1, Invariance, PTL

(* The counter and the state of a circuit agree in every reachable state:   *)
(* the HALF_OPEN branch of record_failure can never be taken on its own.    *)
THEOREM CounterAgreesWithState == Spec => []ClosedIffBelowThreshold
<1>1. Inv => ClosedIffBelowThreshold
  BY DEF Inv
<1>2. QED BY <1>1, Invariance, PTL

(* The gauge of the metrics page is never at odds with the breaker.         *)
THEOREM GaugeIsTruthful == Spec => []GaugeTellsState
<1>1. Inv => GaugeTellsState
  BY DEF Inv
<1>2. QED BY <1>1, Invariance, PTL

(* An open circuit shields its provider for the whole cooldown, apart from  *)
(* the reports of calls that were already in flight and a restart.          *)
THEOREM OpenShields == Spec => OpenHolds
<1> DEFINE Holds == circuit.state = "open" =>
                       \/ circuit'.state = "open" /\ calls' = calls
                       \/ circuit'.state = "half_open" /\ circuit.age = Cooldown
                       \/ calls' # calls /\ calls' \subseteq calls
                       \/ circuit' = NewCircuit
<1>1. Inv /\ [Next]_vars => [Holds]_vars
  <2> SUFFICES ASSUME Inv, Next, circuit.state = "open"
               PROVE  Holds
    BY DEF vars
  <2>0. Sound(circuit)
    BY InvIsSound
  <2>1. ASSUME NEW c \in Caller, Ask(c) PROVE Holds
    <3>1. circuit'.state = Refreshed(circuit).state
      BY <2>0, <2>1, LookedIsSound DEF Ask
    <3>2. CASE Refreshed(circuit) = circuit
      BY <2>1, <3>1, <3>2 DEF Ask, CanExecute
    <3>3. CASE Refreshed(circuit) # circuit
      BY <2>0, <3>1, <3>3, RefreshedIsSound
    <3>4. QED BY <3>2, <3>3
  <2>2. ASSUME NEW c \in Caller, Report(c) PROVE Holds
    BY <2>2 DEF Report, RecordSuccess, RecordFailure, Abandon
  <2>3. CASE Export
    BY <2>0, <2>3, RefreshedIsSound DEF Export
  <2>4. CASE Tick
    BY <2>0, <2>4, AgedIsSound DEF Tick
  <2>5. CASE Restart
    BY <2>5 DEF Restart
  <2>6. QED
    BY <2>1, <2>2, <2>3, <2>4, <2>5 DEF Next, Report
<1>2. QED
  BY <1>1, Invariance, PTL DEF Spec, OpenHolds
==============================================================================
