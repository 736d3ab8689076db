---------------------------- MODULE FallbackProofs ----------------------------
(***************************************************************************)
(* Fallback, for every registry of providers, every set of requests and    *)
(* every setting of the retries and the breaker.                           *)
(***************************************************************************)
EXTENDS Fallback, TLAPS

(* A fallback chain starts with the primary, visits two or three registered *)
(* providers and none of them twice.                                        *)
LEMMA ChainShape ==
    ASSUME NEW m \in Model
    PROVE  /\ Hops(m) \in 2 .. 3
           /\ FallbackChain(m)[1] = m
           /\ \A i \in 1 .. Hops(m) : FallbackChain(m)[i] \in Model
           /\ \A i, j \in 1 .. Hops(m) :
                 FallbackChain(m)[i] = FallbackChain(m)[j] => i = j
BY ModelAssumption DEF FallbackChain, Hops

------------------------------------------------------------------------------
(* The methods of the breaker keep circuits well-typed.                     *)
LEMMA BreakerTypes ==
    ASSUME NEW b \in Circuit
    PROVE  /\ Looked(b) \in Circuit
           /\ Succeeded(b) \in Circuit
           /\ Failed(b) \in Circuit
           /\ Aged(b) \in Circuit
<1>1. Refreshed(b) \in Circuit
  BY DEF Refreshed, Circuit, CircuitState
<1>2. Looked(b) \in Circuit
  BY <1>1 DEF Looked, Circuit
<1>3. Succeeded(b) \in Circuit
  BY ThresholdAssumption DEF Succeeded, Circuit, CircuitState
<1>4. Failed(b) \in Circuit
  BY ThresholdAssumption, CooldownAssumption DEF Failed, Circuit, CircuitState
<1>5. Aged(b) \in Circuit
  BY CooldownAssumption DEF Aged, Circuit
<1>6. QED
  BY <1>2, <1>3, <1>4, <1>5

LEMMA NewCircuitType == NewCircuit \in Circuit
BY CooldownAssumption, ThresholdAssumption DEF NewCircuit, Circuit, CircuitState

LEMMA MovedType ==
    ASSUME NEW q \in RequestState, NEW pc \in Resting \cup Active,
           NEW at \in 1 .. 3, NEW output \in BOOLEAN
    PROVE  Moved(q, pc, at, output) \in RequestState
BY MaxAttemptsAssumption DEF Moved, RequestState

(* What the walk along the chain does to the request: it ends up calling    *)
(* the first provider from i on that the breaker admits, or failed.         *)
LEMMA SeekOutcome ==
    ASSUME NEW r \in Request, NEW q \in RequestState, NEW b \in [Model -> Circuit],
           NEW i \in 1 .. Hops(q.primary) + 1,
           req \in [Request -> RequestState], Seek(r, q, b, i)
    PROVE  \E k \in i .. Hops(q.primary) + 1 :
              /\ TurnedAway(b, FallbackChain(q.primary), i, k)
              /\ \/ /\ k <= Hops(q.primary)
                    /\ CanExecute(b[FallbackChain(q.primary)[k]])
                    /\ req' = [req EXCEPT ![r] = Moved(q, "calling", k, q.output)]
                 \/ /\ k = Hops(q.primary) + 1
                    /\ req' = [req EXCEPT ![r] = Moved(q, "failed", 1, q.output)]
<1>1. q.primary \in Model /\ Hops(q.primary) \in 2 .. 3
  BY ChainShape DEF RequestState
<1>2. QED
  BY <1>1 DEF Seek

(* What it does to the breaker: every provider it comes to is looked at.    *)
LEMMA SeekLooks ==
    ASSUME NEW r \in Request, NEW q \in RequestState, NEW b \in [Model -> Circuit],
           NEW i \in 1 .. Hops(q.primary) + 1,
           Seek(r, q, b, i), NEW m \in Model
    PROVE  cb'[m] = IF \E k \in i .. Hops(q.primary) :
                          /\ FallbackChain(q.primary)[k] = m
                          /\ TurnedAway(b, FallbackChain(q.primary), i, k)
                    THEN Looked(b[m]) ELSE b[m]
BY DEF Seek

LEMMA SeekTypes ==
    ASSUME TypeOK, NEW r \in Request, NEW q \in RequestState, NEW b \in [Model -> Circuit],
           NEW i \in 1 .. Hops(q.primary) + 1, Seek(r, q, b, i)
    PROVE  TypeOK'
<1>1. cb' \in [Model -> Circuit]
  <2>1. \A m \in Model : Looked(b[m]) \in Circuit
    BY BreakerTypes
  <2>2. QED
    BY <2>1 DEF Seek
<1>2. q.primary \in Model /\ Hops(q.primary) \in 2 .. 3
  BY ChainShape DEF RequestState
<1>3. PICK k \in 1 .. 3, pc \in {"calling", "failed"} :
            /\ k <= Hops(q.primary)
            /\ req' = [req EXCEPT ![r] = Moved(q, pc, k, q.output)]
  <2>1. PICK j \in i .. Hops(q.primary) + 1 :
              \/ /\ j <= Hops(q.primary)
                 /\ req' = [req EXCEPT ![r] = Moved(q, "calling", j, q.output)]
              \/ req' = [req EXCEPT ![r] = Moved(q, "failed", 1, q.output)]
    BY SeekOutcome DEF TypeOK
  <2>2. j \in 1 .. 4
    BY <1>2
  <2>3. QED
    BY <1>2, <2>1, <2>2
<1>4. Moved(q, pc, k, q.output) \in RequestState
  BY MovedType DEF Resting, Active, RequestState
<1>5. /\ Moved(q, pc, k, q.output).at = k
      /\ Moved(q, pc, k, q.output).primary = q.primary
      /\ Moved(q, pc, k, q.output).pc = pc
  BY DEF Moved
<1>6. req' \in [Request -> RequestState]
  BY <1>3, <1>4 DEF TypeOK
<1>7. ASSUME NEW s \in Request
      PROVE  /\ req'[s].at \in 1 .. Hops(req'[s].primary)
             /\ req'[s].pc = "sleeping" => req'[s].attempt < MaxAttempts
  <2>1. CASE s = r
    BY <1>2, <1>3, <1>5, <2>1 DEF TypeOK
  <2>2. CASE s # r
    BY <1>3, <2>2 DEF TypeOK
  <2>3. QED BY <2>1, <2>2
<1>8. QED
  BY <1>1, <1>6, <1>7 DEF TypeOK

------------------------------------------------------------------------------
LEMMA InitTypes == Init => TypeOK
<1>1. \A r \in Request : NewRequest("mock-small", "complete") \in RequestState
  BY ModelAssumption, MaxAttemptsAssumption DEF NewRequest, RequestState, Resting, Mode
<1>2. Hops("mock-small") = 2
  BY DEF FallbackChain, Hops
<1>3. QED
  BY <1>1, <1>2, NewCircuitType DEF Init, TypeOK, NewRequest

(* The index after the one a request is at is still within the walk.        *)
LEMMA NextIndex ==
    ASSUME TypeOK, NEW r \in Request
    PROVE  /\ req[r] \in RequestState
           /\ req[r].primary \in Model
           /\ req[r].at \in 1 .. Hops(req[r].primary)
           /\ req[r].at + 1 \in 1 .. Hops(req[r].primary) + 1
           /\ Provider(req[r]) \in Model
<1>1. req[r] \in RequestState /\ req[r].primary \in Model
  BY DEF TypeOK, RequestState
<1>2. QED
  BY <1>1, ChainShape DEF TypeOK, Provider

LEMMA FreshRequest ==
    ASSUME NEW m \in Model, NEW mode \in Mode
    PROVE  /\ NewRequest(m, mode) \in RequestState
           /\ NewRequest(m, mode).primary = m
           /\ 1 \in 1 .. Hops(m) + 1
BY ChainShape, MaxAttemptsAssumption DEF NewRequest, RequestState, Resting

(* A request that stays at its provider, or ends.                           *)
LEMMA UpdateTypes ==
    ASSUME TypeOK, NEW r \in Request, NEW q \in RequestState,
           q.at \in 1 .. Hops(q.primary),
           q.pc = "sleeping" => q.attempt < MaxAttempts,
           req' = [req EXCEPT ![r] = q], cb' \in [Model -> Circuit]
    PROVE  TypeOK'
<1>1. req' \in [Request -> RequestState]
  BY DEF TypeOK
<1>2. ASSUME NEW s \in Request
      PROVE  /\ req'[s].at \in 1 .. Hops(req'[s].primary)
             /\ req'[s].pc = "sleeping" => req'[s].attempt < MaxAttempts
  BY DEF TypeOK
<1>3. QED
  BY <1>1, <1>2 DEF TypeOK

LEMMA EndTypes ==
    ASSUME TypeOK, NEW r \in Request, NEW pc \in Resting, NEW output \in BOOLEAN,
           End(r, pc, output), cb' \in [Model -> Circuit]
    PROVE  TypeOK'
<1> DEFINE q == Moved(req[r], pc, 1, output)
<1>1. q \in RequestState
  BY MovedType DEF TypeOK
<1>2. q.at = 1 /\ q.primary = req[r].primary /\ q.pc = pc
  BY DEF Moved
<1>3. q.at \in 1 .. Hops(q.primary) /\ (q.pc = "sleeping" => q.attempt < MaxAttempts)
  <2>1. Hops(req[r].primary) \in 2 .. 3
    BY ChainShape, NextIndex
  <2>2. QED
    BY <1>2, <2>1 DEF Resting
<1>4. req' = [req EXCEPT ![r] = q]
  BY DEF End
<1> HIDE DEF q
<1>5. QED
  BY <1>1, <1>3, <1>4, UpdateTypes

LEMMA NextTypes == TypeOK /\ [Next]_vars => TypeOK'
<1> SUFFICES ASSUME TypeOK, [Next]_vars PROVE TypeOK'
  OBVIOUS
<1>1. ASSUME NEW r \in Request, NEW m \in Model, Start(r, m) PROVE TypeOK'
  <2>1. PICK mode \in Mode : Seek(r, NewRequest(m, mode), cb, 1)
    BY <1>1 DEF Start
  <2>2. QED
    BY <2>1, FreshRequest, SeekTypes DEF TypeOK
<1>2. ASSUME NEW r \in Request, AttemptFails(r) PROVE TypeOK'
  <2> DEFINE q == [req[r] EXCEPT !.pc = "sleeping"]
  <2>1. /\ q \in RequestState
        /\ q.at = req[r].at /\ q.primary = req[r].primary /\ q.attempt = req[r].attempt
    BY NextIndex DEF RequestState, Active
  <2>2. req[r].attempt < MaxAttempts /\ req' = [req EXCEPT ![r] = q] /\ cb' = cb
    BY <1>2 DEF AttemptFails, MayRetry, TypeOK
  <2> HIDE DEF q
  <2>3. QED
    BY <2>1, <2>2, NextIndex, UpdateTypes DEF TypeOK
<1>3. ASSUME NEW r \in Request, Retry(r) PROVE TypeOK'
  <2> DEFINE q == [req[r] EXCEPT !.pc = "calling", !.attempt = NextAttempt(req[r])]
  <2>1. req[r].attempt < MaxAttempts
    BY <1>3 DEF Retry, TypeOK
  <2>2. NextAttempt(req[r]) \in 1 .. MaxAttempts
    BY <2>1, NextIndex, MaxAttemptsAssumption DEF NextAttempt, RequestState
  <2>3. /\ q \in RequestState
        /\ q.at = req[r].at /\ q.primary = req[r].primary /\ q.pc = "calling"
    BY <2>2, NextIndex DEF RequestState, Active
  <2>4. req' = [req EXCEPT ![r] = q] /\ cb' = cb
    BY <1>3 DEF Retry, TypeOK
  <2> HIDE DEF q
  <2>5. QED
    BY <2>3, <2>4, NextIndex, UpdateTypes DEF TypeOK
<1>4. ASSUME NEW r \in Request, ProviderFails(r) \/ StreamRefused(r) PROVE TypeOK'
  <2>1. [cb EXCEPT ![Blamed(req[r])] = Failed(@)] \in [Model -> Circuit]
    BY BreakerTypes DEF TypeOK
  <2>2. Seek(r, req[r], [cb EXCEPT ![Blamed(req[r])] = Failed(@)], req[r].at + 1)
    BY <1>4 DEF ProviderFails, StreamRefused, After
  <2>3. QED
    BY <2>1, <2>2, NextIndex, SeekTypes
<1>5. ASSUME NEW r \in Request, CallSucceeds(r) \/ EmptyStream(r) PROVE TypeOK'
  <2>1. cb' \in [Model -> Circuit]
    BY <1>5, BreakerTypes DEF CallSucceeds, EmptyStream, TypeOK
  <2>2. QED
    BY <1>5, <2>1, EndTypes DEF CallSucceeds, EmptyStream, Resting
<1>6. ASSUME NEW r \in Request, FirstDelta(r) PROVE TypeOK'
  <2> DEFINE q == [req[r] EXCEPT !.pc = "streaming", !.output = TRUE]
  <2>1. cb' \in [Model -> Circuit]
    BY <1>6, BreakerTypes DEF FirstDelta, TypeOK
  <2>2. /\ q \in RequestState
        /\ q.at = req[r].at /\ q.primary = req[r].primary /\ q.pc = "streaming"
    BY NextIndex DEF RequestState, Active
  <2>3. req' = [req EXCEPT ![r] = q]
    BY <1>6 DEF FirstDelta
  <2> HIDE DEF q
  <2>4. QED
    BY <2>1, <2>2, <2>3, NextIndex, UpdateTypes
<1>7. ASSUME NEW r \in Request, StreamEnds(r) \/ StreamBreaks(r) \/ Disconnect(r) PROVE TypeOK'
  <2>1. cb' \in [Model -> Circuit] /\ req[r].output \in BOOLEAN
    BY <1>7 DEF StreamEnds, StreamBreaks, Disconnect, TypeOK, RequestState
  <2>2. QED
    BY <1>7, <2>1, EndTypes DEF StreamEnds, StreamBreaks, Disconnect, Resting
<1>8. CASE Tick
  <2>1. cb' \in [Model -> Circuit]
    BY <1>8, BreakerTypes DEF Tick, TypeOK
  <2>2. req' = req
    BY <1>8 DEF Tick
  <2>3. QED
    BY <2>1, <2>2 DEF TypeOK
<1>9. CASE Restart
  <2>1. Init'
    BY <1>9 DEF Restart, Init
  <2>2. QED
    BY <2>1, InitTypes, PTL
<1>10. CASE UNCHANGED vars
  BY <1>10 DEF vars, TypeOK
<1>11. QED
  BY <1>1, <1>2, <1>3, <1>4, <1>5, <1>6, <1>7, <1>8, <1>9, <1>10 DEF Next

(* The state of the breaker and of every request stays well-formed: indices *)
(* stay within the chain, attempts within the retry limit.                  *)
THEOREM TypeCorrect == Spec => []TypeOK
BY InitTypes, NextTypes, PTL DEF Spec

------------------------------------------------------------------------------
(* The methods of the breaker, seen through the instance CB(m), are the     *)
(* same functions.                                                          *)
LEMMA SameBreaker ==
    ASSUME NEW m \in Model, NEW b
    PROVE  /\ CB(m)!Looked(b) = Looked(b)
           /\ CB(m)!CanExecute(b) = CanExecute(b)
           /\ CB(m)!Succeeded(b) = Succeeded(b)
           /\ CB(m)!Failed(b) = Failed(b)
           /\ CB(m)!Aged(b) = Aged(b)
           /\ CB(m)!NewCircuit = NewCircuit
<1>1. CB(m)!Refreshed(b) = Refreshed(b)
  BY DEF CB!Refreshed, Refreshed, CB!CooledDown, CooledDown
<1>2. QED
  BY <1>1 DEF CB!Looked, Looked, CB!CanExecute, CanExecute, CB!Succeeded, Succeeded,
              CB!Failed, Failed, CB!Trips, Trips, CB!Aged, Aged, CB!NewCircuit, NewCircuit

(* The calls in flight to m, after a step that moves request r to q.        *)
LEMMA InFlightUpdate ==
    ASSUME NEW r \in Request, NEW q, NEW m, TypeOK, req' = [req EXCEPT ![r] = q]
    PROVE  InFlight(m)' = IF HasCall(q, m) THEN InFlight(m) \cup {r} ELSE InFlight(m) \ {r}
BY DEF InFlight, TypeOK

(* One request's step, seen from provider m: what it must do to be a step   *)
(* of the contract.                                                         *)
LEMMA AskStep ==
    ASSUME NEW m \in Model, NEW r \in Request, NEW q, TypeOK,
           req' = [req EXCEPT ![r] = q], ~HasCall(req[r], m),
           cb'[m] = Looked(cb[m]), HasCall(q, m) <=> CanExecute(cb[m])
    PROVE  CB(m)!Next
<1>1. r \notin InFlight(m)
  BY DEF InFlight
<1>2. InFlight(m)' = IF CanExecute(cb[m]) THEN InFlight(m) \cup {r} ELSE InFlight(m)
  <2>1. InFlight(m)' = IF HasCall(q, m) THEN InFlight(m) \cup {r} ELSE InFlight(m) \ {r}
    BY InFlightUpdate
  <2>2. InFlight(m) \ {r} = InFlight(m)
    BY <1>1
  <2>3. QED
    BY <2>1, <2>2
<1>3. CB(m)!Ask(r)
  BY <1>1, <1>2, SameBreaker DEF CB!Ask
<1>4. QED
  BY <1>3 DEF CB!Next

LEMMA ReportStep ==
    ASSUME NEW m \in Model, NEW r \in Request, NEW q, TypeOK,
           req' = [req EXCEPT ![r] = q], HasCall(req[r], m), ~HasCall(q, m),
           cb'[m] \in {cb[m], Succeeded(cb[m]), Failed(cb[m])}
    PROVE  CB(m)!Next
<1>1. r \in InFlight(m)
  BY DEF InFlight
<1>2. InFlight(m)' = InFlight(m) \ {r}
  BY InFlightUpdate
<1>3. CB(m)!RecordSuccess(r) \/ CB(m)!RecordFailure(r) \/ CB(m)!Abandon(r)
  BY <1>1, <1>2, SameBreaker DEF CB!RecordSuccess, CB!RecordFailure, CB!Abandon
<1>4. QED
  BY <1>3 DEF CB!Next

LEMMA QuietStep ==
    ASSUME NEW m \in Model, NEW r \in Request, NEW q, TypeOK,
           req' = [req EXCEPT ![r] = q], HasCall(req[r], m) <=> HasCall(q, m),
           cb'[m] = cb[m]
    PROVE  UNCHANGED CB(m)!vars
<1>1. InFlight(m)' = InFlight(m)
  BY InFlightUpdate DEF InFlight
<1>2. QED
  BY <1>1 DEF CB!vars

(* The walk along the chain, seen from a provider that request r was not    *)
(* calling and whose circuit is as before: the provider is asked, and       *)
(* called exactly when it admits the call, or it is left alone.             *)
LEMMA SeekAsks ==
    ASSUME TypeOK, NEW r \in Request, NEW q \in RequestState, NEW b \in [Model -> Circuit],
           NEW i \in 1 .. Hops(q.primary) + 1, Seek(r, q, b, i),
           NEW m \in Model, ~HasCall(req[r], m), b[m] = cb[m]
    PROVE  CB(m)!Next \/ UNCHANGED CB(m)!vars
<1> DEFINE chain == FallbackChain(q.primary)
           last  == Hops(q.primary)
<1>1. /\ last \in 2 .. 3
      /\ \A j, k \in 1 .. last : chain[j] = chain[k] => j = k
  BY ChainShape DEF RequestState
<1>2. cb'[m] = IF \E j \in i .. last : chain[j] = m /\ TurnedAway(b, chain, i, j)
               THEN Looked(cb[m]) ELSE cb[m]
  BY SeekLooks
<1>3. PICK k \in i .. last + 1 :
         /\ TurnedAway(b, chain, i, k)
         /\ \/ /\ k <= last
               /\ CanExecute(b[chain[k]])
               /\ req' = [req EXCEPT ![r] = Moved(q, "calling", k, q.output)]
            \/ /\ k = last + 1
               /\ req' = [req EXCEPT ![r] = Moved(q, "failed", 1, q.output)]
  BY SeekOutcome DEF TypeOK
<1> HIDE DEF last
<1>4. CASE k <= last
  <2> DEFINE called == Moved(q, "calling", k, q.output)
  <2>1. CanExecute(b[chain[k]]) /\ req' = [req EXCEPT ![r] = called]
    BY <1>1, <1>3, <1>4
  <2>2. HasCall(called, m) <=> chain[k] = m
    BY DEF HasCall, Provider, Moved
  <2> HIDE DEF called
  <2>3. CASE \E j \in i .. last : chain[j] = m /\ TurnedAway(b, chain, i, j)
    <3>1. PICK j \in i .. last : chain[j] = m /\ TurnedAway(b, chain, i, j)
      BY <2>3
    <3>2. j <= k
      BY <1>1, <1>4, <2>1, <3>1 DEF TurnedAway
    <3>3. CASE j = k
      <4>1. CanExecute(cb[m]) /\ HasCall(called, m)
        BY <2>1, <2>2, <3>1, <3>3
      <4>2. QED
        BY <1>2, <2>1, <2>3, <4>1, AskStep
    <3>4. CASE j < k
      <4>1. ~CanExecute(cb[m])
        BY <1>1, <1>3, <3>1, <3>4 DEF TurnedAway
      <4>2. ~HasCall(called, m)
        BY <1>1, <1>4, <2>2, <3>1, <3>4
      <4>3. QED
        BY <1>2, <2>1, <2>3, <4>1, <4>2, AskStep
    <3>5. QED
      BY <1>1, <3>2, <3>3, <3>4
  <2>4. CASE ~(\E j \in i .. last : chain[j] = m /\ TurnedAway(b, chain, i, j))
    <3>1. k \in i .. last
      BY <1>1, <1>4
    <3>2. ~HasCall(called, m)
      BY <1>3, <2>2, <2>4, <3>1
    <3>3. QED
      BY <1>2, <2>1, <2>4, <3>2, QuietStep
  <2>5. QED
    BY <2>3, <2>4
<1>5. CASE ~(k <= last)
  <2> DEFINE lost == Moved(q, "failed", 1, q.output)
  <2>1. req' = [req EXCEPT ![r] = lost] /\ k = last + 1
    BY <1>3, <1>5
  <2>2. ~HasCall(lost, m)
    BY DEF HasCall, Moved
  <2> HIDE DEF lost
  <2>3. CASE \E j \in i .. last : chain[j] = m /\ TurnedAway(b, chain, i, j)
    <3>1. PICK j \in i .. last : chain[j] = m
      BY <2>3
    <3>2. ~CanExecute(cb[m])
      BY <1>1, <1>3, <2>1, <3>1 DEF TurnedAway
    <3>3. QED
      BY <1>2, <2>1, <2>2, <2>3, <3>2, AskStep
  <2>4. CASE ~(\E j \in i .. last : chain[j] = m /\ TurnedAway(b, chain, i, j))
    BY <1>2, <2>1, <2>2, <2>4, QuietStep
  <2>5. QED
    BY <2>3, <2>4
<1>6. QED
  BY <1>4, <1>5

(* A failure report followed by the rest of the walk, seen from every       *)
(* provider.                                                                *)
LEMMA FailureContract ==
    ASSUME TypeOK, NEW r \in Request, req[r].pc = "calling",
           Seek(r, req[r], [cb EXCEPT ![Blamed(req[r])] = Failed(@)], req[r].at + 1),
           NEW m \in Model
    PROVE  CB(m)!Next \/ UNCHANGED CB(m)!vars
<1> DEFINE p == Provider(req[r])
           b == [cb EXCEPT ![p] = Failed(@)]
           i == req[r].at + 1
           chain == FallbackChain(req[r].primary)
           last == Hops(req[r].primary)
<1>1. /\ req[r] \in RequestState /\ req[r].at \in 1 .. last /\ i \in 1 .. last + 1
      /\ p \in Model /\ p = chain[req[r].at]
      /\ last \in 2 .. 3
      /\ \A j, k \in 1 .. last : chain[j] = chain[k] => j = k
  BY NextIndex, ChainShape DEF Provider
<1>2. b \in [Model -> Circuit] /\ Seek(r, req[r], b, i)
  BY <1>1, BreakerTypes DEF TypeOK, Blamed
<1>3. CASE m # p
  <2>1. b[m] = cb[m] /\ ~HasCall(req[r], m)
    BY <1>3 DEF HasCall, TypeOK
  <2> HIDE DEF b, i
  <2>2. QED
    BY <1>1, <1>2, <2>1, SeekAsks
<1>4. CASE m = p
  <2>1. \A j \in i .. last : chain[j] # m
    BY <1>1, <1>4
  <2>2. b[m] = Failed(cb[m]) /\ HasCall(req[r], m)
    BY <1>1, <1>4 DEF HasCall, TypeOK
  <2> HIDE DEF b, i
  <2>3. cb'[m] = Failed(cb[m])
    BY <1>1, <1>2, <2>1, <2>2, SeekLooks
  <2>4. PICK k \in i .. last + 1 :
          \/ k <= last /\ req' = [req EXCEPT ![r] = Moved(req[r], "calling", k, req[r].output)]
          \/ req' = [req EXCEPT ![r] = Moved(req[r], "failed", 1, req[r].output)]
    BY <1>1, <1>2, SeekOutcome DEF TypeOK
  <2>5. PICK q : req' = [req EXCEPT ![r] = q] /\ ~HasCall(q, m)
    <3>1. CASE k <= last /\ req' = [req EXCEPT ![r] = Moved(req[r], "calling", k, req[r].output)]
      <4>1. chain[k] # m
        BY <2>1, <3>1
      <4>2. ~HasCall(Moved(req[r], "calling", k, req[r].output), m)
        BY <4>1 DEF HasCall, Provider, Moved
      <4>3. QED
        BY <3>1, <4>2
    <3>2. CASE req' = [req EXCEPT ![r] = Moved(req[r], "failed", 1, req[r].output)]
      <4>1. ~HasCall(Moved(req[r], "failed", 1, req[r].output), m)
        BY DEF HasCall, Moved
      <4>2. QED
        BY <3>2, <4>1
    <3>3. QED
      BY <2>4, <3>1, <3>2
  <2>6. QED
    BY <2>2, <2>3, <2>5, ReportStep
<1>5. QED
  BY <1>3, <1>4

LEMMA InitContract == Init => \A m \in Model : CB(m)!Init
<1> SUFFICES ASSUME Init, NEW m \in Model
             PROVE  cb[m] = NewCircuit /\ InFlight(m) = {}
  BY SameBreaker DEF CB!Init
<1>1. \A r \in Request : ~HasCall(req[r], m)
  BY DEF Init, NewRequest, HasCall
<1>2. QED
  BY <1>1 DEF Init, InFlight

LEMMA NextContract ==
    ASSUME TypeOK, [Next]_vars, NEW m \in Model
    PROVE  CB(m)!Next \/ UNCHANGED CB(m)!vars
<1>1. ASSUME NEW r \in Request, NEW n \in Model, Start(r, n)
      PROVE  CB(m)!Next \/ UNCHANGED CB(m)!vars
  <2>1. PICK mode \in Mode : Seek(r, NewRequest(n, mode), cb, 1)
    BY <1>1 DEF Start
  <2>2. ~HasCall(req[r], m)
    BY <1>1 DEF Start, HasCall, Resting
  <2>3. QED
    BY <2>1, <2>2, FreshRequest, SeekAsks DEF TypeOK
<1>2. ASSUME NEW r \in Request, AttemptFails(r)
      PROVE  UNCHANGED CB(m)!vars
  <2> DEFINE q == [req[r] EXCEPT !.pc = "sleeping"]
  <2>1. req' = [req EXCEPT ![r] = q] /\ cb' = cb
    BY <1>2 DEF AttemptFails, TypeOK
  <2>2. HasCall(req[r], m) <=> HasCall(q, m)
    BY <1>2, NextIndex DEF AttemptFails, HasCall, Provider, RequestState
  <2> HIDE DEF q
  <2>3. QED
    BY <2>1, <2>2, QuietStep
<1>3. ASSUME NEW r \in Request, Retry(r)
      PROVE  UNCHANGED CB(m)!vars
  <2> DEFINE q == [req[r] EXCEPT !.pc = "calling", !.attempt = NextAttempt(req[r])]
  <2>1. req' = [req EXCEPT ![r] = q] /\ cb' = cb
    BY <1>3 DEF Retry, TypeOK
  <2>2. HasCall(req[r], m) <=> HasCall(q, m)
    BY <1>3, NextIndex DEF Retry, HasCall, Provider, RequestState
  <2> HIDE DEF q
  <2>3. QED
    BY <2>1, <2>2, QuietStep
<1>4. ASSUME NEW r \in Request, ProviderFails(r) \/ StreamRefused(r)
      PROVE  CB(m)!Next \/ UNCHANGED CB(m)!vars
  <2>1. /\ req[r].pc = "calling"
        /\ Seek(r, req[r], [cb EXCEPT ![Blamed(req[r])] = Failed(@)], req[r].at + 1)
    BY <1>4 DEF ProviderFails, StreamRefused, After
  <2>2. QED
    BY <2>1, FailureContract
<1>5. ASSUME NEW r \in Request, NEW q, req' = [req EXCEPT ![r] = q],
             req[r].pc = "calling", q.pc \notin {"calling", "sleeping"},
             cb' \in {cb, [cb EXCEPT ![Provider(req[r])] = Succeeded(@)]}
      PROVE  CB(m)!Next \/ UNCHANGED CB(m)!vars
  <2>1. ~HasCall(q, m) /\ (HasCall(req[r], m) <=> m = Provider(req[r]))
    BY <1>5 DEF HasCall
  <2>2. CASE m = Provider(req[r])
    <3>1. cb'[m] \in {cb[m], Succeeded(cb[m])}
      BY <1>5, <2>2 DEF TypeOK
    <3>2. QED
      BY <1>5, <2>1, <2>2, <3>1, ReportStep
  <2>3. CASE m # Provider(req[r])
    <3>1. cb'[m] = cb[m]
      BY <1>5, <2>3 DEF TypeOK
    <3>2. QED
      BY <1>5, <2>1, <2>3, <3>1, QuietStep
  <2>4. QED
    BY <2>2, <2>3
<1>6. ASSUME NEW r \in Request, CallSucceeds(r) \/ EmptyStream(r)
      PROVE  CB(m)!Next \/ UNCHANGED CB(m)!vars
  <2>1. PICK output \in BOOLEAN : req' = [req EXCEPT ![r] = Moved(req[r], "served", 1, output)]
    BY <1>6 DEF CallSucceeds, EmptyStream, End, TypeOK
  <2>2. Moved(req[r], "served", 1, output).pc = "served"
    BY DEF Moved
  <2>3. /\ req[r].pc = "calling"
        /\ cb' = [cb EXCEPT ![Provider(req[r])] = Succeeded(@)]
    BY <1>6 DEF CallSucceeds, EmptyStream
  <2>4. QED
    BY <2>1, <2>2, <2>3, <1>5
<1>7. ASSUME NEW r \in Request, FirstDelta(r)
      PROVE  CB(m)!Next \/ UNCHANGED CB(m)!vars
  <2> DEFINE q == [req[r] EXCEPT !.pc = "streaming", !.output = TRUE]
  <2>1. /\ req[r].pc = "calling"
        /\ cb' = [cb EXCEPT ![Provider(req[r])] = Succeeded(@)]
        /\ req' = [req EXCEPT ![r] = q]
    BY <1>7 DEF FirstDelta
  <2>2. q.pc = "streaming"
    BY NextIndex DEF RequestState
  <2> HIDE DEF q
  <2>3. QED
    BY <2>1, <2>2, <1>5
<1>8. ASSUME NEW r \in Request, StreamEnds(r) \/ StreamBreaks(r) \/ Disconnect(r)
      PROVE  CB(m)!Next \/ UNCHANGED CB(m)!vars
  <2>1. PICK pc \in {"served", "interrupted", "gone"}, output \in {TRUE, req[r].output} :
           req' = [req EXCEPT ![r] = Moved(req[r], pc, 1, output)]
    BY <1>8 DEF StreamEnds, StreamBreaks, Disconnect, End, TypeOK
  <2>2. Moved(req[r], pc, 1, output).pc = pc
    BY DEF Moved
  <2>3. cb' = cb /\ req[r].pc \in {"calling", "streaming"}
    BY <1>8 DEF StreamEnds, StreamBreaks, Disconnect
  <2>4. CASE req[r].pc = "calling"
    BY <2>1, <2>2, <2>3, <2>4, <1>5
  <2>5. CASE req[r].pc = "streaming"
    <3>1. ~HasCall(req[r], m) /\ ~HasCall(Moved(req[r], pc, 1, output), m)
      BY <2>2, <2>5 DEF HasCall
    <3>2. QED
      BY <2>1, <2>3, <3>1, QuietStep
  <2>6. QED
    BY <2>3, <2>4, <2>5
<1>9. CASE Tick
  <2>1. cb'[m] = Aged(cb[m]) /\ InFlight(m)' = InFlight(m)
    BY <1>9 DEF Tick, InFlight
  <2>2. QED
    BY <2>1, SameBreaker DEF CB!Next, CB!Tick
<1>10. CASE Restart
  <2>1. cb'[m] = NewCircuit /\ \A r \in Request : req'[r] = NewRequest("mock-small", "complete")
    BY <1>10 DEF Restart
  <2>2. ~HasCall(NewRequest("mock-small", "complete"), m)
    BY DEF HasCall, NewRequest
  <2>3. InFlight(m)' = {}
    BY <2>1, <2>2 DEF InFlight
  <2>4. QED
    BY <2>1, <2>3, SameBreaker DEF CB!Next, CB!Restart
<1>11. CASE UNCHANGED vars
  BY <1>11 DEF vars, CB!vars, InFlight
<1>12. QED
  BY <1>1, <1>2, <1>3, <1>4, <1>6, <1>7, <1>8, <1>9, <1>10, <1>11 DEF Next

(* The two fallback loops implement the contract of the circuit breaker for *)
(* every provider: calls only after admission, at most one report for each, *)
(* to the right provider, through retries, fallbacks, disconnects and       *)
(* restarts, for any number of concurrent requests.                         *)
THEOREM ImplementsBreaker == Spec => BreakerContract
<1>1. Init => \A m \in Model : CB(m)!Init
  BY InitContract
<1>2. TypeOK /\ [Next]_vars => [\A m \in Model : [CB(m)!Next]_(CB(m)!vars)]_vars
  BY NextContract
<1>3. QED
  BY <1>1, <1>2, TypeCorrect, PTL DEF Spec, BreakerContract

------------------------------------------------------------------------------
(***************************************************************************)
(* Availability.  FailsOnlyWithoutReliable is not inductive: a request     *)
(* fails because of what happened to the breaker and to its walk before.   *)
(* The strengthening says that a reliable provider's circuit is as good as *)
(* new, hence always admits, and that no walk has gone past one.           *)
(***************************************************************************)
Healthy(b) == \A m \in Reliable : b[m].state = "closed" /\ b[m].failures = 0

PassedOver(q) ==
    /\ q.pc \in {"calling", "sleeping"} =>
          \A i \in 1 .. q.at - 1 : FallbackChain(q.primary)[i] \notin Reliable
    /\ q.pc = "failed" =>
          \A i \in 1 .. Hops(q.primary) : FallbackChain(q.primary)[i] \notin Reliable

AInv == TypeOK /\ Healthy(cb) /\ \A r \in Request : PassedOver(req[r])

LEMMA HealthyAdmits ==
    ASSUME NEW b \in [Model -> Circuit], Healthy(b), NEW m \in Reliable
    PROVE  CanExecute(b[m]) /\ Looked(b[m]).state = "closed" /\ Looked(b[m]).failures = 0
<1>1. b[m] \in Circuit /\ b[m].state = "closed" /\ b[m].failures = 0
  BY ReliableAssumption DEF Healthy
<1>2. Refreshed(b[m]) = b[m]
  BY <1>1 DEF Refreshed, CooledDown
<1>3. QED
  BY <1>1, <1>2 DEF CanExecute, Looked, Circuit

(* A walk never goes past a reliable provider, so it fails only if there is *)
(* none from its start on.                                                  *)
LEMMA SeekStaysAvailable ==
    ASSUME TypeOK, NEW r \in Request, NEW q \in RequestState, NEW b \in [Model -> Circuit],
           NEW i \in 1 .. Hops(q.primary) + 1, Seek(r, q, b, i), Healthy(b),
           \A s \in Request : PassedOver(req[s]),
           \A j \in 1 .. i - 1 : FallbackChain(q.primary)[j] \notin Reliable
    PROVE  Healthy(cb') /\ \A s \in Request : PassedOver(req'[s])
<1> DEFINE chain == FallbackChain(q.primary)
           last  == Hops(q.primary)
<1>0. last \in 2 .. 3
  BY ChainShape DEF RequestState
<1>1. ASSUME NEW m \in Reliable
      PROVE  cb'[m].state = "closed" /\ cb'[m].failures = 0
  <2>1. cb'[m] \in {Looked(b[m]), b[m]}
    BY SeekLooks, ReliableAssumption
  <2>2. QED
    BY <2>1, HealthyAdmits DEF Healthy
<1>2. PICK k \in i .. last + 1 :
         /\ TurnedAway(b, chain, i, k)
         /\ \/ k <= last /\ req' = [req EXCEPT ![r] = Moved(q, "calling", k, q.output)]
            \/ k = last + 1 /\ req' = [req EXCEPT ![r] = Moved(q, "failed", 1, q.output)]
  BY SeekOutcome DEF TypeOK
<1>3. \A j \in i .. k - 1 : chain[j] \notin Reliable
  BY <1>2, HealthyAdmits DEF TurnedAway
<1> HIDE DEF last
<1>4. \A j \in 1 .. k - 1 : chain[j] \notin Reliable
  BY <1>0, <1>3
<1>5. PassedOver(req'[r])
  <2>1. CASE k <= last /\ req' = [req EXCEPT ![r] = Moved(q, "calling", k, q.output)]
    <3>1. req'[r] = Moved(q, "calling", k, q.output)
      BY <2>1 DEF TypeOK
    <3>2. QED
      BY <1>4, <3>1 DEF PassedOver, Moved
  <2>2. CASE k = last + 1 /\ req' = [req EXCEPT ![r] = Moved(q, "failed", 1, q.output)]
    <3>1. req'[r] = Moved(q, "failed", 1, q.output)
      BY <2>2 DEF TypeOK
    <3>2. k - 1 = Hops(q.primary)
      BY <1>0, <2>2 DEF last
    <3>3. QED
      BY <1>4, <3>1, <3>2 DEF PassedOver, Moved
  <2>3. QED
    BY <1>2, <2>1, <2>2
<1>6. ASSUME NEW s \in Request, s # r
      PROVE  PassedOver(req'[s])
  BY <1>2, <1>6 DEF TypeOK
<1>7. QED
  BY <1>1, <1>5, <1>6 DEF Healthy

LEMMA InitAvailable == Init => AInv
<1> SUFFICES ASSUME Init PROVE AInv
  OBVIOUS
<1>1. Healthy(cb)
  BY ReliableAssumption DEF Init, Healthy, NewCircuit
<1>2. \A r \in Request : PassedOver(req[r])
  BY DEF Init, PassedOver, NewRequest
<1>3. QED
  BY <1>1, <1>2, InitTypes DEF AInv

(* A request that moves to q without passing anything, while every circuit  *)
(* stays as it is or records a success.                                     *)
LEMMA StaysAvailable ==
    ASSUME AInv, NEW r \in Request, NEW q, PassedOver(q), req' = [req EXCEPT ![r] = q],
           \A m \in Model : cb'[m] \in {cb[m], Succeeded(cb[m])}
    PROVE  Healthy(cb') /\ \A s \in Request : PassedOver(req'[s])
<1>1. \A s \in Request : PassedOver(req'[s])
  BY DEF AInv, TypeOK
<1>2. \A m \in Reliable : cb'[m] \in {cb[m], Succeeded(cb[m])}
  BY ReliableAssumption
<1>3. \A m \in Reliable : Succeeded(cb[m]).state = "closed" /\ Succeeded(cb[m]).failures = 0
  BY DEF Succeeded
<1>4. Healthy(cb')
  BY <1>2, <1>3 DEF AInv, Healthy
<1>5. QED
  BY <1>1, <1>4

LEMMA NextAvailable == AInv /\ [Next]_vars => AInv'
<1> SUFFICES ASSUME AInv, [Next]_vars
             PROVE  Healthy(cb') /\ \A s \in Request : PassedOver(req'[s])
  BY NextTypes DEF AInv, Healthy
<1>0. TypeOK /\ Healthy(cb) /\ \A s \in Request : PassedOver(req[s])
  BY DEF AInv
<1>1. ASSUME NEW r \in Request, NEW n \in Model, Start(r, n)
      PROVE  Healthy(cb') /\ \A s \in Request : PassedOver(req'[s])
  <2>1. PICK mode \in Mode : Seek(r, NewRequest(n, mode), cb, 1)
    BY <1>1 DEF Start
  <2>2. \A j \in 1 .. 1 - 1 : FallbackChain(n)[j] \notin Reliable
    OBVIOUS
  <2>3. QED
    BY <1>0, <2>1, <2>2, FreshRequest, SeekStaysAvailable DEF TypeOK
<1>2. ASSUME NEW r \in Request, AttemptFails(r)
      PROVE  Healthy(cb') /\ \A s \in Request : PassedOver(req'[s])
  <2> DEFINE q == [req[r] EXCEPT !.pc = "sleeping"]
  <2>1. req' = [req EXCEPT ![r] = q] /\ cb' = cb
    BY <1>0, <1>2 DEF AttemptFails, TypeOK
  <2>2. PassedOver(req[r]) /\ req[r].pc = "calling"
    BY <1>0, <1>2 DEF AttemptFails
  <2>3. q.pc = "sleeping" /\ q.at = req[r].at /\ q.primary = req[r].primary
    BY <1>0, NextIndex DEF RequestState
  <2>4. PassedOver(q)
    BY <2>2, <2>3 DEF PassedOver
  <2> HIDE DEF q
  <2>5. QED
    BY <2>1, <2>4, StaysAvailable
<1>3. ASSUME NEW r \in Request, Retry(r)
      PROVE  Healthy(cb') /\ \A s \in Request : PassedOver(req'[s])
  <2> DEFINE q == [req[r] EXCEPT !.pc = "calling", !.attempt = NextAttempt(req[r])]
  <2>1. req' = [req EXCEPT ![r] = q] /\ cb' = cb
    BY <1>0, <1>3 DEF Retry, TypeOK
  <2>2. PassedOver(req[r]) /\ req[r].pc = "sleeping"
    BY <1>0, <1>3 DEF Retry
  <2>3. q.pc = "calling" /\ q.at = req[r].at /\ q.primary = req[r].primary
    BY <1>0, NextIndex DEF RequestState
  <2>4. PassedOver(q)
    BY <2>2, <2>3 DEF PassedOver
  <2> HIDE DEF q
  <2>5. QED
    BY <2>1, <2>4, StaysAvailable
<1>4. ASSUME NEW r \in Request, ProviderFails(r) \/ StreamRefused(r)
      PROVE  Healthy(cb') /\ \A s \in Request : PassedOver(req'[s])
  <2> DEFINE p == Provider(req[r])
             b == [cb EXCEPT ![p] = Failed(@)]
             i == req[r].at + 1
  <2>1. /\ req[r].pc = "calling" /\ p \notin Reliable
        /\ Seek(r, req[r], b, i)
    BY <1>4 DEF ProviderFails, StreamRefused, Blamed, After
  <2>2. b \in [Model -> Circuit] /\ Healthy(b)
    BY <1>0, <2>1, NextIndex, BreakerTypes, ReliableAssumption DEF TypeOK, Healthy
  <2>3. \A j \in 1 .. req[r].at - 1 : FallbackChain(req[r].primary)[j] \notin Reliable
    BY <1>0, <2>1 DEF PassedOver
  <2>4. req[r].at \in Nat /\ i \in 1 .. Hops(req[r].primary) + 1 /\ req[r] \in RequestState
    <3>1. Hops(req[r].primary) \in 2 .. 3
      BY <1>0, NextIndex, ChainShape
    <3>2. QED
      BY <1>0, <3>1, NextIndex
  <2>5. \A j \in 1 .. i - 1 : FallbackChain(req[r].primary)[j] \notin Reliable
    BY <2>1, <2>3, <2>4 DEF Provider
  <2> HIDE DEF b, i
  <2>6. QED
    BY <1>0, <2>1, <2>2, <2>4, <2>5, SeekStaysAvailable
<1>5. ASSUME NEW r \in Request, CallSucceeds(r) \/ EmptyStream(r)
      PROVE  Healthy(cb') /\ \A s \in Request : PassedOver(req'[s])
  <2>1. PICK output \in BOOLEAN : req' = [req EXCEPT ![r] = Moved(req[r], "served", 1, output)]
    BY <1>0, <1>5 DEF CallSucceeds, EmptyStream, End, TypeOK
  <2>2. PassedOver(Moved(req[r], "served", 1, output))
    BY DEF Moved, PassedOver
  <2>3. \A m \in Model : cb'[m] \in {cb[m], Succeeded(cb[m])}
    BY <1>0, <1>5 DEF CallSucceeds, EmptyStream, TypeOK
  <2>4. QED
    BY <2>1, <2>2, <2>3, StaysAvailable
<1>6. ASSUME NEW r \in Request, FirstDelta(r)
      PROVE  Healthy(cb') /\ \A s \in Request : PassedOver(req'[s])
  <2> DEFINE q == [req[r] EXCEPT !.pc = "streaming", !.output = TRUE]
  <2>1. req' = [req EXCEPT ![r] = q]
    BY <1>6 DEF FirstDelta
  <2>2. q.pc = "streaming"
    BY <1>0, NextIndex DEF RequestState
  <2>3. PassedOver(q)
    BY <2>2 DEF PassedOver
  <2>4. \A m \in Model : cb'[m] \in {cb[m], Succeeded(cb[m])}
    BY <1>0, <1>6 DEF FirstDelta, TypeOK
  <2> HIDE DEF q
  <2>5. QED
    BY <2>1, <2>3, <2>4, StaysAvailable
<1>7. ASSUME NEW r \in Request, StreamEnds(r) \/ StreamBreaks(r) \/ Disconnect(r)
      PROVE  Healthy(cb') /\ \A s \in Request : PassedOver(req'[s])
  <2>1. PICK pc \in {"served", "interrupted", "gone"}, output \in {TRUE, req[r].output} :
           req' = [req EXCEPT ![r] = Moved(req[r], pc, 1, output)]
    BY <1>0, <1>7 DEF StreamEnds, StreamBreaks, Disconnect, End, TypeOK
  <2>2. PassedOver(Moved(req[r], pc, 1, output))
    BY DEF Moved, PassedOver
  <2>3. cb' = cb
    BY <1>7 DEF StreamEnds, StreamBreaks, Disconnect
  <2>4. QED
    BY <2>1, <2>2, <2>3, StaysAvailable
<1>8. CASE Tick
  <2>1. \A m \in Reliable : cb'[m] = Aged(cb[m]) /\ cb[m] \in Circuit
    BY <1>0, <1>8, ReliableAssumption DEF Tick, TypeOK
  <2>2. \A m \in Reliable : Aged(cb[m]).state = "closed" /\ Aged(cb[m]).failures = 0
    BY <1>0, <2>1 DEF Aged, Healthy, Circuit
  <2>3. QED
    BY <1>0, <1>8, <2>1, <2>2 DEF Tick, Healthy
<1>9. CASE Restart
  <2>1. Init'
    BY <1>9 DEF Restart, Init
  <2>2. AInv'
    BY <2>1, InitAvailable, PTL
  <2>3. QED
    BY <2>2 DEF AInv, Healthy
<1>10. CASE UNCHANGED vars
  BY <1>0, <1>10 DEF vars, Healthy
<1>11. QED
  BY <1>1, <1>2, <1>3, <1>4, <1>5, <1>6, <1>7, <1>8, <1>9, <1>10 DEF Next

(* No request fails while its chain holds a provider that answers: nothing  *)
(* the other providers, the retries, the disconnects or the other requests  *)
(* do can make the breaker or the walk skip that provider.                  *)
THEOREM Availability == Spec => []FailsOnlyWithoutReliable
<1>1. AInv => FailsOnlyWithoutReliable
  BY DEF AInv, PassedOver, FailsOnlyWithoutReliable
<1>2. QED
  BY <1>1, InitAvailable, NextAvailable, PTL DEF Spec
==============================================================================
