------------------------------- MODULE Fallback -------------------------------
(***************************************************************************)
(* How requests use the providers: execute_with_fallback and               *)
(* stream_with_fallback (src/app/gateway/router.py) with the retries of    *)
(* with_retry (src/app/gateway/retry.py), many requests at a time over the *)
(* process's one circuit breaker.                                          *)
(*                                                                         *)
(* Both loops run on the event loop, so everything between two awaits is   *)
(* one step: in particular reporting the failure of one provider, asking   *)
(* the breaker about the next ones and starting the next call.  A request  *)
(* waits in four places: for provider.complete, in the back-off sleep, for *)
(* the first delta of a stream, and for the rest of the stream.            *)
(*                                                                         *)
(* A provider's answer is a choice of the environment, except for the      *)
(* providers in Reliable, which never fail.                                *)
(***************************************************************************)
EXTENDS Breaker, Routing

CONSTANTS Reliable,     \* the providers that answer every call
          Request,      \* the requests the gateway can hold at once
          MaxAttempts   \* settings.retry_max_attempts

ASSUME ReliableAssumption == Reliable \subseteq Model
ASSUME MaxAttemptsAssumption == MaxAttempts \in Nat \ {0}

VARIABLES cb,           \* the circuit of every provider
          req           \* where every request is

vars == <<cb, req>>

Mode == {"complete", "stream"}      \* execute_ or stream_with_fallback

(* A request that holds no provider: never used, or finished in one of four *)
(* ways ("interrupted" is a stream that broke after its first delta, "gone" *)
(* a client that disconnected).                                             *)
Resting == {"idle", "served", "failed", "interrupted", "gone"}
Active == {"calling", "sleeping", "streaming"}

------------------------------------------------------------------------------
(* Mutants: plausible slips in router.py and retry.py.                      *)

MayRetryOnceMore(q) == q.attempt <= MaxAttempts
SameAttempt(q) == q.attempt
BlamesPrimary(q) == q.primary
SkipsOne(q) == q.at + 2

------------------------------------------------------------------------------
RequestState == [pc      : Resting \cup Active,
                 mode    : Mode,
                 primary : Model,
                 at      : 1 .. 3,              \* index in the chain
                 attempt : 1 .. MaxAttempts,    \* of with_retry
                 output  : BOOLEAN]             \* did the provider produce any

TypeOK ==
    /\ cb \in [Model -> Circuit]
    /\ req \in [Request -> RequestState]
    /\ \A r \in Request :
          /\ req[r].at \in 1 .. Hops(req[r].primary)
          /\ req[r].pc = "sleeping" => req[r].attempt < MaxAttempts

NewRequest(m, mode) ==
    [pc |-> "idle", mode |-> mode, primary |-> m, at |-> 1, attempt |-> 1, output |-> FALSE]

Init ==
    /\ cb = [m \in Model |-> NewCircuit]
    /\ req = [r \in Request |-> NewRequest("mock-small", "complete")]

(* The provider request q is calling, and the one its outcome is about.     *)
Provider(q) == FallbackChain(q.primary)[q.at]
Blamed(q) == Provider(q)

(* Where the loop goes on after that provider has failed.                   *)
After(q) == q.at + 1

(* with_retry: is this failed attempt followed by a sleep and another one   *)
MayRetry(q) == q.attempt < MaxAttempts
NextAttempt(q) == q.attempt + 1

(* Request q at another place of its life, before any retry.                *)
Moved(q, pc, at, output) ==
    [pc |-> pc, mode |-> q.mode, primary |-> q.primary,
     at |-> at, attempt |-> 1, output |-> output]

(* The request ends: what it was doing no longer matters.                   *)
End(r, outcome, output) ==
    req' = [req EXCEPT ![r] = Moved(@, outcome, 1, output)]

(* The breaker b turns a walk that starts at i away from every provider     *)
(* before the k-th.                                                         *)
TurnedAway(b, chain, i, k) == \A j \in i .. k - 1 : ~CanExecute(b[chain[j]])

(* The loop over the chain from index i on: the breaker is asked about each *)
(* provider until one may be called; if none may, the request fails.  b is  *)
(* the breaker when the loop gets there.  No await: a single step.          *)
Seek(r, q, b, i) ==
    LET chain == FallbackChain(q.primary)
        last == Hops(q.primary)
    IN  /\ cb' = [m \in Model |->
                    IF \E k \in i .. last : chain[k] = m /\ TurnedAway(b, chain, i, k)
                    THEN Looked(b[m]) ELSE b[m]]
        /\ \/ \E k \in i .. last :
                 /\ TurnedAway(b, chain, i, k)
                 /\ CanExecute(b[chain[k]])
                 /\ req' = [req EXCEPT ![r] = Moved(q, "calling", k, q.output)]
           \/ /\ TurnedAway(b, chain, i, last + 1)
              /\ req' = [req EXCEPT ![r] = Moved(q, "failed", 1, q.output)]

------------------------------------------------------------------------------
(* A request arrives, routed to model m.                                    *)
Start(r, m) ==
    /\ req[r].pc \in Resting
    /\ \E mode \in Mode : Seek(r, NewRequest(m, mode), cb, 1)

(* provider.complete raises and with_retry has attempts left.               *)
AttemptFails(r) ==
    LET q == req[r] IN
    /\ q.pc = "calling" /\ q.mode = "complete"
    /\ Provider(q) \notin Reliable
    /\ MayRetry(q)
    /\ req' = [req EXCEPT ![r].pc = "sleeping"]
    /\ UNCHANGED cb

(* The back-off is over: the provider is called again, unasked.             *)
Retry(r) ==
    /\ req[r].pc = "sleeping"
    /\ req' = [req EXCEPT ![r] = [@ EXCEPT !.pc = "calling", !.attempt = NextAttempt(req[r])]]
    /\ UNCHANGED cb

(* The last attempt raises: one failure is reported, whatever the number of *)
(* attempts, and the loop moves on.                                         *)
ProviderFails(r) ==
    LET q == req[r] IN
    /\ q.pc = "calling" /\ q.mode = "complete"
    /\ Provider(q) \notin Reliable
    /\ ~MayRetry(q)
    /\ Seek(r, q, [cb EXCEPT ![Blamed(q)] = Failed(@)], After(q))

CallSucceeds(r) ==
    LET q == req[r] IN
    /\ q.pc = "calling" /\ q.mode = "complete"
    /\ cb' = [cb EXCEPT ![Provider(q)] = Succeeded(@)]
    /\ End(r, "served", TRUE)

(* The stream raises before its first delta: no retry, straight to the next *)
(* provider.                                                                *)
StreamRefused(r) ==
    LET q == req[r] IN
    /\ q.pc = "calling" /\ q.mode = "stream"
    /\ Provider(q) \notin Reliable
    /\ Seek(r, q, [cb EXCEPT ![Blamed(q)] = Failed(@)], After(q))

FirstDelta(r) ==
    LET q == req[r] IN
    /\ q.pc = "calling" /\ q.mode = "stream"
    /\ cb' = [cb EXCEPT ![Provider(q)] = Succeeded(@)]
    /\ req' = [req EXCEPT ![r] = [q EXCEPT !.pc = "streaming", !.output = TRUE]]

(* The stream ends without a single delta (StopAsyncIteration at once): it  *)
(* is reported as a success and the client gets an empty answer.            *)
EmptyStream(r) ==
    LET q == req[r] IN
    /\ q.pc = "calling" /\ q.mode = "stream"
    /\ Provider(q) \notin Reliable
    /\ cb' = [cb EXCEPT ![Provider(q)] = Succeeded(@)]
    /\ End(r, "served", FALSE)

StreamEnds(r) ==
    /\ req[r].pc = "streaming"
    /\ End(r, "served", TRUE)
    /\ UNCHANGED cb

(* A stream that breaks after its first delta propagates to the caller: no  *)
(* other provider is tried and the breaker is not told.                     *)
StreamBreaks(r) ==
    /\ req[r].pc = "streaming"
    /\ Provider(req[r]) \notin Reliable
    /\ End(r, "interrupted", TRUE)
    /\ UNCHANGED cb

(* The client of a stream disconnects: the generator is cancelled where it  *)
(* waits, and CancelledError passes every "except Exception".               *)
Disconnect(r) ==
    /\ req[r].mode = "stream" /\ req[r].pc \in {"calling", "streaming"}
    /\ End(r, "gone", req[r].output)
    /\ UNCHANGED cb

Tick == cb' = [m \in Model |-> Aged(cb[m])] /\ UNCHANGED req

Restart ==
    /\ cb' = [m \in Model |-> NewCircuit]
    /\ req' = [r \in Request |-> NewRequest("mock-small", "complete")]

(* A provider call, a sleep or a stream comes to its end.                   *)
Advance(r) ==
    \/ AttemptFails(r) \/ Retry(r) \/ ProviderFails(r) \/ CallSucceeds(r)
    \/ StreamRefused(r) \/ FirstDelta(r) \/ EmptyStream(r)
    \/ StreamEnds(r) \/ StreamBreaks(r)

Next ==
    \/ \E r \in Request :
          \/ \E m \in Model : Start(r, m)
          \/ AttemptFails(r)
          \/ Retry(r)
          \/ ProviderFails(r)
          \/ CallSucceeds(r)
          \/ StreamRefused(r)
          \/ FirstDelta(r)
          \/ EmptyStream(r)
          \/ StreamEnds(r)
          \/ StreamBreaks(r)
          \/ Disconnect(r)
    \/ Tick
    \/ Restart

Spec == Init /\ [][Next]_vars

------------------------------------------------------------------------------
(* The breaker's contract.  Seen from one provider, every step of the two   *)
(* loops is a step of CircuitBreaker.tla or changes nothing: a call is made *)
(* only after the breaker admitted it, each admission is reported at most   *)
(* once, to the provider that was called, and retries report nothing.       *)
HasCall(q, m) == q.pc \in {"calling", "sleeping"} /\ Provider(q) = m

InFlight(m) == {r \in Request : HasCall(req[r], m)}

CB(m) == INSTANCE CircuitBreaker WITH
             Caller <- Request, circuit <- cb[m], calls <- InFlight(m)

(* This is \A m \in Model : CB(m)!Spec with the quantifier moved inside.    *)
BreakerContract ==
    /\ \A m \in Model : CB(m)!Init
    /\ [][\A m \in Model : [CB(m)!Next]_(CB(m)!vars)]_vars

(* What keeps a request alive: a request fails only when every provider of  *)
(* its chain is unreliable.  However many failures other providers, retries *)
(* and other requests cause, they never open the circuit of a provider that *)
(* answers, and the loop never stops before it has come to that provider.   *)
FailsOnlyWithoutReliable ==
    \A r \in Request : req[r].pc = "failed" =>
        \A i \in 1 .. Hops(req[r].primary) :
            FallbackChain(req[r].primary)[i] \notin Reliable

(***************************************************************************)
(* Time passes; every provider call, back-off and stream ends (the clients *)
(* have HTTP timeouts, the sleeps are finite).  Traffic, which recovery    *)
(* needs: requests for every provider keep coming, for there is no         *)
(* background probe in the code.                                           *)
(***************************************************************************)
Fairness ==
    /\ WF_vars(Tick)
    /\ \A r \in Request : WF_vars(Advance(r))

Traffic == \A m \in Model : SF_vars(\E r \in Request : Start(r, m))

LiveSpec == Spec /\ Fairness

(* Every request comes to an end: the retries of one provider and the walk  *)
(* along the chain are both bounded, whatever the breaker and the other     *)
(* requests do.                                                             *)
RequestsEnd == \A r \in Request : req[r].pc \in Active ~> req[r].pc \in Resting

(* A step that gives provider m anything but a success: a failure report,   *)
(* or a client that leaves a stream before its first delta.                 *)
LetsDown(m) ==
    \E r \in Request :
        /\ r \in InFlight(m)
        /\ ProviderFails(r) \/ StreamRefused(r) \/ Disconnect(r)

(* A provider that stops failing is taken back: with requests for it, and   *)
(* without a failure from some point on, its circuit is closed again and    *)
(* again, so no abandoned probe or late report shuts it out for good.       *)
ProvidersRecover ==
    Traffic => \A m \in Model :
        \/ []<>(cb[m].state = "closed")
        \/ []<><<LetsDown(m)>>_vars
==============================================================================
