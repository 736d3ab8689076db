# RouteWise in TLA+

RouteWise is a gateway in front of language-model providers: one HTTP endpoint,
`/v1/chat/completions`, behind which it looks prompts up in two caches, picks a
provider by prompt and budget, falls back to others when one fails, and keeps
books on what was spent. It is one Python process: `async` handlers on one event
loop, with the database queries in a threadpool, and shared objects in memory
(circuit breaker, caches, rate limiter, metrics) beside one SQLite table.

This directory models it: the circuit breaker, the two fallback loops that use
it, the providers they call, the route decision, the budgets, the whole path of a
request over caches, log and metrics, what requests wait for in the storage layer,
the rate limiter, and the evaluation client above it all. TLC checks the modules
on small instances, TLAPS proves every safety property the runs check, both
refinements included, for every value of the constants, and five runs show where
the code does not do what is said of it.

## Inventory

| component | state | operations | talks to | what makes it correct |
|---|---|---|---|---|
| circuit breaker (`app/gateway/circuit_breaker.py`) | per provider: state, failure count, time of opening; a gauge | `can_execute`, `record_success`, `record_failure`, exports | called by every request | counter, state and gauge agree; an open circuit shields; it is probed again |
| fallback loops (`app/gateway/router.py`, `retry.py`) | none of their own; one coroutine per request | `execute_with_fallback`, `stream_with_fallback`, `with_retry` | breaker, providers | every call admitted and reported once; the walk ends; a request fails only if its whole chain does |
| route decision (`router.py`) | none | `decide_route`, `check_budget`, `estimate_complexity` | request log | the policy of the README: no prompt is routed lower for being harder |
| request log and budgets (`app/storage/db.py`) | table `request_logs` | `log_request`, spend queries, reports | threadpool | spend over budget is bounded |
| request path (`app/main.py`) | local variables of each handler | `chat_completions`, `_streaming_response` | everything | no partial answer passes for a whole one; log, metrics and answers agree |
| caches (`app/cache/`) | exact: dict with expiry; semantic: list of entries | `lookup`, `store` | request path | an answer is served only for a prompt like its own |
| metrics (`app/telemetry/metrics.py`) | Prometheus counters and gauges | `record_request`, `set_*` | request path, breaker | counts what is logged, shows what is so |
| rate limiter (`rate_limiter.py`) | a deque of times per key, or a Redis set | `check` | request path | at most the limit in any window |
| PII redaction (`pii_redactor.py`) | none | `redact_messages`, `detect_pii` | request path, semantic cache | nothing with PII is shared |
| providers and registry (`app/providers/`) | the registry, fixed after start-up; one HTTP call each | `complete`, `stream`, `fallback_chain` | external services | what the server said arrives complete, or the call raises; every call ends |
| connections, threads, event loop (`app/storage/db.py`, `main.py`) | connections, threadpool slots, SQLite's write lock | `get_db`, `log_request`, `run_in_threadpool`, the admin reports | all handlers | nobody waits for ever |
| evaluation (`app/evaluation/`) | one run: the call it is at, its rows | `run_evaluation`, `_call_gateway` | the HTTP API, through limiter and cache | it ends, does not stand in its own way, and measures what it says |
| dashboard, scripts | none shared | read-only views, drivers | the HTTP API | |

What is hard to test here is the concurrency of requests over shared objects.
Handlers interleave at every `await`: a cache result or a spend that was read
before one is used after it, a success can arrive at a breaker that opened
meanwhile, a retry can wake up into an open circuit. Streams can break off, or
their clients can leave, at any `yield`. The process can restart at any time,
which loses everything but the SQLite table. `PROJECT.json` lists each hazard
with its line and the properties that cover it.

## The modules

    Breaker ---> CircuitBreaker <=== (implements, per provider) === Fallback
        \------------------------------------------------------------^  |
    Routing ------------------------------------------------------------/
        \------> Gateway === (implements) ===> Ledger
    Complexity -----^

    RateLimiter ---> Evaluator          Providers          Storage

**Breaker** gives the circuit of one provider as a value, and each method of
`CircuitBreaker` as a function from circuit to circuit. The methods hold one lock
for their whole body, so this is all there is to say about one call. Time enters
only through `time.time() - opened_at >= cooldown`; the circuit therefore holds
the *age* of its opening, saturated at the cooldown, and the failure counter is
saturated at the threshold: no comparison in the code can see beyond either.

**CircuitBreaker** is the abstract specification: any number of callers ask,
call, and report success or failure, or never report. `Fallback` implements it.

**Routing** holds `decide_route`, `select_premium` and `fallback_chain` as pure
operators. **Complexity** is `estimate_complexity` and the bands of `decide_route`.
A score is counted in ten-thousandths, in which all of the code's weights and
bounds are whole; the floating-point sums that meet a bound (0.3 + 0.1 and
0.6 + 0.1) fall on the same side of it as the whole numbers do.

**Providers** is one call of `complete` or `stream`. On the server's side there
is what may arrive: whole answers, the lines of a native stream in any order, its
end, or nothing for longer than the client waits. The client's side is the loop
over the lines (OpenAI, Ollama) or the pieces of `BaseProvider.stream`. What the
server said, and whether it reported an error, is kept to judge the answer by.

**Fallback** models the two loops and the retries, for many requests. Its actions
are the pieces of code between two awaits; in particular `Seek` is the whole loop
from one provider's failure to the next call, with every question to the breaker
on the way. A request waits for `complete`, in the back-off sleep, for a first
delta, or for the rest of a stream; disconnecting cancels streams only, since
Starlette runs a regular handler to its end. `CB(m)!...` maps a provider's
circuit and the requests that hold a call to it onto CircuitBreaker.

**Ledger** is the abstract specification of the budgets: per request the two
spend queries, the decision, and the row that is committed much later or never.
Spend is three sums: the last day's rows of requests that were let through
(`full`), of downgraded ones (`cheap`), and the rows between one and thirty days
old (`older`).

**Gateway** models the request path: `Arrive` (redaction and both cache lookups,
before the first await), `ReadDaily` and `Decide` (the threadpool job of
`decide_route`), then for a regular request `Answered`/`CallFails`, for a stream
`Opened`/`OpenFails`, `Content`, `StreamBreaks` or `StreamEnds`, `Done`, and for
both `Commit` (the row), `Record` (the counters), for a regular one `ReadSpend`
and `Reply` (the gauge and the answer). `BreaksWithoutMessage` is a stream whose
provider raises an exception with an empty message: after the error event the
code takes the other branch. `Disconnect`, `DatabaseFails`, `Expire`,
`AgeDay`, `AgeMonth` and `Restart` come from outside. A database that fails after the
commit, in `refresh`, leaves a row behind that is never counted, of a request that
ended with an error. (A stream that broke off is charged too: it is logged like any
other.)
The fallback walk is one
step here: some provider of the chain answers, or none. An answer remembers the
prompt it was generated for, the provider it came from, the one tried first, and
whether it is whole: whether the provider's stream ended without an exception. (A
stream that is cut short without one looks whole to the gateway, and counts as
whole here; Providers tells the two apart.) A prompt stands for all that are equal
once normalised. An expired exact entry and an absent one cannot be told
apart, so `Expire` removes the entry that the next `get` would delete. Costs are
whole numbers; a whole answer costs its model's price, at most `MaxPrice`, a cut one
anything up to it. A spend query is the difference of two running totals of the log
(`Totals`, `Between`): rows are committed and grow old in the same order, so the last
day's rows are those from one on.

**RateLimiter** models `check` over both places it keeps its times: the deque in
memory and the sorted set in Redis, chosen by a ping at start-up (`redis`). Times
are ages in ticks, saturated where the comparisons cannot see further. Of the sorted
set, which can have any number of members, there are the `Limit + 1` latest: whether
the last of these is still in the window is all that the comparison of the count with
the limit asks. `granted`
is a history variable: the ages of the last checks that were let through, one more
than the limit, the latest first. The
two differ as the code does: at the boundary of the window, and in that Redis
counts refused checks. Gateway takes only the limiter's two outcomes.

**Storage** models what requests wait for. A chat request goes through the jobs
`decide_route`, `log_request` (`Insert`, `Commit`, `Refresh`) and `get_daily_spend`,
each queued for a thread, and returns to the event loop between them; an admin
request runs its queries on the event loop itself, which nobody else gets until
they are done. A session takes a connection with its first query and keeps it to
the next commit or close, so it is held while a provider works. `pool` is the kind
of pool: none (`NullPool`, for a database in an SQLite file, where transactions
take turns on the write lock) or bounded (SQLAlchemy's default, for any other
`database_url`). Waiting for a connection ends after 30 s, for the lock after 15 s;
besides, any query may fail at any time (`DatabaseFails`), and a timeout is such a
failure of a query that waits. What a request has read, logged or answered is left to
Gateway; here it is what it holds.

**Evaluator** extends RateLimiter with the client of `run_evaluation`: for every
prompt four calls, each retried on 429 and followed by a pause. `alone` says
whether it has the demo key to itself. Of the gateway there is the limiter and what
its caches hold per prompt; of the rows of the report, the last one. The number of
prompts is any from none to all, since `limit` is any integer.

Each module starts its helpers with a few *mutants*: alternative bodies of one
helper each, the way a slip in the code would have it. They are not used by the
specification; they show that each property can fail.

## Runs

| run | bounds | shows |
|---|---|---|
| MCCircuitBreaker | 4 callers, threshold 3, cooldown 3 | `ClosedIffBelowThreshold`, `GaugeTellsState`, `OpenHolds`, `OpenIsEventuallyProbed` |
| MCFallback | 2 requests; the two mocks, of which mock-small never fails, and one more provider | `BreakerContract`, `FailsOnlyWithoutReliable`, `RequestsEnd`, `ProvidersRecover` |
| MCProviders | streams of up to 4 lines, answers of up to 7 characters in pieces of 3 | `NothingLost`, `CallsEnd` |
| MCLedger | 3 requests, costs up to 2, both modes | `DailyOvershootBounded`, `RejectBounds` |
| MCGateway | 2 requests, regular and streamed, 2 prompts, 2 models, budgets that one answer exhausts, both modes | `PartsAreNotAnswers`, `BooksAgree`, `HitsDoNotDrift`, `GaugeShowsAPast`, `RoutingPolicy`, `LedgerContract` |
| MCStorage | 3 requests of any kind, 2 threads, 1 pooled connection, both pools | `NobodyBlocksEverybody`, `RequestsEnd` |
| MCEvaluator | 1 key, 1 prompt, a limit of 2 in a window of 3 ticks, pauses of 2 ticks, 2 attempts, both backends of the limiter | `AtMostLimit`, `RefusedOnlyWhenFull`, `AskersGetThrough`, `AloneIsAdmitted`, `RunEnds` |

Each but MCProviders, whose module's type invariant is left to the proof, also checks
its module's type invariant, and with it what ties its parts together. Five more runs (next section) each
look for one counterexample.

The bounds are the least at which the cases in question happen. Two requests
suffice to interfere through the breaker, the log, the gauge or the caches; a third
is needed for several to pass the same budget check, and in Storage, where one must
hold the connection while two others have the threads. `HitsDoNotDrift` says of the
cache entries themselves whose answers they are, and is violated by the first hit
that is stored again, so two prompts do. A threshold and a cooldown of 3 separate
"first", "last" and "between", and with four callers a circuit can open while one
call is still in flight; where the breaker is only a part (MCFallback) smaller
values do. Four lines let content, something passed over, content again and an end
follow each other; an answer of 7 in pieces of 3 has a short last piece, one of 6
none, an empty one no piece at all. A limit of 2 in a window of 3 lets one
deque or sorted set hold an entry at the boundary, or just over it, next to fresh ones;
clients ask as often as they like in one tick, so both backends are filled, refuse,
and are at the limit exactly. The run keeps the proportions of the code: the
evaluation's calls, a pause apart, just fit into the window (58 of 60 in the code, 2 of
2 here), in memory and in Redis, the sleeps between all attempts are shorter than it
(56 s of 60 s, 2 ticks of 3), and none of them is shorter than the pause between calls
(2 s and 1.05 s). The limit is a free setting, so these proportions are not assumed of
the model but are the premise of the one property that needs them (`PaceFitsLimit` in
`AloneIsAdmitted`). The four calls of one prompt are enough to fill the window twice.
The keys of the limiter have nothing in common but the choice of the backend, so
one key does. `SpendCap` (MCLedger) bounds the spend of downgraded requests, which
has no bound of its own; `MaxTokens` (MCGateway) is 600, beyond the 500 at which the length score is cut off;
one of the two prompts is so long a question that its score is just the bound of the
premium provider, and complex prompts are left to the theorem `BandsAreSound`. Requests
are symmetric in the runs of Ledger and Gateway; no run with liveness uses
symmetry. Every request of Gateway and Storage happens once, and so does the call
of Providers and the run of Evaluator, so these are finite without further bounds. Providers
and Storage come to rest when all calls and requests are over, and only they are
run without the deadlock check.

**Fairness.** The `LiveSpec` of CircuitBreaker, Fallback and Evaluator assumes that
time passes; those of CircuitBreaker and Fallback also that every provider call,
sleep and stream ends: the back-off is a finite sleep, and of the calls
`CallsEnd` shows it from the client's own steps and timeouts, as long as the server
sends finitely many lines. (The timeouts are per read: a server that keeps sending
lines without content is never given up.) CircuitBreaker's also assumes that callers
keep asking, which is up to the clients. `ProvidersRecover` states its own further
assumption (`Traffic`): requests for the provider keep coming, since only
`can_execute` moves an open circuit to half-open; there is no background probe.
Storage assumes that jobs get a thread in the order they come and the event loop
serves everybody, as anyio and asyncio do, and that the waits for a connection and
for the lock time out, as `db.py` and SQLAlchemy's defaults have it: under a bounded
pool these timeouts are all that resolves a deadlock, and without them
`RequestsEnd` is violated. Evaluator assumes that its calls end (`timeout=60.0`), and,
strongly, that among the others' calls one of its own is taken up. Gateway states no
liveness: a request's steps only ever go forward.

## Where documents and code disagree

Each of these has a run that TLC finds violated; `PROJECT.json` quotes the lines.

| run | property | the code |
|---|---|---|
| MCGatewayPII | `PIIIsNotShared` | redaction comes first, so the semantic cache's PII guard does not see the PII |
| MCGatewayCompleted | `CompletedStreamsAreLogged` | a client that leaves after `[DONE]` cancels the row |
| MCGatewayCuts | `CutsAreNotAnswers` | a stream that breaks off with an exception whose message is empty, as the read timeouts of httpx are, is closed as if it were complete, and cached |
| MCProvidersErrors | `ErrorsAreRaised` | an error the server reports inside a stream is passed over; the cut answer is taken, and cached, for a whole one |
| MCEvaluatorAutoRoute | `AutoRouteIsRouted` | the evaluation's auto_route rows are semantic hits on the answers of direct_expensive |

Others are in the models as the code has them, but follow from a line or two of
code and need no run:

- a half-open circuit admits everybody, not a probe (`ARCHITECTURE.md:105`: "Allow
  probe request");
- a stream without any delta counts as healthy (`router.py:154`: "only counts as
  healthy once it produces its first delta");
- the budget gauge can be written in the wrong order, and streams never write it
  (`metrics.py:48`: "Remaining daily budget in USD"); `GaugeShowsAPast` is what is
  left of the claim;
- the admin reports query on the event loop (`README.md:206`: "all DB work runs in
  the threadpool"); with a database other than SQLite, whose connections are
  pooled, that can keep every request waiting for up to 30 s;
- a late success closes an open circuit in mid-cooldown, and a retry calls a
  provider whose circuit opened while it slept (`ARCHITECTURE.md:104`: "Reject
  calls after N failures; cooldown period");
- the chain of mock-small ends at mock-large, not at mock-small
  (`ARCHITECTURE.md:67`), so a request downgraded over budget can be answered, and
  charged, by mock-large (`README.md:151`);
- semantic hits cross models, explicit ones included (`README.md:140`);
- the rate limiter in Redis counts refused checks, so a client that keeps asking too
  often is never let through again; in memory they are not counted
  (`ARCHITECTURE.md:61`: "per-key sliding window (in-memory or Redis)");
- `route_reason` of a miss is the id of the model tried first, not the reason of
  the decision (`README.md:153`);
- the p95 latency of two rows is the lesser one, below the median; of one row it is
  that row only because index -1 is the last element; a negative `limit` can leave
  no prompt, and then the median raises (`schemas.py:95` takes any integer).

## Proofs

| module | theorems |
|---|---|
| CircuitBreakerProofs | `TypeCorrect`, `CounterAgreesWithState`, `GaugeIsTruthful`, `OpenShields` |
| FallbackProofs | `TypeCorrect`, `ImplementsBreaker`, `Availability` |
| LedgerProofs | `TypeCorrect`, `OvershootIsThatOfTheWorking`, `DailyBudgetBounds`, `RejectModeBounds` |
| GatewayProofs | `InvariantHolds`, `TypeCorrect`, `PartsNeverPass`, `BooksDoAgree`, `HitsStayAlike`, `GaugeTellsAPast`, `BandsAreSound`, `PolicyHolds`, `PathKeepsTheLedger`, `PathStaysInBudget` |
| ProvidersProofs | `TypeCorrect`, `NothingIsLost` |
| StorageProofs | `ResourcesAreBounded`, `NullPoolNeverBlocks` |
| RateLimiterProofs | `TypeCorrect`, `NobodyExceedsTheLimit`, `RefusalsAreDue` |
| EvaluatorProofs | `LimiterIsUsedByChecks`, `EvaluationTypeCorrect`, `AloneIsNeverRefused` |

They hold for every threshold, cooldown, registry, set of requests, budget, price,
limit, window and pace, and prompts of any length; the assumptions are the named
`ASSUME`s of the modules: positive threshold, attempts and budgets, both mocks
registered. `DailyBudgetBounds` and `RejectModeBounds`, which count all requests, have
their finiteness as a premise; everything else holds for any number of them.

*CircuitBreaker.* Counter/state agreement is inductive with the type invariant,
and the gauge's truth is as well. `OpenShields` is an action property and follows
from the type invariant, action by action.

*Fallback.* `ImplementsBreaker` maps every step to a step of CircuitBreaker for
every provider at once. The walk of `Seek` can ask several providers and, after a
failure, reports to one more, all in one step; the lemmas on chains (no provider
occurs twice) are why each single provider still sees at most one call.
`Availability` needs more than the property itself: a reliable provider's circuit
stays closed with no failure against it, and a request under way has not yet
passed a reliable provider of its chain. Together they are inductive, and a
failed request has passed its whole chain.

*Ledger.* For as long as at most `K` requests are at work at any moment (`AtMost`),
`full` stays below `DailyBudget + K * MaxCost`, however many requests come one after
the other (`OvershootIsThatOfTheWorking`). The bound is not inductive: nothing in it
remembers how many requests are under way. The strengthening adds what they may still
spend: `full + MaxCost * |Pending| < DailyBudget + K * MaxCost`, where Pending are the
requests that have seen the spend below budget. A request joins Pending only when
`full` is below the budget, and a row moves its cost from one side to the other. For
the month the same argument runs over the admitted ones, and needs that nobody is
downgraded, which is what "reject" means. The bounds the runs check are those for
`K` = the number of all requests, which is never exceeded.

*Gateway.* `IInv` is what can be said of each request by itself, of the caches, of the
rows of the log, of the books and of the gauge. Of a request (`ReqOK`): a broken-off
text is only ever on its way from the error event to the log, so the code that
closes or stores a stream never has it; a hit is alike to the prompt it serves, a
miss under way carries the answer to its own prompt. That is what makes
`HitsDoNotDrift` and `PartsAreNotAnswers` inductive: the copies that requests carry
across awaits, not the caches alone, have to be right. The books need where a
request is when it has a row and when it has none (`Booked`, `Unlogged`), since a
second row could only come from a request that is taken for unlogged. The gauge needs
that the spend a request has read, and not yet shown, is a total that includes its
own row (`ReadAPast`); rows are only ever appended, so totals of the past stay what
they are. Each handler step has one lemma, which says what it does to its request
(`PlainStep` sums them up), and each part of `IInv` one lemma over all steps.

`PathKeepsTheLedger` maps each step to a step of Ledger. Its three sums
are differences of running totals over the whole log, of which a step could change every
term: a row counts as downgraded if its request was. That a request keeps its
route once it is in the log (`Plain`) is why only `Commit` and the ageing steps
change them, each by one row (`OneMore`, `OneLess`); that the two kinds of rows add
up to all rows (`TotalsSplit`) is why the comparisons of `check_budget` are those of
Ledger. What LedgerProofs proves then holds of the whole path (`PathStaysInBudget`).
Gateway's Request are all requests there ever are, each of which happens once; the
theorem bounds the overshoot by the `K` that are between their reading of the spend and
their commit at one moment, not by their number.
The totals are a recursive function; what the proofs need of them is drawn from a
least counterexample (`LeastNumber`) in place of induction. The same lemma serves
RateLimiterProofs.

*Complexity.* The bands are monotone because every part of the score is; the bounds
on tokens and code follow by linear arithmetic, with and without the cut-off of the
length score. `PolicyHolds` carries this over to any two requests that are under
way, through the reason each keeps of its own prompt.

*Providers.* What was said is either out or still unread: the number of lines with
content that have arrived and not been read makes up the difference (`Accounts`),
and a closing mark is the last line there is (`DoneIsLast`), so whoever ends at it
has read all of them.

*RateLimiter.* In memory the deque *is* the history, read backwards, but for a stale
part of the history that it has dropped (`DequeIsHistory`); it never outgrows the
limit, so the check before the last `Limit` ones is stale. In Redis every check that
was let through and still counts is a member of its own (`Recorded`), so a history
with one too many in the window would not fit into a set that is not over the limit;
that refused checks are members too does no harm to this bound.

*Evaluator.* An evaluation takes steps of the limiter only through `check`
(`LimiterIsUsedByChecks`), so the limiter's invariant holds here. That it is never
refused when alone is a matter of spacing: its checks are a pause apart, in the
deque and in the sorted set, and what is left of the current pause makes up for the
age of the last one (`PacedOK`); divided by the pause, the ages in a window are
different numbers of at most `Window \div Pace`, of which there are no more than the
limit. This is where `PaceFitsLimit` is needed: the back-off must not be shorter than the pause.

*Storage.* `ResourcesAreBounded` ties the places of requests to what they hold: the
running are the threads, whoever writes has a connection, whoever queries is the event
loop's (`Resources`); the bounds then follow by counting one more and one less. Every
step moves one request, and each part has one lemma on the moves that keep it. With
that invariant `NullPoolNeverBlocks` follows: without a pool only an INSERT waits, for
the holder of the write lock, who has a thread and whose COMMIT waits for nobody.

Only model-checked: the liveness properties (`OpenIsEventuallyProbed`, `RequestsEnd`,
`ProvidersRecover`, `CallsEnd`, `AskersGetThrough`, `RunEnds`), which rest on fairness
and so on ENABLED, out of the prover's reach. The five claims of the documents that the code
does not keep have counterexamples. The composition of the two refinements is not
stated: the fallback walk is one step in Gateway.

## Not modelled

- Redis behind the exact cache (off by default).
- The regular expressions of the redaction, the embeddings, the tokenizer: constants
  of Gateway say what they make of each prompt. Prices are a constant per model.
- Provider start-up and health checks: they run before requests are served, and the
  registry does not change afterwards (a provider that was down then is never
  registered, one that goes down later stays and fails).
- In-memory databases, whose sessions share one connection and its transaction
  (`StaticPool`): a session that closes would roll back what another has inserted and
  not yet committed. Only the tests use one, one request at a time.
- What the admin reports return: they only read. Storage has what they wait for.
- The figures of the evaluation's report, its keyword rubric and the Markdown; that the prompts of
  the suite can be similar to each other.
- Authentication (one comparison), logging, configuration, schemas, dashboard, scripts.

## Plan

All components with shared state or concurrency are modelled. What is left, in this
order:

1. **Serving**: Gateway with Fallback in place of its one-step walk, shown to
   implement Gateway, so that breaker and budgets act on each other.
2. Proofs about steps rather than states: that a row of the log never changes and a
   request never goes back, that an exact entry is only replaced by an answer to the
   same prompt; and what of liveness is a matter of a variant that every step lowers.
