------------------------------- MODULE Gateway -------------------------------
(***************************************************************************)
(* The request path: chat_completions and _streaming_response              *)
(* (src/app/main.py) with the two caches (src/app/cache), the route        *)
(* decision, the request log (src/app/storage/db.py) and the Prometheus    *)
(* metrics, for many requests at a time.                                   *)
(*                                                                         *)
(* The handlers run on the event loop; everything between two awaits is    *)
(* one step.  They wait for the route decision and for the log, whose      *)
(* queries run in the threadpool, for the providers, and wherever a stream *)
(* yields.  What a request read before it waited - the cache above all -   *)
(* it uses afterwards as it was.                                           *)
(*                                                                         *)
(* The walk along the fallback chain is Fallback.tla; here some provider   *)
(* of the chain answers, or none does.  The rate limiter admits or not.    *)
(* Every request happens once.                                             *)
(***************************************************************************)
EXTENDS Complexity, Routing, Integers, FiniteSets, FiniteSetsExt, Functions

CONSTANTS Request,          \* the requests there will be
          Prompt,           \* the prompts, raw and redacted
          Asked,            \* what clients put in "model"
          Streaming,        \* what clients put in "stream": a set of BOOLEANs
          Redacted,         \* [Prompt -> Prompt]: redact_messages
          PII,              \* the prompts in which detect_pii finds something
          Looks,            \* [Prompt -> Features]: what estimate_complexity sees of them
          Similarity,       \* [Prompt \X Prompt -> Nat]: compute_similarity
          Enough,           \* settings.semantic_similarity_threshold
          Price,            \* [Model -> 0 .. MaxPrice]: the cost of a whole answer
          MaxPrice,
          DailyBudget, MonthlyBudget, Modes         \* as in Ledger.tla

ASSUME PromptAssumption ==
    /\ Prompt # {}
    /\ Redacted \in [Prompt -> Prompt]
    /\ PII \subseteq Prompt
    /\ Looks \in [Prompt -> Features]
    /\ Similarity \in [Prompt \X Prompt -> Nat] /\ Enough \in Nat
ASSUME PriceAssumption == MaxPrice \in Nat /\ Price \in [Model -> 0 .. MaxPrice]
ASSUME DailyBudgetAssumption == DailyBudget \in Nat
ASSUME StreamingAssumption == Streaming \subseteq BOOLEAN

VARIABLES onExceeded,   \* settings.budget_exceeded_action, as in Ledger.tla
          req,          \* where every request is
          exact,        \* ExactCache: from keys to the answers that are fresh
          semantic,     \* SemanticCache: its entries in the order of arrival
          log,          \* the rows of request_logs in that order
          day, month,   \* how many of them are older than a day, than 30 days
          counted,      \* the requests in routewise_requests_total
          gauge         \* routewise_budget_remaining_usd

vars == <<onExceeded, req, exact, semantic, log, day, month, counted, gauge>>

------------------------------------------------------------------------------
(* An answer as it is cached: the (redacted) prompt it was generated for,   *)
(* the provider it came from, the one that was tried first, and how much of *)
(* it there is.  "part" and "cut" broke off: with an exception that has a   *)
(* message, and with one that has none, like the timeouts of httpx.         *)
Text == {"whole", "part", "cut", "empty"}
Answer == [prompt : Prompt, by : Model, primary : Model, text : Text]

AnyPrompt == CHOOSE p \in Prompt : TRUE
NoAnswer == [prompt |-> AnyPrompt, by |-> "mock-small", primary |-> "mock-small", text |-> "empty"]

Key == Prompt \X Asked      \* prompt_hash(redacted_messages, request.model)

(* Where a request can be.  "failed" ended in an HTTP error, a stream's     *)
(* error event or an exception after the stream; "gone" is a stream whose   *)
(* client disconnected, "lost" a request the process died under.            *)
Over == {"ended", "failed", "gone", "lost"}
AtWork == {"reading day", "reading month", "calling", "opening", "streaming",
           "closing", "logging", "logged", "reading spend", "spend read"}

(* What the client was told last.                                           *)
Told == {"nothing", "role", "content", "error", "final", "done", "answer"}

RequestState ==
    [pc     : {"idle"} \cup AtWork \cup Over,
     prompt : Prompt, asked : Asked, stream : BOOLEAN,
     hit    : {"miss", "exact_hit", "semantic_hit"},    \* cache_status
     answer : Answer,                                   \* cached or generated
     under  : BOOLEAN,              \* daily < budget, until the decision
     route  : [model : Model, reason : STRING],
     told   : Told,
     spend  : Nat]                  \* daily_spend, until it is in the gauge

TypeOK ==
    /\ onExceeded \in Modes
    /\ DOMAIN req = Request
    /\ \A r \in Request :
          /\ req[r].pc \in {"idle"} \cup AtWork \cup Over
          /\ req[r].answer \in Answer /\ req[r].route.model \in Model
          /\ req[r].told \in Told
          /\ req[r].pc \in {"calling", "opening"} => req[r].hit = "miss"
          /\ req[r].pc = "closing" <=> req[r].told = "final" /\ req[r].pc \in AtWork
    /\ DOMAIN exact \subseteq Key /\ Range(exact) \subseteq Answer
    /\ \A i \in DOMAIN semantic : semantic[i].answer \in Answer
    /\ \A i \in DOMAIN log : log[i].req \in Request /\ log[i].cost \in Nat
    /\ 0 <= month /\ month <= day /\ day <= Len(log)
    /\ counted \subseteq Request /\ gauge \in Nat

NewRequest(p, m, s) ==
    [pc |-> "idle", prompt |-> p, asked |-> m, stream |-> s,
     hit |-> "miss", answer |-> NoAnswer, under |-> FALSE,
     route |-> Decision("mock-small", "none"), told |-> "nothing", spend |-> 0]

(* The gauge has no labels, so it is exported as 0 from the start.          *)
Init ==
    /\ onExceeded \in Modes
    /\ req = [r \in Request |-> NewRequest(AnyPrompt, "auto", FALSE)]
    /\ exact = <<>> /\ semantic = <<>>
    /\ log = <<>> /\ day = 0 /\ month = 0
    /\ counted = {} /\ gauge = 0

------------------------------------------------------------------------------
(* Mutants: plausible slips in main.py, cache/ and db.py.                   *)

StoresHits(q) == q.answer.text \in {"whole", "cut"}
StoresParts(q) == q.hit = "miss" /\ q.answer.text # "empty"
BreaksQuietly(q) == "closing"
CountsBeforeLogging == {"logging", "logged"}
NeverOverMonth == TRUE
AsADistance(spend) == IF spend < DailyBudget THEN DailyBudget - spend ELSE spend - DailyBudget

------------------------------------------------------------------------------
(* The caches.                                                              *)

ExactKey(q) == <<Redacted[q.prompt], q.asked>>

(* best_match: the first of the entries most similar to prompt p, if they   *)
(* are similar enough; else 0.                                              *)
BestMatch(p) ==
    LET Likeness(i) == Similarity[<<semantic[i].prompt, p>>]
        best == {i \in DOMAIN semantic :
                    Likeness(i) >= Enough /\ \A j \in DOMAIN semantic : Likeness(j) <= Likeness(i)}
    IN  IF best = {} THEN 0 ELSE Min(best)

(* A prompt that still shows PII is neither looked up nor stored.           *)
SemanticLookup(p) == IF p \in PII THEN 0 ELSE BestMatch(p)

SemanticStore(p, a) ==
    IF p \in PII THEN semantic ELSE Append(semantic, [prompt |-> p, answer |-> a])

(* A new value and a new time to live.                                      *)
ExactSet(key, a) ==
    [k \in DOMAIN exact \cup {key} |-> IF k = key THEN a ELSE exact[k]]

(* CacheManager.lookup, and on to the budget.                               *)
Found(q, status, answer) ==
    [q EXCEPT !.hit = status, !.answer = answer, !.pc = "reading day"]

Lookup(q) ==
    LET i == SemanticLookup(Redacted[q.prompt]) IN
    IF ExactKey(q) \in DOMAIN exact THEN Found(q, "exact_hit", exact[ExactKey(q)])
    ELSE IF i # 0 THEN Found(q, "semantic_hit", semantic[i].answer)
    ELSE Found(q, "miss", NoAnswer)

(* CacheManager.store.                                                      *)
Store(q, a) ==
    /\ exact' = ExactSet(ExactKey(q), a)
    /\ semantic' = SemanticStore(Redacted[q.prompt], a)

(* The end of a stream: not error_msg and content, in the branch of a miss. *)
(* An empty message passes for none.                                        *)
Stores(q) == q.hit = "miss" /\ q.answer.text \in {"whole", "cut"}
StoreStream(q) == IF Stores(q) THEN Store(q, q.answer) ELSE UNCHANGED <<exact, semantic>>

------------------------------------------------------------------------------
(* The ledger: get_spend, the sum over the rows from one on, by way of the  *)
(* totals of the rows up to each; over no rows it is coalesced to 0.        *)
Totals(costs) ==
    LET total[n \in 0 .. Len(costs)] == IF n = 0 THEN 0 ELSE total[n - 1] + costs[n]
    IN  total

Between(i, j, costs) ==
    IF i = j THEN 0 ELSE LET total == Totals(costs) IN total[j] - total[i]

RowCosts == [i \in DOMAIN log |-> log[i].cost]
SpentSince(i) == Between(i, Len(log), RowCosts)

WithinDay == SpentSince(day) < DailyBudget
WithinMonth == SpentSince(month) < MonthlyBudget

(* estimate_cost: a cut or an empty answer costs up to what a whole one     *)
(* does, at the price of the provider the answer came from.                 *)
Costs(a) == IF a.text = "whole" THEN {Price[a.by]} ELSE 0 .. Price[a.by]

------------------------------------------------------------------------------
Set(r, q) == req' = [req EXCEPT ![r] = q]
Goto(r, pc) == Set(r, [req[r] EXCEPT !.pc = pc])
Tell(r, pc, event) == Set(r, [req[r] EXCEPT !.pc = pc, !.told = event])

(* A handler is over or cut off: its locals are gone.  What its client was  *)
(* told and how its row, if it has one, is to be read stay on the record.   *)
Finish(q, pc, told) ==
    [NewRequest(AnyPrompt, "auto", FALSE) EXCEPT !.pc = pc, !.told = told, !.route = q.route]

CutOff(q, pc) == Finish(q, pc, q.told)

caches == <<exact, semantic>>
ledger == <<onExceeded, log, day, month>>
metrics == <<counted, gauge>>

(* A request comes in: the rate limiter turns it away, or it is redacted    *)
(* and looked up in the caches, all before the first await.                 *)
RateLimited(r) ==
    /\ req[r].pc = "idle"
    /\ Set(r, CutOff(req[r], "failed"))
    /\ UNCHANGED <<caches, ledger, metrics>>

Arrive(r, p, m, s) ==
    /\ req[r].pc = "idle"
    /\ Set(r, Lookup(NewRequest(p, m, s)))
    /\ UNCHANGED <<caches, ledger, metrics>>

(* check_budget in a thread: one query, then the other.                     *)
ReadDaily(r) ==
    /\ req[r].pc = "reading day"
    /\ Set(r, [req[r] EXCEPT !.pc = "reading month", !.under = WithinDay])
    /\ UNCHANGED <<caches, ledger, metrics>>

(* decide_route.  Over budget in "reject" mode a hit is refused as well.    *)
(* Otherwise a hit needs no provider: a stream starts with its role chunk,  *)
(* a regular answer goes straight to the log.                               *)
Dispatch(q) ==
    IF q.hit = "miss" THEN [q EXCEPT !.pc = IF q.stream THEN "opening" ELSE "calling"]
    ELSE IF q.stream THEN [q EXCEPT !.pc = "streaming", !.told = "role"]
    ELSE [q EXCEPT !.pc = "logging"]

Decide(r) ==
    LET q == req[r]
        within == q.under /\ WithinMonth
        route == DecideRoute(q.asked, LevelOf(Looks[Redacted[q.prompt]]), within)
    IN  /\ q.pc = "reading month"
        /\ IF ~within /\ onExceeded = "reject" THEN Set(r, CutOff(q, "failed"))
           ELSE Set(r, Dispatch([q EXCEPT !.route = route, !.under = FALSE]))
        /\ UNCHANGED <<caches, ledger, metrics>>

(* What the provider by of the request's chain generates for it.            *)
Generated(q, by, text) ==
    [prompt |-> Redacted[q.prompt], by |-> by, primary |-> q.route.model, text |-> text]

(* execute_with_fallback returns: whatever it got is cached at once.        *)
Answered(r, by, text) ==
    LET a == Generated(req[r], by, text) IN
    /\ req[r].pc = "calling"
    /\ Store(req[r], a)
    /\ Set(r, [req[r] EXCEPT !.pc = "logging", !.answer = a])
    /\ UNCHANGED <<ledger, metrics>>

(* It raises: 502, and nothing is logged.                                   *)
CallFails(r) ==
    /\ req[r].pc = "calling"
    /\ Set(r, CutOff(req[r], "failed"))
    /\ UNCHANGED <<caches, ledger, metrics>>

(* stream_with_fallback returns, with a first delta or with an empty        *)
(* stream; or it raises: an error event, and nothing is logged.             *)
Opened(r, by, text) ==
    /\ req[r].pc = "opening"
    /\ Set(r, [[req[r] EXCEPT !.pc = "streaming", !.told = "role"]
                  EXCEPT !.answer = Generated(req[r], by, text)])
    /\ UNCHANGED <<caches, ledger, metrics>>

OpenFails(r) ==
    /\ req[r].pc = "opening"
    /\ Set(r, Finish(req[r], "failed", "error"))
    /\ UNCHANGED <<caches, ledger, metrics>>

(* The content chunks, however many.                                        *)
Content(r) ==
    /\ req[r].pc = "streaming" /\ req[r].told = "role"
    /\ req[r].answer.text # "empty"
    /\ Tell(r, "streaming", "content")
    /\ UNCHANGED <<caches, ledger, metrics>>

(* The provider breaks off: an error event, and no final chunk,             *)
AfterBreak(q) == "logging"
StreamBreaks(r) ==
    LET cut == [req[r] EXCEPT !.told = "error", !.answer.text = "part"] IN
    /\ req[r].pc = "streaming" /\ req[r].hit = "miss" /\ req[r].told = "content"
    /\ StoreStream(cut)
    /\ Set(r, [cut EXCEPT !.pc = AfterBreak(cut)])
    /\ UNCHANGED <<ledger, metrics>>

(* unless str(exc) is "": then the stream goes on as if it had ended.       *)
BreaksWithoutMessage(r) ==
    /\ req[r].pc = "streaming" /\ req[r].hit = "miss" /\ req[r].told = "content"
    /\ Set(r, [req[r] EXCEPT !.told = "error", !.answer.text = "cut"])
    /\ UNCHANGED <<caches, ledger, metrics>>

(* The last chunk is out: the answer is cached before the final chunk with  *)
(* the usage is yielded; [DONE] follows, and only then the log.             *)
StreamEnds(r) ==
    /\ req[r].pc = "streaming"
    /\ req[r].told \in {"content", "error"} \/ req[r].answer.text = "empty"
    /\ StoreStream(req[r])
    /\ Tell(r, "closing", "final")
    /\ UNCHANGED <<ledger, metrics>>

Done(r) ==
    /\ req[r].pc = "closing"
    /\ Tell(r, "logging", "done")
    /\ UNCHANGED <<caches, ledger, metrics>>

(* log_request commits, in a thread.                                        *)
Commit(r) ==
    /\ req[r].pc = "logging"
    /\ \E c \in Costs(req[r].answer) : log' = Append(log, [req |-> r, cost |-> c])
    /\ Goto(r, "logged")
    /\ UNCHANGED <<onExceeded, caches, day, month, metrics>>

(* Back on the event loop: record_request.  A stream is over; a regular     *)
(* request goes on to read the spend for the gauge, and then answers.       *)
RecordsAt == {"logged"}
Record(r) ==
    /\ req[r].pc \in RecordsAt
    /\ counted' = counted \cup {r}
    /\ IF req[r].stream THEN Set(r, CutOff(req[r], "ended")) ELSE Goto(r, "reading spend")
    /\ UNCHANGED <<caches, ledger, gauge>>

ReadSpend(r) ==
    /\ req[r].pc = "reading spend"
    /\ Set(r, [req[r] EXCEPT !.pc = "spend read", !.spend = SpentSince(day)])
    /\ UNCHANGED <<caches, ledger, metrics>>

Remaining(spend) == IF spend < DailyBudget THEN DailyBudget - spend ELSE 0

Reply(r) ==
    /\ req[r].pc = "spend read"
    /\ gauge' = Remaining(req[r].spend)
    /\ Set(r, Finish(req[r], "ended", "answer"))
    /\ UNCHANGED <<caches, ledger, counted>>

(* A query, the commit or the refresh after it raises (a locked database, a *)
(* full disk): 500, or the end of a stream that is already complete.  The   *)
(* refresh leaves a row behind that the metrics never count.                *)
DatabaseFails(r) ==
    /\ req[r].pc \in {"reading day", "reading month", "logging", "logged", "reading spend"}
    /\ Set(r, CutOff(req[r], "failed"))
    /\ UNCHANGED <<caches, ledger, metrics>>

(* The client of a stream leaves: the generator is cancelled where it       *)
(* waits.  Once the commit runs in its thread it is not given up any more.  *)
Disconnect(r) ==
    /\ req[r].stream /\ req[r].pc \in {"opening", "streaming", "closing", "logging"}
    /\ Set(r, CutOff(req[r], "gone"))
    /\ UNCHANGED <<caches, ledger, metrics>>

(* An exact entry outlives its time: the next get would delete it.          *)
Expire(k) ==
    /\ exact' = Restrict(exact, DOMAIN exact \ {k})
    /\ UNCHANGED <<req, semantic, ledger, metrics>>

AgeDay ==
    /\ day < Len(log)
    /\ day' = day + 1
    /\ UNCHANGED <<onExceeded, req, caches, log, month, metrics>>

AgeMonth ==
    /\ month < day
    /\ month' = month + 1
    /\ UNCHANGED <<onExceeded, req, caches, log, day, metrics>>

(* Caches and metrics live in memory, the log on disk.                      *)
Restart ==
    /\ req' = [r \in Request |-> IF req[r].pc \in AtWork THEN CutOff(req[r], "lost")
                                 ELSE req[r]]
    /\ exact' = <<>> /\ semantic' = <<>>
    /\ counted' = {} /\ gauge' = 0
    /\ UNCHANGED ledger

Chain(r) == Range(FallbackChain(req[r].route.model))

Next ==
    \/ \E r \in Request :
          \/ RateLimited(r)
          \/ \E p \in Prompt, m \in Asked, s \in Streaming : Arrive(r, p, m, s)
          \/ ReadDaily(r)
          \/ Decide(r)
          \/ \E by \in Chain(r), text \in {"whole", "empty"} :
                Answered(r, by, text) \/ Opened(r, by, text)
          \/ CallFails(r) \/ OpenFails(r)
          \/ Content(r) \/ StreamBreaks(r) \/ BreaksWithoutMessage(r)
          \/ StreamEnds(r) \/ Done(r)
          \/ Commit(r) \/ Record(r) \/ ReadSpend(r) \/ Reply(r)
          \/ DatabaseFails(r)
          \/ Disconnect(r)
    \/ \E k \in DOMAIN exact : Expire(k)
    \/ AgeDay
    \/ AgeMonth
    \/ Restart

Spec == Init /\ [][Next]_vars

------------------------------------------------------------------------------
Logged(r) == \E i \in DOMAIN log : log[i].req = r

(* The request path keeps the ledger's contract: seen from the budget,      *)
(* every step of every handler is a step of Ledger.tla or changes nothing.  *)
Downgraded(r) == req[r].route.reason = "budget_downgrade"

CostsIf(cheap) ==
    [i \in DOMAIN log |-> IF Downgraded(log[i].req) = cheap THEN log[i].cost ELSE 0]

LedgerPhase(q) ==
    IF q.pc = "reading month" THEN IF q.under THEN "under" ELSE "over"
    ELSE IF q.pc \in {"calling", "opening", "streaming", "closing", "logging"}
         THEN IF q.route.reason = "budget_downgrade" THEN "downgraded" ELSE "admitted"
    ELSE "out"

L == INSTANCE Ledger WITH
         full <- Between(day, Len(log), CostsIf(FALSE)),
         cheap <- Between(day, Len(log), CostsIf(TRUE)),
         older <- Between(month, day, RowCosts),
         phase <- [r \in Request |-> LedgerPhase(req[r])],
         MaxCost <- MaxPrice

LedgerContract == L!Spec

(* Answers do not drift: what a cache holds for a prompt was generated for  *)
(* that very prompt, never taken over from a hit, so that no chain of hits  *)
(* leads to an unrelated prompt; and what a hit serves was generated for a  *)
(* prompt like its own, however long ago the caches were asked.             *)
HitsDoNotDrift ==
    /\ \A k \in DOMAIN exact : exact[k].prompt = k[1]
    /\ \A i \in DOMAIN semantic : semantic[i].answer.prompt = semantic[i].prompt
    /\ \A r \in Request : req[r].hit # "miss" =>
          LET mine == Redacted[req[r].prompt]
              theirs == req[r].answer.prompt
          IN  mine = theirs \/ Similarity[<<theirs, mine>>] >= Enough

(* The policy of the bands, seen from the requests they route: the premium  *)
(* provider is for long prompts with code (a long question falls exactly on *)
(* the bound), a short plain prompt goes to the cheapest model, and of two  *)
(* requests none is routed lower for being longer, or for showing code or a *)
(* question.                                                                *)
Band == [simple_prompt |-> 1, moderate_prompt |-> 2, complex_prompt |-> 3]
ByComplexity == {r \in Request : req[r].pc \notin Over /\ req[r].route.reason \in DOMAIN Band}

Look(r) == Looks[Redacted[req[r].prompt]]
NoMore(f, g) == f.tokens <= g.tokens /\ (f.code => g.code) /\ (f.question => g.question)

RoutingPolicy ==
    \A r \in ByComplexity :
        LET reason == req[r].route.reason
            f == Look(r)
        IN  /\ ~f.code \/ f.tokens <= 250 => reason # "complex_prompt"
            /\ f.tokens < 84 /\ ~(f.code /\ f.question) => reason = "simple_prompt"
            /\ \A s \in ByComplexity \ {r} :
                  NoMore(f, Look(s)) => Band[reason] <= Band[req[s].route.reason]

(* Nobody takes an answer with this much text for the whole: it is never    *)
(* closed with a final chunk and [DONE], nor cached for others.             *)
IsNoAnswer(text) ==
    /\ \A r \in Request :
          req[r].told \in {"final", "done"} => req[r].answer.text # text
    /\ \A a \in Range(exact) : a.text # text
    /\ \A i \in DOMAIN semantic : semantic[i].answer.text # text

(* A stream that broke off with a message is no answer.                     *)
PartsAreNotAnswers == IsNoAnswer("part")

(* The books agree: no request is logged twice, the metrics count only      *)
(* requests that are in the log, and a request that came to its regular     *)
(* end, or a client that has its 200, is in the log.                        *)
BooksAgree ==
    /\ \A i, j \in DOMAIN log : log[i].req = log[j].req => i = j
    /\ \A r \in counted : Logged(r)
    /\ \A r \in Request : req[r].pc = "ended" \/ req[r].told = "answer" => Logged(r)

(* "Remaining daily budget in USD": two requests can write the gauge in the *)
(* wrong order, and streams do not write it at all, so it need not be what  *)
(* remains.  But since the first reply of the process, and before rows are  *)
(* a day old, it is what remained when some request that has its answer had *)
(* been charged: it never understates.                                      *)
Answering == {r \in counted : req[r].told = "answer"}

GaugeShowsAPast ==
    day = 0 /\ Answering # {} =>
        \E n \in DOMAIN log :
            /\ \E i \in 1 .. n : log[i].req \in Answering
            /\ LET spent == Totals(RowCosts)[n]
               IN  IF spent < DailyBudget THEN gauge + spent = DailyBudget ELSE gauge = 0

------------------------------------------------------------------------------
(* What the documents say of the request path, and the code does not do.    *)

(* "PII prompts are never semantically cached to prevent unsafe cross-user  *)
(* hits".  The cache is asked with the redacted prompt, in which            *)
(* detect_pii finds nothing any more.                                       *)
PIIIsNotShared ==
    \A r \in Request : req[r].prompt \in PII => req[r].hit # "semantic_hit"

(* "completed streams are cached": a stream that broke off, with whatever   *)
(* exception, is no completed stream.  One whose message is empty is closed *)
(* with [DONE] and cached: the next request gets the cut answer as a hit.   *)
CutsAreNotAnswers == IsNoAnswer("cut")

(* "completed streams are cached and logged": a stream that was completed   *)
(* with [DONE] is in the log once it is over.  The log is written after     *)
(* [DONE], and a client that leaves then cancels it.                        *)
CompletedStreamsAreLogged ==
    \A r \in Request : req[r].told = "done" /\ req[r].pc = "gone" => Logged(r)
==============================================================================
