------------------------------ MODULE Evaluator ------------------------------
(***************************************************************************)
(* An evaluation (src/app/evaluation/evaluator.py): a client that sends    *)
(* every prompt of the suite to the gateway four times, one call after the *)
(* other, under the demo key, next to the rate limiter that lets its calls *)
(* through or not.  Other clients may use the same key.                    *)
(*                                                                         *)
(* Time is that of RateLimiter.tla.  Of the gateway there is the limiter   *)
(* and the cache: once a prompt has an answer there it has it for every    *)
(* model, from the exact cache or, with similarity 1, from the semantic    *)
(* one.  (That prompts of the suite are similar to each other is left      *)
(* out.)  Routes and fallbacks are those of a gateway with its two mocks.  *)
(* Of the rows of the report the model keeps the last one.                 *)
(***************************************************************************)
EXTENDS RateLimiter

CONSTANTS DemoKey,      \* settings.demo_api_key
          Cases,        \* the number of prompts in the suite
          Simple,       \* those of them that are simple_prompt to the router
          Attempts,     \* 8: the calls that are made of one because of 429
          BackOff,      \* 2 s, in ticks: attempt n is followed by n of them
          Pace          \* 1.05 s, in ticks: the sleep after an answered call

ASSUME EvaluatorAssumption ==
    /\ DemoKey \in Key /\ Cases \in Nat /\ Simple \subseteq 1 .. Cases
    /\ {Attempts, BackOff, Pace} \subseteq Nat \ {0}

VARIABLES alone,    \* does nobody else use the demo key?
          planned,  \* len(cases): how many prompts this run evaluates
          eval,     \* where the run is
          row,      \* the last row of results
          held      \* per prompt, what the gateway's caches have for it

evalVars == <<alone, planned, eval, row, held>>
allVars == <<redis, bucket, zset, granted, verdict, alone, planned, eval, row, held>>

EvalModel == {"mock-small", "mock-large"}

(* The calls made for one prompt: the first of cache_warm is not measured.  *)
Calls == <<[mode |-> "direct_expensive", asked |-> "mock-large", measured |-> TRUE],
           [mode |-> "auto_route", asked |-> "auto", measured |-> TRUE],
           [mode |-> "cache_warm", asked |-> "auto", measured |-> FALSE],
           [mode |-> "cache_warm", asked |-> "auto", measured |-> TRUE]>>

(* An answer: who gave it, and who had been tried first.                    *)
NotHeld == [model |-> "none", primary |-> "none"]
Given == [model : EvalModel, primary : EvalModel]

NoRow == [mode |-> "none", case |-> 0, model |-> "none", hit |-> FALSE, fallback |-> FALSE]
Row == [mode : {"direct_expensive", "auto_route", "cache_warm"}, case : 1 .. Cases,
        model : EvalModel, hit : BOOLEAN, fallback : BOOLEAN]

EvaluationTypeOK ==
    /\ TypeOK
    /\ alone \in BOOLEAN /\ planned \in 0 .. Cases
    /\ eval.pc \in {"posting", "waiting", "sleeping", "pacing", "reported", "aborted"}
    /\ eval.case \in 1 .. Cases + 1 /\ eval.call \in 1 .. Len(Calls)
    /\ eval.attempt \in 0 .. Attempts - (IF eval.pc \in {"posting", "waiting"} THEN 1 ELSE 0)
    /\ eval.timer \in 0 .. BackOff * Attempts + Pace
    /\ row \in Row \cup {NoRow}
    /\ held \in [1 .. Cases -> Given \cup {NotHeld}]

(* limit is any integer or none: cases[:limit] has some of the prompts, for *)
(* a negative limit possibly none.                                          *)
EvaluationInit ==
    /\ Init
    /\ alone \in BOOLEAN
    /\ planned \in 0 .. Cases
    /\ eval = [pc |-> "posting", case |-> 1, call |-> 1, attempt |-> 0, timer |-> 0]
    /\ row = NoRow
    /\ held = [c \in 1 .. Cases |-> NotHeld]

------------------------------------------------------------------------------
(* Mutants: plausible slips in evaluator.py.                                *)

PacesMeasuredCalls(call) == IF Calls[call].measured THEN Pace ELSE 0
TriesForEver == eval.attempt

------------------------------------------------------------------------------
(* The call of the loop the run is at.                                      *)
Call == Calls[eval.call]

PaceAfter(call) == Pace

Aborts == eval' = [eval EXCEPT !.pc = "aborted"]

(* status 429: sleep 2.0 * (attempt + 1), after the last attempt too.       *)
NextAttempt == eval.attempt + 1
BacksOff ==
    eval' = [eval EXCEPT !.pc = "sleeping", !.attempt = NextAttempt,
                         !.timer = BackOff * (eval.attempt + 1)]

(* A call reaches the limiter.                                              *)
Post ==
    /\ eval.pc = "posting" /\ eval.case <= planned
    /\ \/ /\ MemoryAdmits(DemoKey) \/ (RedisChecks(DemoKey) /\ verdict'[DemoKey] = "admitted")
          /\ eval' = [eval EXCEPT !.pc = "waiting"]
       \/ /\ MemoryRefuses(DemoKey) \/ (RedisChecks(DemoKey) /\ verdict'[DemoKey] = "refused")
          /\ BacksOff
       \/ RedisFails(DemoKey) /\ Aborts
    /\ UNCHANGED <<alone, planned, row, held>>

(* The models a prompt may be routed to: to mock-small also when the budget *)
(* is exceeded.                                                             *)
RoutedTo(asked, c) ==
    {"mock-small"} \cup (IF asked = "auto" /\ c \in Simple THEN {} ELSE {"mock-large"})

(* The row of an answer: "fallback" is in the reason of an answer that was  *)
(* not given by the first in its chain, be it cached.                       *)
RowOf(a, hit) ==
    [mode |-> Call.mode, case |-> eval.case, model |-> a.model, hit |-> hit,
     fallback |-> a.model # a.primary]

(* An answered call, from the cache or else from a provider, whose answer   *)
(* the cache then has.                                                      *)
Answered ==
    /\ eval.pc = "waiting"
    /\ \E a \in IF held[eval.case] # NotHeld THEN {held[eval.case]}
                ELSE {g \in Given : g.primary \in RoutedTo(Call.asked, eval.case)} :
          /\ held' = [held EXCEPT ![eval.case] = a]
          /\ row' = IF Call.measured THEN RowOf(a, held[eval.case] # NotHeld) ELSE row
    /\ eval' = [eval EXCEPT !.pc = "pacing", !.timer = PaceAfter(eval.call)]
    /\ UNCHANGED <<redis, bucket, zset, granted, verdict, alone, planned>>

(* Budget exceeded: 429, like a refusal by the limiter.                     *)
RefusedForBudget ==
    /\ eval.pc = "waiting"
    /\ BacksOff
    /\ UNCHANGED <<redis, bucket, zset, granted, verdict, alone, planned, row, held>>

(* Any other status, and no answer within 60 seconds, raise.                *)
CallFails ==
    /\ eval.pc = "waiting" /\ Aborts
    /\ UNCHANGED <<redis, bucket, zset, granted, verdict, alone, planned, row, held>>

(* The next attempt; after the last one the 429 is raised.                  *)
Retry ==
    /\ eval.pc = "sleeping" /\ eval.timer = 0
    /\ IF eval.attempt < Attempts THEN eval' = [eval EXCEPT !.pc = "posting"] ELSE Aborts
    /\ UNCHANGED <<redis, bucket, zset, granted, verdict, alone, planned, row, held>>

(* The next call for this prompt, or the first for the next one.            *)
NextCall(e) ==
    IF e.call < Len(Calls) THEN [e EXCEPT !.pc = "posting", !.call = e.call + 1, !.attempt = 0]
    ELSE [e EXCEPT !.pc = "posting", !.case = e.case + 1, !.call = 1, !.attempt = 0]

Paced ==
    /\ eval.pc = "pacing" /\ eval.timer = 0
    /\ eval' = NextCall(eval)
    /\ UNCHANGED <<redis, bucket, zset, granted, verdict, alone, planned, row, held>>

(* All prompts are done.  Without any there is no median: it raises.        *)
Report ==
    /\ eval.pc = "posting" /\ eval.case > planned
    /\ eval' = [eval EXCEPT !.pc = IF planned > 0 THEN "reported" ELSE "aborted"]
    /\ UNCHANGED <<redis, bucket, zset, granted, verdict, alone, planned, row, held>>

Evaluate == Post \/ Answered \/ RefusedForBudget \/ CallFails \/ Retry \/ Paced \/ Report

(* Other clients: with the demo key only if it is not the evaluation's own. *)
Others ==
    /\ \E k \in Key : (k = DemoKey => ~alone) /\ Check(k)
    /\ UNCHANGED evalVars

TimePasses ==
    /\ Tick
    /\ eval' = [eval EXCEPT !.timer = IF @ > 0 THEN @ - 1 ELSE 0]
    /\ UNCHANGED <<alone, planned, row, held>>

(* The gateway restarts: its caches are empty, a call that waits breaks.    *)
GatewayRestarts ==
    /\ Restart
    /\ held' = [c \in 1 .. Cases |-> NotHeld]
    /\ eval' = IF eval.pc = "waiting" THEN [eval EXCEPT !.pc = "aborted"] ELSE eval
    /\ UNCHANGED <<alone, planned, row>>

EvaluationNext == Evaluate \/ Others \/ TimePasses \/ GatewayRestarts

EvaluationSpec == EvaluationInit /\ [][EvaluationNext]_allVars

(* Time passes, and the evaluation goes on: its sleeps and its calls end,   *)
(* the latter by timeout=60.0, and among all the requests to the gateway    *)
(* one of its own is taken up.                                              *)
EvaluationLiveSpec ==
    EvaluationSpec /\ WF_allVars(TimePasses) /\ WF_allVars(Evaluate) /\ SF_allVars(Post)

------------------------------------------------------------------------------
(* With the settings as they come (60 a minute, 1.05 s and 2 s), calls that *)
(* are a Pace apart keep within the limit, and no sleep between attempts is *)
(* shorter than a Pace.                                                     *)
PaceFitsLimit == Window \div Pace + 1 <= Limit /\ Pace <= BackOff

(* An evaluation that has the key to itself is then never refused by the    *)
(* limiter: it pauses after every call, the warm-up included, for longer    *)
(* than the limiter's share of a minute.                                    *)
AloneIsAdmitted == PaceFitsLimit /\ alone => verdict[DemoKey] # "refused"

(* However long its calls are refused, by the limiter or for the budget,    *)
(* an evaluation ends, with a report or with an error.                      *)
RunEnds == <>(eval.pc \in {"reported", "aborted"})

(* The report says of auto_route that it "routes simple prompts to cheaper  *)
(* models": a simple prompt's row shows mock-large only after a fallback.   *)
AutoRouteIsRouted ==
    row.mode = "auto_route" /\ row.case \in Simple =>
        row.model = "mock-small" \/ row.fallback
==============================================================================
