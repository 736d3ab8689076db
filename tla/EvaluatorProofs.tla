--------------------------- MODULE EvaluatorProofs ---------------------------
(***************************************************************************)
(* An evaluation that has its key to itself is never refused if the limit  *)
(* leaves room for its pace: its calls are a Pace apart, and no more than  *)
(* the limit of them fit into 60 seconds.                                  *)
(*                                                                         *)
(* The limiter next to the evaluation takes the steps of RateLimiter.tla,  *)
(* so what RateLimiterProofs shows of it holds here, too.                  *)
(***************************************************************************)
EXTENDS Evaluator, RateLimiterProofs

(* The limiter's part of a step is a step of the limiter.                   *)
LEMMA LimiterStep == [EvaluationNext]_allVars => [Next]_vars
<1> SUFFICES ASSUME [EvaluationNext]_allVars PROVE [Next]_vars
  OBVIOUS
<1>1. CASE Post
  <2>1. Check(DemoKey)
    BY <1>1 DEF Post, Check
  <2>. QED
    BY <2>1, EvaluatorAssumption DEF Next
<1>2. CASE Answered \/ RefusedForBudget \/ CallFails \/ Retry \/ Paced \/ Report
  BY <1>2 DEF Answered, RefusedForBudget, CallFails, Retry, Paced, Report, vars
<1>3. CASE Others
  BY <1>3 DEF Others, Next
<1>4. CASE TimePasses
  BY <1>4 DEF TimePasses, Next
<1>5. CASE GatewayRestarts
  BY <1>5 DEF GatewayRestarts, Next
<1>6. CASE UNCHANGED allVars
  BY <1>6 DEF allVars, vars
<1>. QED
  BY <1>1, <1>2, <1>3, <1>4, <1>5, <1>6 DEF EvaluationNext, Evaluate

(* Next to an evaluation and other clients the limiter does what it does    *)
(* by itself: they reach it through check() alone (rate_limiter.py:33).     *)
THEOREM LimiterIsUsedByChecks == EvaluationSpec => Spec
<1>1. EvaluationInit => Init
  BY DEF EvaluationInit
<1>. QED
  BY <1>1, LimiterStep, PTL DEF EvaluationSpec, Spec

------------------------------------------------------------------------------
(* The state of a run.                                                      *)
Pcs == {"posting", "waiting", "sleeping", "pacing", "reported", "aborted"}
Trying == {"posting", "waiting"}

RunTyped ==
    /\ alone \in BOOLEAN /\ planned \in 0 .. Cases
    /\ DOMAIN eval = {"pc", "case", "call", "attempt", "timer"}
    /\ eval.pc \in Pcs
    /\ eval.case \in 1 .. Cases + 1 /\ eval.call \in 1 .. Len(Calls)
    /\ eval.attempt \in 0 .. Attempts
    /\ eval.pc \in Trying => eval.attempt < Attempts
    /\ eval.timer \in 0 .. BackOff * Attempts + Pace

(* Before the end of the run it is at one of its prompts, except that it    *)
(* may be about to report.                                                  *)
AtAPrompt == eval.pc \in {"waiting", "sleeping", "pacing"} => eval.case <= planned

AnswersTyped ==
    /\ row \in Row \cup {NoRow}
    /\ held \in [1 .. Cases -> Given \cup {NotHeld}]

RunOK == RunTyped /\ AtAPrompt /\ AnswersTyped

LEMMA CallsTyped ==
  /\ Len(Calls) = 4
  /\ \A n \in 1 .. 4 : Calls[n].mode \in {"direct_expensive", "auto_route", "cache_warm"}
  BY DEF Calls

(* How a step moves the run.                                                *)
LEMMA RunMoves ==
  ASSUME RunOK,
         planned' = planned, alone' = alone,
         DOMAIN eval' = {"pc", "case", "call", "attempt", "timer"},
         eval'.pc \in Pcs,
         eval'.case \in 1 .. Cases + 1, eval'.call \in 1 .. Len(Calls),
         eval'.attempt \in 0 .. Attempts,
         eval'.pc \in Trying => eval'.attempt < Attempts,
         eval'.timer \in 0 .. BackOff * Attempts + Pace,
         eval'.pc \in {"waiting", "sleeping", "pacing"} => eval'.case <= planned,
         AnswersTyped'
  PROVE  RunOK'
  BY DEF RunOK, RunTyped, AtAPrompt

LEMMA TimerBound == /\ BackOff * Attempts + Pace \in Nat
                    /\ {0, Pace} \subseteq 0 .. BackOff * Attempts + Pace
<1>1. BackOff \in Nat /\ Attempts \in Nat /\ Pace \in Nat
  BY EvaluatorAssumption
<1>2. BackOff * Attempts \in Nat
  BY <1>1
<1>. QED
  BY <1>1, <1>2

LEMMA BacksOffInBounds ==
  ASSUME NEW n \in Nat, n < Attempts
  PROVE  /\ BackOff * (n + 1) \in 0 .. BackOff * Attempts + Pace
         /\ Pace <= BackOff => BackOff * (n + 1) >= Pace
<1>1. BackOff \in Nat \ {0} /\ Attempts \in Nat \ {0} /\ Pace \in Nat \ {0}
  BY EvaluatorAssumption
<1>2. BackOff * (n + 1) \in Nat /\ BackOff * Attempts \in Nat
  BY <1>1
<1>3. BackOff * (n + 1) <= BackOff * Attempts
  <2>1. n + 1 <= Attempts
    BY <1>1
  <2>. QED
    BY <1>1, <2>1
<1>4. BackOff * (n + 1) >= BackOff
  BY <1>1
<1>. QED
  BY <1>1, <1>2, <1>3, <1>4

(* The fields of eval after a step that backs off, or aborts.               *)
LEMMA BacksOffTo ==
  ASSUME RunTyped, BacksOff
  PROVE  /\ DOMAIN eval' = {"pc", "case", "call", "attempt", "timer"}
         /\ eval'.pc = "sleeping" /\ eval'.case = eval.case /\ eval'.call = eval.call
         /\ eval'.attempt = eval.attempt + 1
         /\ eval'.timer = BackOff * (eval.attempt + 1)
  BY DEF RunTyped, BacksOff, NextAttempt

LEMMA GoesTo ==
  ASSUME RunTyped, NEW pc, eval' = [eval EXCEPT !.pc = pc]
  PROVE  /\ DOMAIN eval' = {"pc", "case", "call", "attempt", "timer"}
         /\ eval'.pc = pc /\ eval'.case = eval.case /\ eval'.call = eval.call
         /\ eval'.attempt = eval.attempt /\ eval'.timer = eval.timer
  BY DEF RunTyped

LEMMA BackingOffIsOK ==
  ASSUME RunOK, BacksOff, eval.pc \in Trying, eval.case <= planned,
         UNCHANGED <<alone, planned>>, AnswersTyped'
  PROVE  RunOK'
<1>1. /\ eval.attempt \in Nat /\ eval.attempt < Attempts
      /\ eval.attempt + 1 \in 0 .. Attempts
      /\ eval.case \in 1 .. Cases + 1 /\ eval.call \in 1 .. Len(Calls)
  BY EvaluatorAssumption DEF RunOK, RunTyped
<1>2. BackOff * (eval.attempt + 1) \in 0 .. BackOff * Attempts + Pace
  BY <1>1, BacksOffInBounds
<1>3. RunTyped
  BY DEF RunOK
<1>. QED
  BY <1>1, <1>2, <1>3, BacksOffTo, RunMoves DEF Pcs, Trying

LEMMA GoingIsOK ==
  ASSUME RunOK, NEW pc \in Pcs, eval' = [eval EXCEPT !.pc = pc],
         pc \in Trying => eval.attempt < Attempts,
         pc \in {"waiting", "sleeping", "pacing"} => eval.case <= planned,
         UNCHANGED <<alone, planned>>, AnswersTyped'
  PROVE  RunOK'
<1>1. RunTyped
  BY DEF RunOK
<1>. QED
  BY <1>1, GoesTo, RunMoves DEF RunTyped

------------------------------------------------------------------------------
LEMMA InitRunOK == EvaluationInit => RunOK
<1> SUFFICES ASSUME EvaluationInit PROVE RunOK
  OBVIOUS
<1> USE DEF EvaluationInit
<1>1. Attempts \in Nat \ {0} /\ Cases \in Nat /\ 0 \in 0 .. BackOff * Attempts + Pace
  BY EvaluatorAssumption, TimerBound
<1>2. RunTyped
  BY <1>1, CallsTyped DEF RunTyped, Pcs, Trying
<1>3. AnswersTyped
  BY DEF AnswersTyped
<1>. QED
  BY <1>2, <1>3 DEF RunOK, AtAPrompt

(* A row of an answer the gateway gave.                                     *)
LEMMA RowTyped ==
  ASSUME RunOK, eval.pc = "waiting", NEW a \in Given, NEW hit \in BOOLEAN
  PROVE  RowOf(a, hit) \in Row
<1>1. eval.case \in 1 .. Cases /\ eval.call \in 1 .. 4
  BY CallsTyped, EvaluatorAssumption DEF RunOK, RunTyped, AtAPrompt
<1>2. Call.mode \in {"direct_expensive", "auto_route", "cache_warm"}
  BY <1>1, CallsTyped DEF Call
<1>3. a.model \in EvalModel /\ (a.model # a.primary) \in BOOLEAN
  BY DEF Given
<1>. QED
  BY <1>1, <1>2, <1>3 DEF RowOf, Row

LEMMA AnsweredKeepsRunOK == ASSUME RunOK, Answered PROVE RunOK'
<1>0. RunTyped /\ AtAPrompt /\ AnswersTyped /\ eval.pc = "waiting" /\ eval.case <= planned
  BY DEF RunOK, AtAPrompt, Answered
<1>1. eval.case \in 1 .. Cases
  BY <1>0, EvaluatorAssumption DEF RunTyped
<1>2. PICK a \in IF held[eval.case] # NotHeld THEN {held[eval.case]}
                  ELSE {g \in Given : g.primary \in RoutedTo(Call.asked, eval.case)} :
          /\ held' = [held EXCEPT ![eval.case] = a]
          /\ row' = IF Call.measured THEN RowOf(a, held[eval.case] # NotHeld) ELSE row
  BY DEF Answered
<1>3. a \in Given
  <2>1. held[eval.case] \in Given \cup {NotHeld}
    BY <1>0, <1>1 DEF AnswersTyped
  <2>2. CASE held[eval.case] # NotHeld
    BY <1>2, <2>1, <2>2
  <2>3. CASE held[eval.case] = NotHeld
    BY <1>2, <2>3
  <2>. QED
    BY <2>2, <2>3
<1>4. RowOf(a, held[eval.case] # NotHeld) \in Row
  <2> DEFINE hit == held[eval.case] # NotHeld
  <2>1. hit \in BOOLEAN
    OBVIOUS
  <2> HIDE DEF hit
  <2>2. RowOf(a, hit) \in Row
    BY <1>0, <1>3, <2>1, RowTyped
  <2>. QED
    BY <2>2 DEF hit
<1>5. AnswersTyped'
  <2>1. held' \in [1 .. Cases -> Given \cup {NotHeld}]
    BY <1>0, <1>2, <1>3 DEF AnswersTyped
  <2>2. row' = RowOf(a, held[eval.case] # NotHeld) \/ row' = row
    BY <1>2, Zenon
  <2>3. row' \in Row \cup {NoRow}
    BY <1>0, <1>4, <2>2, Zenon DEF AnswersTyped
  <2>. QED
    BY <2>1, <2>3 DEF AnswersTyped
<1>6. /\ DOMAIN eval' = {"pc", "case", "call", "attempt", "timer"}
      /\ eval'.pc = "pacing" /\ eval'.case = eval.case /\ eval'.call = eval.call
      /\ eval'.attempt = eval.attempt /\ eval'.timer = Pace
      /\ UNCHANGED <<alone, planned>>
  BY <1>0 DEF Answered, PaceAfter, RunTyped
<1>7. Pace \in 0 .. BackOff * Attempts + Pace
  BY TimerBound
<1>. QED
  BY <1>0, <1>5, <1>6, <1>7, RunMoves DEF Pcs, Trying, RunTyped

LEMMA PacedKeepsRunOK == ASSUME RunOK, Paced PROVE RunOK'
<1>0. /\ RunTyped /\ AnswersTyped /\ eval.pc = "pacing" /\ eval.case <= planned
      /\ UNCHANGED <<alone, planned, row, held>> /\ eval' = NextCall(eval)
  BY DEF RunOK, AtAPrompt, Paced
<1>1. /\ eval.case \in 1 .. Cases /\ eval.call \in 1 .. Len(Calls) /\ Len(Calls) = 4
      /\ 0 < Attempts /\ 0 \in 0 .. Attempts /\ Cases \in Nat
  BY <1>0, EvaluatorAssumption, CallsTyped DEF RunTyped
<1>2. AnswersTyped'
  BY <1>0 DEF AnswersTyped
<1>3. CASE eval.call < Len(Calls)
  <2>1. /\ DOMAIN eval' = {"pc", "case", "call", "attempt", "timer"}
        /\ eval'.pc = "posting" /\ eval'.case = eval.case /\ eval'.call = eval.call + 1
        /\ eval'.attempt = 0 /\ eval'.timer = eval.timer
    BY <1>0, <1>3 DEF NextCall, RunTyped
  <2>2. eval.call + 1 \in 1 .. Len(Calls) /\ eval.case \in 1 .. Cases + 1
    BY <1>1, <1>3
  <2>. QED
    BY <1>0, <1>1, <1>2, <2>1, <2>2, RunMoves DEF Pcs, RunTyped
<1>4. CASE ~(eval.call < Len(Calls))
  <2>1. /\ DOMAIN eval' = {"pc", "case", "call", "attempt", "timer"}
        /\ eval'.pc = "posting" /\ eval'.case = eval.case + 1 /\ eval'.call = 1
        /\ eval'.attempt = 0 /\ eval'.timer = eval.timer
    BY <1>0, <1>4 DEF NextCall, RunTyped
  <2>2. 1 \in 1 .. Len(Calls) /\ eval.case + 1 \in 1 .. Cases + 1
    BY <1>1
  <2>. QED
    BY <1>0, <1>1, <1>2, <2>1, <2>2, RunMoves DEF Pcs, RunTyped
<1>. QED
  BY <1>3, <1>4

LEMMA StepKeepsRunOK == RunOK /\ [EvaluationNext]_allVars => RunOK'
<1> SUFFICES ASSUME RunOK, [EvaluationNext]_allVars PROVE RunOK'
  OBVIOUS
<1>0. RunTyped /\ AtAPrompt /\ AnswersTyped
  BY DEF RunOK
<1>1. CASE Post
  <2>1. UNCHANGED <<alone, planned, row, held>> /\ eval.pc = "posting" /\ eval.case <= planned
    BY <1>1 DEF Post
  <2>2. AnswersTyped'
    BY <1>0, <2>1 DEF AnswersTyped
  <2>3. eval.pc \in Trying /\ eval.attempt < Attempts
    BY <1>0, <2>1 DEF RunTyped, Trying
  <2>4. CASE eval' = [eval EXCEPT !.pc = "waiting"]
    BY <2>1, <2>2, <2>3, <2>4, GoingIsOK DEF Pcs
  <2>5. CASE BacksOff
    BY <2>1, <2>2, <2>3, <2>5, BackingOffIsOK
  <2>6. CASE Aborts
    BY <2>1, <2>2, <2>6, GoingIsOK DEF Aborts, Pcs, Trying
  <2>. QED
    BY <1>1, <2>4, <2>5, <2>6 DEF Post
<1>2. CASE Answered
  BY <1>2, AnsweredKeepsRunOK
<1>3. CASE RefusedForBudget
  <2>1. UNCHANGED <<alone, planned, row, held>> /\ eval.pc = "waiting" /\ BacksOff
    BY <1>3 DEF RefusedForBudget
  <2>2. AnswersTyped' /\ eval.pc \in Trying /\ eval.case <= planned
    BY <1>0, <2>1 DEF AnswersTyped, Trying, AtAPrompt
  <2>. QED
    BY <2>1, <2>2, BackingOffIsOK
<1>4. CASE CallFails
  <2>1. UNCHANGED <<alone, planned, row, held>> /\ Aborts
    BY <1>4 DEF CallFails
  <2>2. AnswersTyped'
    BY <1>0, <2>1 DEF AnswersTyped
  <2>. QED
    BY <2>1, <2>2, GoingIsOK DEF Aborts, Pcs, Trying
<1>5. CASE Retry
  <2>1. UNCHANGED <<alone, planned, row, held>>
    BY <1>5 DEF Retry
  <2>2. AnswersTyped'
    BY <1>0, <2>1 DEF AnswersTyped
  <2>3. CASE eval.attempt < Attempts
    <3>1. eval' = [eval EXCEPT !.pc = "posting"]
      BY <1>5, <2>3 DEF Retry
    <3>. QED
      BY <2>1, <2>2, <2>3, <3>1, GoingIsOK DEF Pcs
  <2>4. CASE ~(eval.attempt < Attempts)
    <3>1. Aborts
      BY <1>5, <2>4 DEF Retry
    <3>. QED
      BY <2>1, <2>2, <3>1, GoingIsOK DEF Aborts, Pcs, Trying
  <2>. QED
    BY <2>3, <2>4
<1>6. CASE Paced
  BY <1>6, PacedKeepsRunOK
<1>7. CASE Report
  <2>1. UNCHANGED <<alone, planned, row, held>>
    BY <1>7 DEF Report
  <2>2. AnswersTyped'
    BY <1>0, <2>1 DEF AnswersTyped
  <2>3. PICK pc \in {"reported", "aborted"} : eval' = [eval EXCEPT !.pc = pc]
    BY <1>7 DEF Report
  <2>. QED
    BY <2>1, <2>2, <2>3, GoingIsOK DEF Pcs, Trying
<1>8. CASE Others \/ UNCHANGED allVars
  <2>1. UNCHANGED evalVars
    BY <1>8 DEF Others, allVars, evalVars
  <2>. QED
    BY <1>0, <2>1 DEF evalVars, RunOK, RunTyped, AtAPrompt, AnswersTyped
<1>9. CASE TimePasses
  <2>1. /\ DOMAIN eval' = {"pc", "case", "call", "attempt", "timer"}
        /\ eval'.pc = eval.pc /\ eval'.case = eval.case /\ eval'.call = eval.call
        /\ eval'.attempt = eval.attempt
        /\ eval'.timer = IF eval.timer > 0 THEN eval.timer - 1 ELSE 0
        /\ UNCHANGED <<alone, planned, row, held>>
    BY <1>0, <1>9 DEF TimePasses, RunTyped
  <2>2. AnswersTyped'
    BY <1>0, <2>1 DEF AnswersTyped
  <2>3. eval'.timer \in 0 .. BackOff * Attempts + Pace
    <3> DEFINE most == BackOff * Attempts + Pace
    <3>1. eval.timer \in 0 .. most /\ most \in Nat
      BY <1>0, TimerBound DEF RunTyped
    <3> HIDE DEF most
    <3>2. eval'.timer \in 0 .. most
      BY <2>1, <3>1
    <3>. QED
      BY <3>2 DEF most
  <2>. QED
    BY <1>0, <2>1, <2>2, <2>3, RunMoves DEF RunTyped, AtAPrompt
<1>10. CASE GatewayRestarts
  <2>1. UNCHANGED <<alone, planned, row>> /\ held' = [c \in 1 .. Cases |-> NotHeld]
    BY <1>10 DEF GatewayRestarts
  <2>2. AnswersTyped'
    BY <1>0, <2>1 DEF AnswersTyped
  <2>3. CASE eval.pc = "waiting"
    <3>1. eval' = [eval EXCEPT !.pc = "aborted"]
      BY <1>10, <2>3 DEF GatewayRestarts
    <3>. QED
      BY <2>1, <2>2, <3>1, GoingIsOK DEF Pcs, Trying
  <2>4. CASE eval.pc # "waiting"
    <3>1. eval' = eval
      BY <1>10, <2>4 DEF GatewayRestarts
    <3>. QED
      BY <1>0, <2>1, <2>2, <3>1 DEF RunOK, RunTyped, AtAPrompt
  <2>. QED
    BY <2>3, <2>4
<1>. QED
  BY <1>1, <1>2, <1>3, <1>4, <1>5, <1>6, <1>7, <1>8, <1>9, <1>10 DEF EvaluationNext, Evaluate

(* A run stays within its prompts, its calls and its attempts, and the      *)
(* deque next to it within its limit, whatever limit, pace and number of    *)
(* attempts are set (evaluator.py:23-57, rate_limiter.py:51-57).            *)
THEOREM EvaluationTypeCorrect == EvaluationSpec => []EvaluationTypeOK
<1>1. RunOK /\ TypeOK => EvaluationTypeOK
  <2> SUFFICES ASSUME RunOK, TypeOK PROVE EvaluationTypeOK
    OBVIOUS
  <2>1. eval.attempt \in 0 .. Attempts - (IF eval.pc \in {"posting", "waiting"} THEN 1 ELSE 0)
    BY EvaluatorAssumption DEF RunOK, RunTyped, Trying
  <2>. QED
    BY <2>1 DEF EvaluationTypeOK, RunOK, RunTyped, AnswersTyped, Pcs
<1>. QED
  BY <1>1, InitRunOK, StepKeepsRunOK, LimiterIsUsedByChecks, TypeCorrect, PTL DEF EvaluationSpec

------------------------------------------------------------------------------
(* The checks of an evaluation that is alone are a Pace apart, and before   *)
(* the next one what is left of the Pace has to pass.                       *)
Left == IF eval.pc = "posting" THEN 0 ELSE IF eval.pc \in {"sleeping", "pacing"} THEN eval.timer ELSE Pace

(* Ages in a deque that are more than the window, and in a sorted set that  *)
(* are the window, are no longer told apart.  A deque has the oldest first, *)
(* a sorted set here the latest.                                            *)
DequeSpaced(b) == \A i, j \in 1 .. Len(b) : i < j => b[i] >= b[j] + Pace \/ b[i] > Window
SetSpaced(z) == \A m, n \in 1 .. Limit + 1 : m < n => z[n] >= z[m] + Pace \/ z[n] >= Window
DequeWaits(b, left) == \A i \in 1 .. Len(b) : b[i] + left >= Pace \/ b[i] > Window
SetWaits(z, left) == \A n \in 1 .. Limit + 1 : z[n] + left >= Pace \/ z[n] >= Window

PacedOK(b, z, left) == DequeSpaced(b) /\ SetSpaced(z) /\ DequeWaits(b, left) /\ SetWaits(z, left)

Unhindered ==
    PaceFitsLimit /\ alone =>
        /\ PacedOK(bucket[DemoKey], zset[DemoKey], Left)
        /\ verdict[DemoKey] # "refused"

------------------------------------------------------------------------------
LEMMA Quotient ==
  ASSUME NEW n \in Nat \ {0}, NEW a \in Nat
  PROVE  a \div n \in Nat /\ n * (a \div n) <= a /\ a < n * (a \div n) + n
  BY SMT

LEMMA QuotientsApart ==
  ASSUME NEW n \in Nat \ {0}, NEW a \in Nat, NEW c \in Nat, c >= a + n
  PROVE  a \div n # c \div n
<1> DEFINE p == a \div n
           q == c \div n
<1>1. p \in Nat /\ n * p <= a /\ q \in Nat /\ c < n * q + n
  BY Quotient
<1>. QED
  BY <1>1

LEMMA QuotientGrows ==
  ASSUME NEW n \in Nat \ {0}, NEW a \in Nat, NEW c \in Nat, a <= c
  PROVE  a \div n <= c \div n
<1> DEFINE p == a \div n
           q == c \div n
<1>1. p \in Nat /\ n * p <= a /\ q \in Nat /\ c < n * q + n
  BY Quotient
<1> HIDE DEF p, q
<1>2. ASSUME q + 1 <= p PROVE FALSE
  <2>1. n * (q + 1) <= n * p
    BY <1>1, <1>2
  <2>2. n * (q + 1) = n * q + n
    BY <1>1
  <2>. QED
    BY <1>1, <2>1, <2>2
<1>3. p <= q
  BY <1>1, <1>2
<1>. QED
  BY <1>3 DEF p, q

LEMMA AgesAreNumbers ==
  ASSUME NEW s \in Seq(Age) PROVE Len(s) \in Nat /\ \A i \in 1 .. Len(s) : s[i] \in Nat
  BY LimitAssumption, LenProperties, ElementOfSeq DEF Age

LEMMA UptoIsFinite ==
  ASSUME NEW n \in Nat PROVE IsFiniteSet(1 .. n) /\ Cardinality(1 .. n) = n
<1>1. IsFiniteSet(1 .. n) /\ Cardinality(1 .. n) = IF 1 > n THEN 0 ELSE n - 1 + 1
  BY FS_Interval
<1>2. CASE n = 0
  BY <1>1, <1>2
<1>3. CASE n > 0
  BY <1>1, <1>3
<1>. QED
  BY <1>2, <1>3

(* There is room for the next one.                                          *)
LEMMA DequeHasRoom ==
  ASSUME PaceFitsLimit, NEW b \in Seq(Age), DequeSpaced(b), DequeWaits(b, 0)
  PROVE  ~Full(Pruned(b))
<1> DEFINE p == Pruned(b)
           q == Window \div Pace
           f == [i \in 1 .. Len(p) |-> p[i] \div Pace]
<1>0. /\ Pace \in Nat \ {0} /\ Window \in Nat /\ Limit \in Nat /\ q \in Nat /\ q + 1 <= Limit
  BY LimitAssumption, EvaluatorAssumption, Quotient DEF PaceFitsLimit
<1>1. /\ p \in Seq(Age) /\ Len(p) \in Nat /\ Len(b) \in Nat /\ Len(p) <= Len(b)
      /\ \A i \in 1 .. Len(p) : p[i] = b[Len(b) - Len(p) + i]
      /\ Len(p) > 0 => p[1] <= Window
      /\ \A i \in 1 .. Len(p) : p[i] \in Nat
  <2>1. \A i \in 1 .. Len(Pruned(b)) : Pruned(b)[i] \in Nat
    BY PrunedKeepsTheRest, AgesAreNumbers
  <2>. QED
    BY <2>1, PrunedKeepsTheRest, LenProperties
<1> HIDE DEF p, q
<1>2. ASSUME NEW i \in 1 .. Len(p), NEW j \in 1 .. Len(p), i < j
      PROVE  p[i] >= p[j] + Pace \/ p[i] > Window
  <2> DEFINE d == Len(b) - Len(p)
  <2>1. d + i \in 1 .. Len(b) /\ d + j \in 1 .. Len(b) /\ d + i < d + j
    BY <1>1, <1>2
  <2>2. b[d + i] >= b[d + j] + Pace \/ b[d + i] > Window
    BY <2>1 DEF DequeSpaced
  <2>. QED
    BY <1>1, <2>2
<1>3. ASSUME NEW i \in 1 .. Len(p) PROVE p[i] <= Window
  <2>1. CASE i = 1
    BY <1>1, <2>1
  <2>2. CASE i > 1
    <3>1. 1 \in 1 .. Len(p) /\ p[1] \in Nat /\ p[1] <= Window /\ p[i] \in Nat
      BY <1>1, <2>2
    <3>2. p[1] >= p[i] + Pace
      BY <1>0, <1>2, <2>2, <3>1
    <3>. QED
      BY <1>0, <3>1, <3>2
  <2>. QED
    BY <2>1, <2>2
<1>4. ASSUME NEW i \in 1 .. Len(p) PROVE p[i] >= Pace
  <2>1. Len(b) - Len(p) + i \in 1 .. Len(b) /\ p[i] = b[Len(b) - Len(p) + i] /\ p[i] \in Nat
    BY <1>1
  <2>2. p[i] + 0 >= Pace \/ p[i] > Window
    BY <2>1 DEF DequeWaits
  <2>. QED
    BY <1>0, <1>3, <2>1, <2>2
<1>5. f \in [1 .. Len(p) -> 1 .. q]
  <2>1. ASSUME NEW i \in 1 .. Len(p) PROVE p[i] \div Pace \in 1 .. q
    <3> DEFINE r == p[i] \div Pace
    <3>1. p[i] \in Nat /\ p[i] >= Pace /\ p[i] <= Window
      BY <1>1, <1>3, <1>4
    <3>2. r \in Nat /\ p[i] < Pace * r + Pace
      BY <1>0, <3>1, Quotient
    <3>3. r <= q
      BY <1>0, <3>1, QuotientGrows DEF q
    <3> HIDE DEF r
    <3>4. r # 0
      <4>1. r = 0 => Pace * r = 0
        BY <1>0
      <4>. QED
        BY <1>0, <3>1, <3>2, <4>1
    <3>5. r \in 1 .. q
      BY <1>0, <3>2, <3>3, <3>4
    <3>. QED
      BY <3>5 DEF r
  <2>. QED
    BY <2>1
<1>6. ASSUME NEW i \in 1 .. Len(p), NEW j \in 1 .. Len(p), i < j PROVE f[i] # f[j]
  <2>1. p[i] \in Nat /\ p[j] \in Nat /\ p[i] >= p[j] + Pace
    BY <1>0, <1>1, <1>2, <1>3, <1>6
  <2>. QED
    BY <1>0, <2>1, QuotientsApart
<1> HIDE DEF f
<1>7. ASSUME Len(p) >= Limit PROVE FALSE
  <2>1. /\ IsFiniteSet(1 .. Len(p)) /\ Cardinality(1 .. Len(p)) = Len(p)
        /\ IsFiniteSet(1 .. q) /\ Cardinality(1 .. q) = q
    BY <1>0, <1>1, UptoIsFinite
  <2>2. Cardinality(1 .. q) < Cardinality(1 .. Len(p))
    BY <1>0, <1>1, <1>7, <2>1
  <2>3. PICK i, j \in 1 .. Len(p) : i # j /\ f[i] = f[j]
    BY <1>5, <2>1, <2>2, FS_PigeonHole, Zenon
  <2>4. i < j \/ j < i
    BY <2>3
  <2>. QED
    BY <1>6, <2>3, <2>4
<1>. QED
  BY <1>7 DEF Full, p

LEMMA SetStaysSpaced ==
  ASSUME NEW z \in Members, Ordered(z), SetSpaced(z), SetWaits(z, 0)
  PROVE  /\ WithThisCheck(z) \in Members /\ Ordered(WithThisCheck(z))
         /\ SetSpaced(WithThisCheck(z))
<1> DEFINE y == WithThisCheck(z)
<1>0. /\ Pace \in Nat /\ Window \in Nat /\ Limit \in Nat
      /\ \A n \in 1 .. Limit + 1 : z[n] \in Nat
  BY LimitAssumption, EvaluatorAssumption DEF Members
<1>1. /\ y \in Members /\ Ordered(y) /\ y[1] = 0
      /\ \A n \in 2 .. Limit + 1 : y[n] = z[n - 1]
  BY WithThisCheckTyped
<1> HIDE DEF y
<1>2. ASSUME NEW m \in 1 .. Limit + 1, NEW n \in 1 .. Limit + 1, m < n
      PROVE  y[n] >= y[m] + Pace \/ y[n] >= Window
  <2>1. n \in 2 .. Limit + 1 /\ n - 1 \in 1 .. Limit + 1 /\ y[n] = z[n - 1]
    BY <1>0, <1>1, <1>2
  <2>2. CASE m = 1
    <3>1. z[n - 1] + 0 >= Pace \/ z[n - 1] >= Window
      BY <2>1 DEF SetWaits
    <3>. QED
      BY <1>0, <1>1, <2>1, <2>2, <3>1
  <2>3. CASE m # 1
    <3>1. m \in 2 .. Limit + 1 /\ m - 1 \in 1 .. Limit + 1 /\ m - 1 < n - 1 /\ y[m] = z[m - 1]
      BY <1>0, <1>1, <1>2, <2>3
    <3>. QED
      BY <2>1, <3>1 DEF SetSpaced
  <2>. QED
    BY <2>2, <2>3
<1>. QED
  BY <1>1, <1>2 DEF SetSpaced, y

LEMMA SetHasRoom ==
  ASSUME PaceFitsLimit, NEW z \in Members, Ordered(z), SetSpaced(z), SetWaits(z, 0)
  PROVE  ~Over(WithThisCheck(z))
<1> DEFINE y == WithThisCheck(z)
           q == Window \div Pace
           f == [n \in 1 .. Limit + 1 |-> y[n] \div Pace]
<1>0. /\ Pace \in Nat \ {0} /\ Window \in Nat /\ Limit \in Nat /\ q \in Nat /\ q + 1 <= Limit
  BY LimitAssumption, EvaluatorAssumption, Quotient DEF PaceFitsLimit
<1>1. /\ Ordered(y) /\ SetSpaced(y) /\ \A n \in 1 .. Limit + 1 : y[n] \in 0 .. Window
  BY SetStaysSpaced DEF Members
<1> HIDE DEF y
<1>2. SUFFICES ASSUME y[Limit + 1] < Window PROVE FALSE
  BY DEF Over, y
<1>3. ASSUME NEW n \in 1 .. Limit + 1 PROVE y[n] \in Nat /\ y[n] < Window
  <2>1. Limit + 1 \in 1 .. Limit + 1 /\ n <= Limit + 1
    BY <1>0
  <2>2. y[n] <= y[Limit + 1]
    BY <1>1, <2>1 DEF Ordered
  <2>. QED
    BY <1>0, <1>1, <1>2, <2>1, <2>2
<1>4. f \in [1 .. Limit + 1 -> 0 .. q]
  <2>1. ASSUME NEW n \in 1 .. Limit + 1 PROVE y[n] \div Pace \in 0 .. q
    <3>1. y[n] \in Nat /\ y[n] <= Window
      BY <1>0, <1>3
    <3>2. y[n] \div Pace \in Nat /\ y[n] \div Pace <= q
      BY <1>0, <3>1, Quotient, QuotientGrows
    <3>. QED
      BY <1>0, <3>2
  <2>. QED
    BY <2>1
<1>5. ASSUME NEW m \in 1 .. Limit + 1, NEW n \in 1 .. Limit + 1, m < n PROVE f[m] # f[n]
  <2>1. y[m] \in Nat /\ y[n] \in Nat /\ y[n] >= y[m] + Pace
    BY <1>0, <1>1, <1>3, <1>5 DEF SetSpaced
  <2>2. y[m] \div Pace # y[n] \div Pace
    BY <1>0, <2>1, QuotientsApart
  <2>. QED
    BY <2>2
<1> HIDE DEF q, f
<1>6. IsFiniteSet(0 .. q) /\ Cardinality(0 .. q) = q + 1
  BY <1>0, FS_Interval
<1>7. IsFiniteSet(1 .. Limit + 1) /\ Cardinality(1 .. Limit + 1) = Limit + 1
  BY <1>0, UptoIsFinite
<1>8. Cardinality(0 .. q) < Cardinality(1 .. Limit + 1)
  BY <1>0, <1>6, <1>7
<1>9. PICK m, n \in 1 .. Limit + 1 : m # n /\ f[m] = f[n]
  BY <1>4, <1>6, <1>7, <1>8, FS_PigeonHole, Zenon
<1>10. m < n \/ n < m
  BY <1>9
<1>. QED
  BY <1>5, <1>9, <1>10

------------------------------------------------------------------------------
(* What keeps the checks apart.                                             *)
LEMMA WaitsMore ==
  ASSUME NEW b \in Seq(Age), NEW z \in Members,
         NEW left \in Nat, NEW more \in Nat, left <= more, PacedOK(b, z, left)
  PROVE  PacedOK(b, z, more)
<1>0. /\ Pace \in Nat /\ Window \in Nat /\ \A n \in 1 .. Limit + 1 : z[n] \in Nat
      /\ Len(b) \in Nat /\ \A i \in 1 .. Len(b) : b[i] \in Nat
  BY LimitAssumption, EvaluatorAssumption, LenProperties, ElementOfSeq DEF Age, Members
<1>1. DequeWaits(b, more)
  BY <1>0 DEF PacedOK, DequeWaits
<1>2. SetWaits(z, more)
  BY <1>0 DEF PacedOK, SetWaits
<1>. QED
  BY <1>1, <1>2 DEF PacedOK

(* After a check there is a Pace left.                                      *)
LEMMA PaceIsLeft ==
  ASSUME NEW b \in Seq(Age), NEW z \in Members, DequeSpaced(b), SetSpaced(z)
  PROVE  PacedOK(b, z, Pace)
<1>0. /\ Pace \in Nat /\ Window \in Nat /\ \A n \in 1 .. Limit + 1 : z[n] \in Nat
      /\ Len(b) \in Nat /\ \A i \in 1 .. Len(b) : b[i] \in Nat
  BY LimitAssumption, EvaluatorAssumption, LenProperties, ElementOfSeq DEF Age, Members
<1>. QED
  BY <1>0 DEF PacedOK, DequeWaits, SetWaits

LEMMA DequeStaysSpaced ==
  ASSUME NEW b \in Seq(Age), DequeSpaced(b), DequeWaits(b, 0)
  PROVE  Append(Pruned(b), 0) \in Seq(Age) /\ DequeSpaced(Append(Pruned(b), 0))
<1> DEFINE p == Pruned(b)
           a == Append(p, 0)
<1>0. Pace \in Nat /\ Window \in Nat /\ 0 \in Age
  BY LimitAssumption, EvaluatorAssumption DEF Age
<1>1. /\ p \in Seq(Age) /\ Len(p) \in Nat /\ Len(b) \in Nat /\ Len(p) <= Len(b)
      /\ \A i \in 1 .. Len(p) : p[i] = b[Len(b) - Len(p) + i]
  BY PrunedKeepsTheRest, LenProperties
<1>2. /\ a \in Seq(Age) /\ Len(a) = Len(p) + 1
      /\ \A i \in 1 .. Len(p) : a[i] = p[i]
      /\ a[Len(p) + 1] = 0
  BY <1>0, <1>1, AppendProperties
<1>3. \A i \in 1 .. Len(p) : p[i] \in Nat
  BY <1>1, AgesAreNumbers
<1> HIDE DEF p, a
<1>4. ASSUME NEW i \in 1 .. Len(a), NEW j \in 1 .. Len(a), i < j
      PROVE  a[i] >= a[j] + Pace \/ a[i] > Window
  <2> DEFINE d == Len(b) - Len(p)
  <2>0. /\ i \in 1 .. Len(p) /\ d + i \in 1 .. Len(b) /\ a[i] = p[i] /\ p[i] = b[d + i]
        /\ p[i] \in Nat
    BY <1>1, <1>2, <1>3, <1>4
  <2>1. CASE j = Len(p) + 1
    <3>1. b[d + i] + 0 >= Pace \/ b[d + i] > Window
      BY <2>0 DEF DequeWaits
    <3>2. a[j] = 0
      BY <1>2, <2>1
    <3>3. b[d + i] >= Pace \/ b[d + i] > Window
      BY <1>0, <2>0, <3>1
    <3>. QED
      BY <1>0, <2>0, <3>2, <3>3
  <2>2. CASE j # Len(p) + 1
    <3>1. j \in 1 .. Len(p) /\ d + j \in 1 .. Len(b) /\ a[j] = p[j] /\ p[j] = b[d + j] /\ d + i < d + j
      <4>1. j \in 1 .. Len(p)
        BY <1>1, <1>2, <2>2
      <4>2. d + j \in 1 .. Len(b) /\ d + i < d + j
        BY <1>1, <1>4, <2>0, <4>1
      <4>. QED
        BY <1>1, <1>2, <4>1, <4>2
    <3>2. b[d + i] >= b[d + j] + Pace \/ b[d + i] > Window
      BY <2>0, <3>1 DEF DequeSpaced
    <3>. QED
      BY <2>0, <3>1, <3>2
  <2>. QED
    BY <2>1, <2>2
<1>5. DequeSpaced(a)
  BY <1>4 DEF DequeSpaced
<1>. QED
  BY <1>2, <1>5 DEF a, p

LEMMA TickKeepsPaced ==
  ASSUME NEW b \in Seq(Age), NEW z \in Members,
         NEW left \in Nat, NEW less \in Nat, left <= less + 1, PacedOK(b, z, left),
         NEW c, c = [i \in DOMAIN b |-> Older(b[i], Window + 1)], c \in Seq(Age),
         NEW y, y = [n \in 1 .. Limit + 1 |-> Older(z[n], Window)]
  PROVE  PacedOK(c, y, less)
<1>0. /\ Pace \in Nat \ {0} /\ Window \in Nat /\ \A n \in 1 .. Limit + 1 : z[n] \in 0 .. Window
      /\ Len(b) \in Nat /\ DOMAIN b = 1 .. Len(b) /\ \A i \in 1 .. Len(b) : b[i] \in Age
  BY LimitAssumption, EvaluatorAssumption, LenProperties, ElementOfSeq DEF Members
<1>1. Len(c) = Len(b) /\ \A i \in 1 .. Len(b) : c[i] = Older(b[i], Window + 1)
  <2>1. DOMAIN c = 1 .. Len(c) /\ Len(c) \in Nat /\ DOMAIN c = 1 .. Len(b)
    BY <1>0, LenProperties
  <2>. QED
    BY <1>0, <2>1, SameInterval
<1>2. DequeSpaced(b) /\ SetSpaced(z) /\ DequeWaits(b, left) /\ SetWaits(z, left)
  BY DEF PacedOK
<1>3. DequeSpaced(c)
  <2> SUFFICES ASSUME NEW i \in 1 .. Len(b), NEW j \in 1 .. Len(b), i < j
               PROVE  c[i] >= c[j] + Pace \/ c[i] > Window
    BY <1>1 DEF DequeSpaced
  <2>1. b[i] >= b[j] + Pace \/ b[i] > Window
    BY <1>2 DEF DequeSpaced
  <2>2. /\ b[i] \in 0 .. Window + 1 /\ b[j] \in 0 .. Window + 1
        /\ c[i] = IF b[i] < Window + 1 THEN b[i] + 1 ELSE Window + 1
        /\ c[j] = IF b[j] < Window + 1 THEN b[j] + 1 ELSE Window + 1
    BY <1>0, <1>1 DEF Older, Age
  <2>. QED
    BY <1>0, <2>1, <2>2
<1>4. DequeWaits(c, less)
  <2> SUFFICES ASSUME NEW i \in 1 .. Len(b) PROVE c[i] + less >= Pace \/ c[i] > Window
    BY <1>1 DEF DequeWaits
  <2>1. b[i] + left >= Pace \/ b[i] > Window
    BY <1>2 DEF DequeWaits
  <2>2. b[i] \in 0 .. Window + 1 /\ c[i] = IF b[i] < Window + 1 THEN b[i] + 1 ELSE Window + 1
    BY <1>0, <1>1 DEF Older, Age
  <2>. QED
    BY <1>0, <2>1, <2>2
<1>o. \A n \in 1 .. Limit + 1 : y[n] = IF z[n] < Window THEN z[n] + 1 ELSE Window
  BY DEF Older
<1>5. SetSpaced(y)
  <2> SUFFICES ASSUME NEW m \in 1 .. Limit + 1, NEW n \in 1 .. Limit + 1, m < n
               PROVE  y[n] >= y[m] + Pace \/ y[n] >= Window
    BY DEF SetSpaced
  <2>1. z[n] >= z[m] + Pace \/ z[n] >= Window
    BY <1>2 DEF SetSpaced
  <2>. QED
    BY <1>0, <1>o, <2>1
<1>6. SetWaits(y, less)
  <2> SUFFICES ASSUME NEW n \in 1 .. Limit + 1 PROVE y[n] + less >= Pace \/ y[n] >= Window
    BY DEF SetWaits
  <2>1. z[n] + left >= Pace \/ z[n] >= Window
    BY <1>2 DEF SetWaits
  <2>. QED
    BY <1>0, <1>o, <2>1
<1>. QED
  BY <1>3, <1>4, <1>5, <1>6 DEF PacedOK

------------------------------------------------------------------------------
LEMMA InitUnhindered == EvaluationInit => Unhindered
<1> SUFFICES ASSUME EvaluationInit PROVE Unhindered
  OBVIOUS
<1> DEFINE z == zset[DemoKey]
<1>1. /\ bucket[DemoKey] = <<>> /\ verdict[DemoKey] = "none"
      /\ \A n \in 1 .. Limit + 1 : z[n] = Window
  BY EvaluatorAssumption DEF EvaluationInit, Init
<1>2. Len(<<>>) = 0 /\ Window >= Window
  BY LimitAssumption
<1> HIDE DEF z
<1>3. PacedOK(<<>>, z, Left)
  BY <1>1, <1>2 DEF PacedOK, DequeSpaced, SetSpaced, DequeWaits, SetWaits
<1>. QED
  BY <1>1, <1>3 DEF Unhindered, z

LEMMA LeftTyped == ASSUME RunOK PROVE Left \in Nat
<1>1. eval.timer \in Nat /\ Pace \in Nat
  BY TimerBound, EvaluatorAssumption DEF RunOK, RunTyped
<1>. QED
  BY <1>1 DEF Left

(* A call of an evaluation that is alone is let through.                    *)
LEMMA PostKeepsUnhindered ==
  ASSUME PaceFitsLimit, IInv, RunOK, Unhindered, alone, Post PROVE Unhindered'
<1> DEFINE b == bucket[DemoKey]
           z == zset[DemoKey]
<1>0. /\ eval.pc = "posting" /\ DemoKey \in Key /\ redis \in BOOLEAN
      /\ b \in Seq(Age) /\ z \in Members /\ Ordered(z)
      /\ bucket \in [Key -> Seq(Age)] /\ zset \in [Key -> Members]
      /\ verdict \in [Key -> Verdict]
  BY EvaluatorAssumption DEF Post, IInv, KeyOK, KeyTyped
<1>1. DequeSpaced(b) /\ SetSpaced(z) /\ DequeWaits(b, 0) /\ SetWaits(z, 0)
  BY <1>0 DEF Unhindered, PacedOK, Left
<1>2. ~Full(Pruned(b)) /\ ~Over(WithThisCheck(z))
  BY <1>0, <1>1, DequeHasRoom, SetHasRoom
<1>3. /\ Append(Pruned(b), 0) \in Seq(Age) /\ DequeSpaced(Append(Pruned(b), 0))
      /\ WithThisCheck(z) \in Members /\ SetSpaced(WithThisCheck(z))
  BY <1>0, <1>1, DequeStaysSpaced, SetStaysSpaced
(* After the call a Pace is left, since it waits for its answer or is over. *)
<1>4. ASSUME eval'.pc \in {"waiting", "aborted"},
             bucket'[DemoKey] \in {b, Append(Pruned(b), 0)},
             zset'[DemoKey] \in {z, WithThisCheck(z)},
             verdict'[DemoKey] # "refused"
      PROVE  Unhindered'
  <2>1. Left' = Pace
    BY <1>4 DEF Left
  <2>2. bucket'[DemoKey] \in Seq(Age) /\ DequeSpaced(bucket'[DemoKey])
    BY <1>0, <1>1, <1>3, <1>4
  <2>3. zset'[DemoKey] \in Members /\ SetSpaced(zset'[DemoKey])
    BY <1>0, <1>1, <1>3, <1>4
  <2>4. PacedOK(bucket'[DemoKey], zset'[DemoKey], Pace)
    BY <2>2, <2>3, PaceIsLeft
  <2>. QED
    BY <1>4, <2>1, <2>4 DEF Unhindered
<1>e. /\ eval' = [eval EXCEPT !.pc = "waiting"] => eval'.pc = "waiting"
      /\ Aborts => eval'.pc = "aborted"
  BY DEF RunOK, RunTyped, Aborts
<1>5. CASE MemoryAdmits(DemoKey)
  <2>1. /\ bucket'[DemoKey] = Append(Pruned(b), 0) /\ zset'[DemoKey] = z
        /\ verdict'[DemoKey] = "admitted" /\ redis = FALSE
    BY <1>0, <1>5 DEF MemoryAdmits, Say
  <2>2. eval' = [eval EXCEPT !.pc = "waiting"]
    BY <1>2, <2>1 DEF Post, MemoryRefuses, RedisChecks, RedisFails
  <2>. QED
    BY <1>4, <1>e, <2>1, <2>2
<1>6. CASE MemoryRefuses(DemoKey)
  BY <1>2, <1>6 DEF MemoryRefuses
<1>7. CASE RedisChecks(DemoKey)
  <2>1. /\ bucket'[DemoKey] = b /\ zset'[DemoKey] = WithThisCheck(z)
        /\ verdict'[DemoKey] = "admitted" /\ redis = TRUE
    BY <1>0, <1>2, <1>7 DEF RedisChecks, Say
  <2>2. eval'.pc \in {"waiting", "aborted"}
    BY <1>e, <2>1 DEF Post, MemoryRefuses
  <2>. QED
    BY <1>4, <2>1, <2>2
<1>8. CASE RedisFails(DemoKey)
  <2>1. /\ bucket'[DemoKey] = b /\ zset'[DemoKey] \in {z, WithThisCheck(z)}
        /\ verdict'[DemoKey] = "error" /\ redis = TRUE
    BY <1>0, <1>8 DEF RedisFails, Say
  <2>2. eval'.pc \in {"waiting", "aborted"}
    BY <1>e, <2>1 DEF Post, MemoryRefuses
  <2>. QED
    BY <1>4, <2>1, <2>2
<1>. QED
  BY <1>5, <1>6, <1>7, <1>8 DEF Post

(* A step that does not reach the limiter and takes nothing from what is    *)
(* left of the Pace.                                                        *)
LEMMA StaysUnhindered ==
  ASSUME PaceFitsLimit, IInv, RunOK, Unhindered, alone,
         bucket'[DemoKey] = bucket[DemoKey], zset'[DemoKey] = zset[DemoKey],
         verdict'[DemoKey] # "refused", Left' \in Nat, Left <= Left'
  PROVE  Unhindered'
<1>1. bucket[DemoKey] \in Seq(Age) /\ zset[DemoKey] \in Members /\ Left \in Nat
  BY EvaluatorAssumption, LeftTyped DEF IInv
<1>2. PacedOK(bucket[DemoKey], zset[DemoKey], Left)
  BY DEF Unhindered
<1>3. PacedOK(bucket[DemoKey], zset[DemoKey], Left')
  BY <1>1, <1>2, WaitsMore
<1>. QED
  BY <1>3 DEF Unhindered

LEMMA StepKeepsUnhindered ==
  IInv /\ IInv' /\ RunOK /\ RunOK' /\ Unhindered /\ [EvaluationNext]_allVars => Unhindered'
<1> SUFFICES ASSUME IInv, IInv', RunOK, RunOK', Unhindered, [EvaluationNext]_allVars,
                    PaceFitsLimit, alone'
             PROVE  Unhindered'
  BY DEF Unhindered
<1>0. /\ RunTyped /\ DemoKey \in Key /\ Pace \in Nat /\ Left \in Nat /\ Left' \in Nat
      /\ verdict[DemoKey] \in Verdict /\ eval.timer \in Nat
  <2>1. Left' \in Nat
    <3>1. (eval.timer)' \in Nat /\ Pace \in Nat
      BY TimerBound, EvaluatorAssumption DEF RunOK, RunTyped
    <3>. QED
      BY <3>1 DEF Left
  <2>. QED
    BY <2>1, LeftTyped, EvaluatorAssumption, TimerBound DEF RunOK, RunTyped, IInv
<1>a. alone
  BY DEF EvaluationNext, Evaluate, Post, Answered, RefusedForBudget, CallFails, Retry, Paced, Report,
         Others, TimePasses, GatewayRestarts, evalVars, allVars
<1>v. verdict[DemoKey] # "refused" /\ PacedOK(bucket[DemoKey], zset[DemoKey], Left)
  BY <1>a DEF Unhindered
<1>1. CASE Post
  BY <1>1, <1>a, PostKeepsUnhindered
<1>2. CASE Answered
  <2>1. Left = Pace /\ Left' = Pace /\ UNCHANGED <<bucket, zset, verdict>>
    BY <1>0, <1>2 DEF Answered, PaceAfter, Left, RunTyped
  <2>. QED
    BY <1>0, <1>a, <1>v, <2>1, StaysUnhindered
<1>3. CASE RefusedForBudget
  <2>1. /\ Left = Pace /\ UNCHANGED <<bucket, zset, verdict>> /\ BacksOff
        /\ eval.attempt \in Nat /\ eval.attempt < Attempts
    BY <1>0, <1>3, EvaluatorAssumption DEF RefusedForBudget, Left, RunTyped, Trying
  <2>2. Left' = BackOff * (eval.attempt + 1)
    BY <1>0, <2>1, BacksOffTo DEF Left
  <2>3. BackOff * (eval.attempt + 1) >= Pace
    BY <2>1, BacksOffInBounds DEF PaceFitsLimit
  <2>4. Left <= Left'
    BY <1>0, <2>1, <2>2, <2>3
  <2>. QED
    BY <1>0, <1>a, <1>v, <2>1, <2>4, StaysUnhindered
<1>4. CASE CallFails
  <2>1. Left = Pace /\ UNCHANGED <<bucket, zset, verdict>> /\ Aborts
    BY <1>4 DEF CallFails, Left
  <2>2. Left' = Pace
    BY <1>0, <2>1 DEF Aborts, Left, RunTyped
  <2>. QED
    BY <1>0, <1>a, <1>v, <2>1, <2>2, StaysUnhindered
<1>5. CASE Retry \/ Paced \/ Report
  <2>1. Left = 0 /\ UNCHANGED <<bucket, zset, verdict>>
    BY <1>5 DEF Retry, Paced, Report, Left
  <2>2. Left <= Left'
    BY <1>0, <2>1
  <2>. QED
    BY <1>0, <1>a, <1>v, <2>1, <2>2, StaysUnhindered
<1>6. CASE Others
  <2>1. PICK k \in Key : k # DemoKey /\ Check(k)
    BY <1>6, <1>a DEF Others
  <2>2. /\ bucket'[DemoKey] = bucket[DemoKey] /\ zset'[DemoKey] = zset[DemoKey]
        /\ verdict'[DemoKey] = verdict[DemoKey]
    <3>1. CASE MemoryAdmits(k)
      BY <1>0, <2>1, <3>1 DEF MemoryAdmits, Say, IInv
    <3>2. CASE MemoryRefuses(k)
      BY <1>0, <2>1, <3>2 DEF MemoryRefuses, Say, IInv
    <3>3. CASE RedisChecks(k)
      BY <1>0, <2>1, <3>3 DEF RedisChecks, Say, IInv
    <3>4. CASE RedisFails(k)
      BY <1>0, <2>1, <3>4 DEF RedisFails, Say, IInv
    <3>. QED
      BY <2>1, <3>1, <3>2, <3>3, <3>4 DEF Check
  <2>3. Left' = Left
    BY <1>6 DEF Others, evalVars, Left
  <2>. QED
    BY <1>0, <1>a, <1>v, <2>2, <2>3, StaysUnhindered
<1>7. CASE TimePasses
  <2> DEFINE b == bucket[DemoKey]
             z == zset[DemoKey]
  <2>1. /\ bucket'[DemoKey] = [i \in DOMAIN b |-> Older(b[i], Window + 1)]
        /\ zset'[DemoKey] = [n \in 1 .. Limit + 1 |-> Older(z[n], Window)]
        /\ verdict'[DemoKey] = "none"
    BY <1>0, <1>7 DEF TimePasses, Tick
  <2>2. b \in Seq(Age) /\ z \in Members /\ bucket'[DemoKey] \in Seq(Age)
    BY <1>0 DEF IInv
  <2>3. Left <= Left' + 1
    <3>1. /\ eval'.pc = eval.pc
          /\ eval'.timer = IF eval.timer > 0 THEN eval.timer - 1 ELSE 0
      BY <1>0, <1>7 DEF TimePasses, RunTyped
    <3>. QED
      BY <1>0, <3>1 DEF Left
  <2> HIDE DEF b, z
  <2>4. PacedOK(bucket'[DemoKey], zset'[DemoKey], Left')
    BY <1>0, <1>v, <2>1, <2>2, <2>3, TickKeepsPaced DEF b, z
  <2>. QED
    BY <2>1, <2>4 DEF Unhindered
<1>8. CASE GatewayRestarts
  <2>1. bucket'[DemoKey] = <<>> /\ zset' = zset /\ verdict'[DemoKey] = "none"
    BY <1>0, <1>8 DEF GatewayRestarts, Restart
  <2>2. Left <= Left'
    <3>1. CASE eval.pc = "waiting"
      <4>1. eval'.pc = "aborted"
        BY <1>0, <1>8, <3>1 DEF GatewayRestarts, RunTyped
      <4>. QED
        BY <1>0, <3>1, <4>1 DEF Left
    <3>2. CASE eval.pc # "waiting"
      <4>1. eval' = eval
        BY <1>8, <3>2 DEF GatewayRestarts
      <4>. QED
        BY <1>0, <4>1 DEF Left
    <3>. QED
      BY <3>1, <3>2
  <2>3. <<>> \in Seq(Age) /\ zset[DemoKey] \in Members /\ Len(<<>>) = 0
    BY <1>0, EmptySeq DEF IInv
  <2>4. PacedOK(<<>>, zset[DemoKey], Left)
    BY <1>v, <2>3 DEF PacedOK, DequeSpaced, DequeWaits
  <2>5. PacedOK(<<>>, zset[DemoKey], Left')
    BY <1>0, <2>2, <2>3, <2>4, WaitsMore
  <2>. QED
    BY <2>1, <2>5 DEF Unhindered
<1>9. CASE UNCHANGED allVars
  <2>1. UNCHANGED <<bucket, zset, verdict, eval>>
    BY <1>9 DEF allVars
  <2>. QED
    BY <1>a, <2>1 DEF Unhindered, Left
<1>. QED
  BY <1>1, <1>2, <1>3, <1>4, <1>5, <1>6, <1>7, <1>8, <1>9 DEF EvaluationNext, Evaluate

(* Where the limit leaves room for its pace, an evaluation whose key nobody *)
(* else uses is never refused by the limiter, however long it runs and      *)
(* whatever else is refused or fails (evaluator.py: the pause after every   *)
(* call, the longer one after a 429).                                       *)
THEOREM AloneIsNeverRefused == EvaluationSpec => []AloneIsAdmitted
<1>1. EvaluationSpec => []IInv
  BY LimiterIsUsedByChecks, IInvHolds, PTL
<1>2. EvaluationSpec => []RunOK
  BY InitRunOK, StepKeepsRunOK, PTL DEF EvaluationSpec
<1>3. Unhindered => AloneIsAdmitted
  BY DEF Unhindered, AloneIsAdmitted
<1>. QED
  BY <1>1, <1>2, <1>3, InitUnhindered, StepKeepsUnhindered, PTL DEF EvaluationSpec
==============================================================================
