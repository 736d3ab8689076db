------------------------------ MODULE Complexity ------------------------------
(***************************************************************************)
(* How complex a prompt is taken to be: estimate_complexity and the bands  *)
(* of decide_route (src/app/gateway/router.py).                            *)
(*                                                                         *)
(* A prompt is what the estimate looks at: its tokens, whether it shows    *)
(* code, whether it holds a question mark.  The score, a float between 0   *)
(* and 1, is counted in ten-thousandths, where 0.6 * tokens / 500 is       *)
(* 12 * tokens: all of the code's bounds are whole numbers there.  (In     *)
(* floating point the sums 0.6 + 0.1 and 0.3 + 0.1 that meet a bound are   *)
(* exact enough to fall on the same side.)                                 *)
(***************************************************************************)
EXTENDS Integers

CONSTANT MaxTokens      \* the longest prompt

ASSUME MaxTokensAssumption == MaxTokens \in Nat

Features == [tokens : 0 .. MaxTokens, code : BOOLEAN, question : BOOLEAN]

------------------------------------------------------------------------------
(* A mutant: a slip in decide_route.                                        *)
ComplexFromBound(score) == score >= 7000

------------------------------------------------------------------------------
LengthScore(tokens) == IF tokens < 500 THEN 12 * tokens ELSE 6000
CodeScore(f) == IF f.code THEN 3000 ELSE 0
QuestionScore(f) == IF f.question THEN 1000 ELSE 0

(* The parts add up to 10000 at most: min(1.0, ...) changes nothing.        *)
Score(f) == LengthScore(f.tokens) + CodeScore(f) + QuestionScore(f)

IsSimple(score) == score < 4000
IsComplex(score) == score > 7000

Level == {"simple", "moderate", "complex"}

LevelOf(f) ==
    IF IsSimple(Score(f)) THEN "simple"
    ELSE IF IsComplex(Score(f)) THEN "complex"
    ELSE "moderate"

==============================================================================
