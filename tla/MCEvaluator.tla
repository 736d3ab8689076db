---------------------------- MODULE MCEvaluator ----------------------------
(***************************************************************************)
(* Small instances of Evaluator and the RateLimiter under it.  Ticks are   *)
(* coarse: a Pace is 2 of the 3 in a window.  Two calls that are a Pace    *)
(* apart use up the limit in memory (ages 0 and 2, and up to 3 they count) *)
(* and in Redis (ages 0 and 2), and a third check exceeds it.              *)
(***************************************************************************)
EXTENDS Evaluator

MCSimple == {1}
============================================================================
