--------------------------- MODULE MCCircuitBreaker ---------------------------
(***************************************************************************)
(* Small instances of CircuitBreaker: its constants get their values in    *)
(* the configuration.                                                      *)
(***************************************************************************)
EXTENDS CircuitBreaker
==============================================================================
