------------------------------ MODULE MCFallback ------------------------------
(***************************************************************************)
(* Small instances of Fallback: its constants get their values in the      *)
(* configuration.                                                          *)
(***************************************************************************)
EXTENDS Fallback
==============================================================================
