------------------------------ MODULE MCStorage ------------------------------
(***************************************************************************)
(* Small instances of Storage: its constants get their values in the       *)
(* configuration.                                                          *)
(***************************************************************************)
EXTENDS Storage
==============================================================================
