------------------------------ MODULE MCProviders ------------------------------
(***************************************************************************)
(* Small instances of Providers: its constants get their values in the     *)
(* configurations.                                                         *)
(***************************************************************************)
EXTENDS Providers
==============================================================================
