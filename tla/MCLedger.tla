------------------------------- MODULE MCLedger -------------------------------
(***************************************************************************)
(* Small instances of Ledger.  The spend of downgraded requests has no     *)
(* bound in "downgrade" mode; SpendCap bounds the states explored there.   *)
(***************************************************************************)
EXTENDS Ledger, TLC

CONSTANT SpendCap

SpendCapped == full + cheap + older <= SpendCap

RequestSymmetry == Permutations(Request)
==============================================================================
