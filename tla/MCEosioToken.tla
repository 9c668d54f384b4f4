---------------------------- MODULE MCEosioToken ----------------------------
(***************************************************************************)
(* Three names of which two are accounts: a name can own an empty row that *)
(* somebody else pays for, or be named issuer, without being an account.   *)
(***************************************************************************)
EXTENDS EosioToken

MCExisting == {1, 2}
MCAmounts == {-1, 0, 1, 2}
=============================================================================
