---------------------------- MODULE MCLedgerChain ----------------------------
(***************************************************************************)
(* Instances of LedgerChain for TLC.                                       *)
(***************************************************************************)
EXTENDS LedgerChain
=============================================================================
