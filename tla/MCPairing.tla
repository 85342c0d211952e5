------------------------------ MODULE MCPairing ------------------------------
(***************************************************************************)
(* Instance of Pairing for TLC: two wallets, the clock set to any of       *)
(* 0..MaxTime before every operation.                                      *)
(***************************************************************************)
EXTENDS Pairing
=============================================================================
