------------------------------ MODULE MCElectrs ------------------------------
(***************************************************************************)
(* Instance of Electrs for TLC.                                            *)
(***************************************************************************)
EXTENDS Electrs
=============================================================================
