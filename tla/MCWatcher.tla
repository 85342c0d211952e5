------------------------------ MODULE MCWatcher ------------------------------
(***************************************************************************)
(* Instances of Watcher for TLC: a transaction that touches two addresses  *)
(* and one that touches the second only; watch sets with the first address *)
(* only, with both and with none.                                          *)
(***************************************************************************)
EXTENDS Watcher

CONSTANTS a1, a2, t1, t2

MCOffered == {{}, {a1}, {a1, a2}}
MCTouched == [tx \in Txs |-> IF tx = t1 THEN {a1, a2} ELSE {a2}]
=============================================================================
