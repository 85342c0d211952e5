------------------------------ MODULE MCQueries ------------------------------
(***************************************************************************)
(* Instance of Queries for TLC: transaction 1 pays the first address,      *)
(* transaction 2 spends that and pays both.                                *)
(***************************************************************************)
EXTENDS Queries

CONSTANTS a1, a2

\* None, one, one twice, both, and too many.
MCAddressLists == {<<>>, <<a1>>, <<a1, a1>>, <<a2, a1>>, <<a1, a2, a1>>}
MCTxLists      == {<<>>, <<1>>, <<2>>, <<2, 2>>, <<1, 2, 1>>}

MCOutputs == {"coin", "change", "gift"}
MCMaker   == [o \in MCOutputs |-> CASE o = "coin" -> 1 [] OTHER -> 2]
MCOwner   == [o \in MCOutputs |-> IF o = "gift" THEN a2 ELSE a1]
MCSpender == [o \in MCOutputs |-> IF o = "coin" THEN 2 ELSE None]
MCValue   == [o \in MCOutputs |-> CASE o = "coin" -> 5 [] o = "change" -> 3 [] OTHER -> 1]
MCRates   == {-1, 2}
=============================================================================
