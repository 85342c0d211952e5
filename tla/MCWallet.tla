------------------------------ MODULE MCWallet ------------------------------
(***************************************************************************)
(* Instances of Wallet for TLC.                                            *)
(***************************************************************************)
EXTENDS Wallet

FirstServer  == CHOOSE s \in Servers : TRUE
FirstAddress == CHOOSE a \in Addresses : TRUE

\* The addresses that anything in the app, on the relays or at a server names.
Named == store.targets \cup UNION {x.addrs : x \in tasks \cup wire \cup asserted}

\* Servers are alike until the first coroutine, and addresses until one of them
\* is named: of the behaviours that differ only in which server or address comes
\* first, one is explored.  Only the user's taps name either, and no fairness
\* is assumed of them.
OneOfAlike ==
    /\ started = 0 => \A t \in tasks' : t.server = FirstServer
    /\ Named = {} => store'.targets \subseteq {FirstAddress}
=============================================================================
