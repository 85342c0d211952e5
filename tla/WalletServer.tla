----------------------------- MODULE WalletServer -----------------------------
(***************************************************************************)
(* What a server promises to wallets.  A key is a wallet and a server that *)
(* may serve it: the wallets of one server in NomadServer.tla, which is    *)
(* shown to keep these promises, and the servers of one wallet in          *)
(* Wallet.tla, which relies on nothing else.                               *)
(*                                                                         *)
(* The server serves only wallets that proved they had seen its QR; it     *)
(* changes what it holds of a wallet only as that wallet asked, or when it *)
(* drops the wallet; it answers "ok" only to what it has carried out; and  *)
(* a restart brings back nothing else than what was last answered "ok".    *)
(* What it holds after an answer that was an error is open until then.     *)
(***************************************************************************)
CONSTANTS Keys, Addresses

VARIABLES
    paired,     \* the keys served
    watch,      \* of each key, the watch set
    granted,    \* history: keys that ever gave a valid proof
    asked,      \* history: watch sets asked for
    unsure,     \* keys whose pairing a restart may change
    vague,      \* keys whose watch set a restart may change
    promised    \* what was answered "ok", as far as the answer is not lost

contractVars == <<paired, watch, granted, asked, unsure, vague, promised>>

Promise(k, type, addrs) == [key |-> k, type |-> type, addrs |-> addrs]

Init ==
    /\ paired = {} /\ granted = {} /\ asked = {}
    /\ watch = [k \in Keys |-> {}]
    /\ unsure = {} /\ vague = {} /\ promised = {}

\* Request `type` of key k is carried out and, if ok, is on disk.
Carry(k, type, addrs, ok) ==
    \/ /\ type = "pair" /\ k \in granted'
       /\ paired' = paired \cup {k}
       /\ unsure' = IF ok THEN unsure \ {k} ELSE unsure \cup {k}
       /\ UNCHANGED <<watch, vague>>
    \/ /\ type = "unpair" /\ ok
       /\ paired' = paired \ {k}
       /\ watch' = [watch EXCEPT ![k] = {}]
       /\ unsure' = unsure \ {k}
       /\ vague' \in {vague, vague \cup {k}, vague \ {k}}
    \/ /\ type = "watch" /\ k \in granted' /\ [key |-> k, addrs |-> addrs] \in asked'
       /\ watch' = [watch EXCEPT ![k] = addrs]
       /\ vague' = IF ok THEN vague \ {k} ELSE vague \cup {k}
       /\ UNCHANGED <<paired, unsure>>
    \/ /\ type = "read" /\ k \in granted'
       /\ UNCHANGED <<paired, watch, unsure, vague>>

\* Key k is dropped: revoked, or its unpair has got half-way.
Drop(k) ==
    /\ paired' = paired \ {k}
    /\ unsure' \in {unsure, unsure \cup {k}, unsure \ {k}}
    /\ UNCHANGED <<watch, vague>>

\* The server restarts and finds what it saved last.
Reload ==
    /\ paired' \in SUBSET granted
    /\ \A k \in Keys \ unsure : k \in paired' <=> k \in paired
    /\ watch' \in [Keys -> {{}} \cup {x.addrs : x \in asked}]
    /\ \A k \in Keys : watch'[k] = {} \/ [key |-> k, addrs |-> watch'[k]] \in asked
    /\ \A k \in Keys \ vague : watch'[k] = watch[k]
    /\ UNCHANGED <<unsure, vague>>

\* A proof is checked, a request is made, an answer is lost.
Other == UNCHANGED <<paired, watch, unsure, vague>>

Next ==
    /\ granted \subseteq granted' /\ asked \subseteq asked'
    /\ \/ \E k \in Keys, type \in {"pair", "unpair", "watch", "read"},
             addrs \in SUBSET Addresses :
             \/ Carry(k, type, addrs, TRUE) /\ promised' \subseteq promised \cup {Promise(k, type, addrs)}
             \/ Carry(k, type, addrs, FALSE) /\ promised' \subseteq promised
       \/ (\E k \in Keys : Drop(k)) /\ promised' \subseteq promised
       \/ Reload /\ promised' \subseteq promised
       \/ Other /\ promised' \subseteq promised

Spec == Init /\ [][Next]_contractVars
=============================================================================
