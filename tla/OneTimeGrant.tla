---------------------------- MODULE OneTimeGrant ----------------------------
(***************************************************************************)
(* What the pairing secret promises, with no clock, no attempt counter and *)
(* no QR code: at any moment at most one secret is open; an open secret    *)
(* can be withdrawn, replaced by a new one, or granted to one wallet,      *)
(* which closes it for good.                                               *)
(***************************************************************************)
EXTENDS Naturals

CONSTANTS Wallets, MaxSecrets

VARIABLES
    open,       \* the secret a wallet may still claim, 0 when there is none
    used_up,    \* how many secrets were ever handed out
    grants      \* the pairs <<secret, wallet>> granted so far

vars == <<open, used_up, grants>>

Init == open = 0 /\ used_up = 0 /\ grants = {}

\* A new secret takes the place of whatever was open.
Issue == /\ used_up < MaxSecrets
         /\ used_up' = used_up + 1
         /\ open' = used_up'
         /\ UNCHANGED grants

\* The open secret is granted to one wallet and closed by the same step.
Grant == /\ open # 0
         /\ \E w \in Wallets : grants' = grants \cup {<<open, w>>}
         /\ open' = 0
         /\ UNCHANGED used_up

\* The open secret is closed without a grant: burned or forgotten.
Withdraw == open # 0 /\ open' = 0 /\ UNCHANGED <<used_up, grants>>

Next == Issue \/ Grant \/ Withdraw

Spec == Init /\ [][Next]_vars
=============================================================================
