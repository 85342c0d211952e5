------------------------------- MODULE Pairing -------------------------------
(***************************************************************************)
(* server/src/pairing.rs: the PairingManager, which owns the one-time      *)
(* secret inside the pairing QR.                                           *)
(*                                                                         *)
(* The 32 random bytes of a secret are abstracted to the number of the     *)
(* draw (1, 2, ...), so no two draws are equal; an HMAC proof is           *)
(* abstracted to the secret and the wallet key it was computed from, and   *)
(* matches exactly when both are the verifier's (0 is the secret of a      *)
(* proof that decodes to nothing).  The wall clock is an INPUT of every    *)
(* operation: callers read it before they take the lock, and it can be     *)
(* set back, so successive values come in any order.                       *)
(***************************************************************************)
EXTENDS Integers, FiniteSets

CONSTANTS
    Wallets,        \* wallet public keys
    SecretTTL,      \* SECRET_TTL_SECS
    MaxAttempts,    \* MAX_ATTEMPTS
    MaxTime,        \* bound: clock readings are 0..MaxTime
    MaxSecrets,     \* bound: how many secrets are ever drawn
    None            \* Option::None

ASSUME PairingAssumption ==
    /\ SecretTTL \in Nat \ {0}
    /\ MaxAttempts \in Nat \ {0}
    /\ MaxTime \in Nat
    /\ MaxSecrets \in Nat

Times == 0..MaxTime
Secrets == 1..MaxSecrets

SecretState == [secret : Secrets, expires_at : Nat, used : BOOLEAN,
                attempts : 0..MaxAttempts]

ASSUME NoneAssumption == None \notin SecretState

Proofs == [secret : 0..MaxSecrets, wallet : Wallets]

VARIABLES
    state,      \* PairingManager.state: the live secret or None
    drawn,      \* how many secrets were drawn so far
    shown,      \* history: the <<secret, exp>> of every payload displayed
    grants,     \* history: every verify_at that returned true
    rejects     \* history: failed comparisons against each secret

pairingVars == <<state, drawn, shown, grants, rejects>>

TypeOK ==
    /\ state \in SecretState \cup {None}
    /\ drawn \in 0..MaxSecrets
    /\ shown \subseteq Secrets \X Nat
    /\ grants \subseteq [secret : Secrets, wallet : Wallets, at : Nat]
    /\ rejects \in [Secrets -> 0..MaxAttempts]

Init ==
    /\ state = None
    /\ drawn = 0
    /\ shown = {}
    /\ grants = {}
    /\ rejects = [s \in Secrets |-> 0]
-----------------------------------------------------------------------------
\* The state holds a secret the QR may keep showing.
Live(now) == state # None /\ ~state.used /\ state.expires_at > now

\* Mutant: showing the live secret again gives it a new attempt budget.
PayloadRefillsAttempts(now) ==
    /\ IF Live(now)
       THEN state' = [state EXCEPT !.attempts = 0] /\ UNCHANGED drawn
       ELSE /\ drawn < MaxSecrets
            /\ drawn' = drawn + 1
            /\ state' = [secret |-> drawn', expires_at |-> now + SecretTTL,
                         used |-> FALSE, attempts |-> 0]
    /\ shown' = shown \cup {<<state'.secret, state'.expires_at>>}
    /\ UNCHANGED <<grants, rejects>>

\* payload_at: draw a secret unless the current one is live; show it.
PayloadAt(now) ==
    /\ IF Live(now)
       THEN UNCHANGED <<state, drawn>>
       ELSE /\ drawn < MaxSecrets
            /\ drawn' = drawn + 1
            /\ state' = [secret |-> drawn', expires_at |-> now + SecretTTL,
                         used |-> FALSE, attempts |-> 0]
    /\ shown' = shown \cup {<<state'.secret, state'.expires_at>>}
    /\ UNCHANGED <<grants, rejects>>

\* What a stranger can have computed a proof from: a secret already drawn
\* (secrets are unguessable) or nothing at all.
KnownProofs == {p \in Proofs : p.secret <= drawn}

\* Mutant: a secret is still good in the second it expires.
ComparableAtExpiry(now) == /\ state # None
                           /\ ~state.used
                           /\ state.expires_at >= now
                           /\ state.attempts < MaxAttempts

\* The first early returns of verify_at: nothing is compared.
Comparable(now) == /\ state # None
                   /\ ~state.used
                   /\ state.expires_at > now
                   /\ state.attempts < MaxAttempts

Matches(w, proof) == proof.secret = state.secret /\ proof.wallet = w

\* verify_at returns true.
Accepts(now, w, proof) == Comparable(now) /\ Matches(w, proof)

\* Mutant: a matching proof leaves the secret usable.
AcceptKeepsSecret(now, w, proof) ==
    /\ Accepts(now, w, proof)
    /\ grants' = grants \cup {[secret |-> state.secret, wallet |-> w, at |-> now]}
    /\ UNCHANGED <<state, drawn, shown, rejects>>

\* A matching proof burns the secret.
Accept(now, w, proof) ==
    /\ Accepts(now, w, proof)
    /\ state' = [state EXCEPT !.used = TRUE]
    /\ grants' = grants \cup {[secret |-> state.secret, wallet |-> w, at |-> now]}
    /\ UNCHANGED <<drawn, shown, rejects>>

\* A mismatch counts; the last allowed one drops the secret.
Reject(now, w, proof) ==
    /\ Comparable(now)
    /\ ~Matches(w, proof)
    /\ rejects' = [rejects EXCEPT ![state.secret] = @ + 1]
    /\ state' = IF state.attempts + 1 >= MaxAttempts
                THEN None
                ELSE [state EXCEPT !.attempts = @ + 1]
    /\ UNCHANGED <<drawn, shown, grants>>

\* No live secret: false, and nothing changes.
Refuse(now) == ~Comparable(now) /\ UNCHANGED pairingVars

VerifyAt(now, w, proof) ==
    Accept(now, w, proof) \/ Reject(now, w, proof) \/ Refuse(now)

\* Mutant: a restart brings the secret back as it was drawn.
ForgetUse == /\ state' = IF state = None THEN None ELSE [state EXCEPT !.used = FALSE]
             /\ UNCHANGED <<drawn, shown, grants, rejects>>

\* The secret lives only in memory; a restart starts with none.
Forget == state' = None /\ UNCHANGED <<drawn, shown, grants, rejects>>
-----------------------------------------------------------------------------
Next ==
    \/ \E now \in Times : PayloadAt(now)
    \/ \E now \in Times, w \in Wallets, proof \in KnownProofs : VerifyAt(now, w, proof)
    \/ Forget

Spec == Init /\ [][Next]_pairingVars
-----------------------------------------------------------------------------
(* Properties *)

\* A secret authorises one wallet, once: however showing, verifying, expiring
\* and restarting interleave, and wherever the clock is set, no two
\* verifications of one secret succeed ("true exactly once per secret").
SingleUse ==
    \A g, h \in grants : g.secret = h.secret => g = h

\* The attempt budget of a secret is for its whole life: showing the QR again
\* never refills it, and a secret whose budget was spent never pairs anyone.
BurnedNeverGrants ==
    \A g \in grants : rejects[g.secret] < MaxAttempts

\* No wallet is paired at or after the expiry printed on ANY QR code that
\* ever carried its secret: the UI polls payload_at, and re-showing must not
\* extend the life of the secret already on screen.
GrantWithinShownExpiry ==
    \A g \in grants, q \in shown : q[1] = g.secret => g.at < q[2]

\* The manager implements the one-time grant of OneTimeGrant.tla.
Unclaimed == state # None /\ ~state.used

OTG == INSTANCE OneTimeGrant
       WITH open <- IF Unclaimed THEN state.secret ELSE 0,
            used_up <- drawn,
            grants <- {<<g.secret, g.wallet>> : g \in grants}

ImplementsOneTimeGrant == OTG!Spec
=============================================================================
