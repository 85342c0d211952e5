--------------------------- MODULE Pairing_proofs ---------------------------
(***************************************************************************)
(* The promises of the pairing secret, for every set of wallets, every     *)
(* lifetime, attempt limit and sequence of clock readings.                 *)
(*                                                                         *)
(* None of the promises is inductive alone.  PairingInv adds what ties the *)
(* live secret to the history: its attempt counter is the number of        *)
(* rejections, it is unused exactly when nobody was granted it, every QR   *)
(* that ever carried it printed the same expiry, and nothing was shown,    *)
(* granted or rejected for a secret not yet drawn.                         *)
(***************************************************************************)
EXTENDS Pairing, TLAPS

\* The live secret agrees with the history.
StateInv ==
    state # None =>
        /\ state.secret <= drawn
        /\ state.attempts < MaxAttempts
        /\ state.attempts = rejects[state.secret]
        /\ ~state.used => \A g \in grants : g.secret # state.secret
        /\ \A q \in shown : q[1] = state.secret => q[2] = state.expires_at

\* The history speaks of drawn secrets only.
DrawnInv ==
    /\ \A q \in shown : q[1] <= drawn
    /\ \A g \in grants : g.secret <= drawn
    /\ \A s \in Secrets : s > drawn => rejects[s] = 0

\* A secret somebody was granted is either gone or marked used.
GrantedInv ==
    \A g \in grants : \/ state = None
                      \/ state.secret # g.secret
                      \/ state.used

PairingInv ==
    /\ TypeOK
    /\ StateInv
    /\ DrawnInv
    /\ GrantedInv
    /\ SingleUse
    /\ BurnedNeverGrants
    /\ GrantWithinShownExpiry
-----------------------------------------------------------------------------
LEMMA InitPairingInv == Init => PairingInv
BY PairingAssumption
   DEF Init, PairingInv, TypeOK, StateInv, DrawnInv, GrantedInv,
       SingleUse, BurnedNeverGrants, GrantWithinShownExpiry, Secrets

LEMMA StateFields ==
    ASSUME TypeOK, state # None
    PROVE  /\ state \in SecretState
           /\ state.secret \in Secrets /\ state.expires_at \in Nat
           /\ state.used \in BOOLEAN /\ state.attempts \in 0..MaxAttempts
BY DEF TypeOK, SecretState

\* Showing the QR: either nothing but the display changes, or a secret never
\* seen before takes the state.
LEMMA PayloadStep ==
    ASSUME PairingInv, NEW now \in Nat, PayloadAt(now)
    PROVE  PairingInv'
<1> USE PairingAssumption, NoneAssumption
<1>1. CASE Live(now)
  <2>1. state' = state /\ drawn' = drawn /\ grants' = grants /\ rejects' = rejects
        /\ shown' = shown \cup {<<state.secret, state.expires_at>>} /\ state # None
    BY <1>1 DEF PayloadAt, Live
  <2>2. state.secret \in Secrets /\ state.expires_at \in Nat /\ ~state.used
    BY <1>1, <2>1, StateFields DEF PairingInv, Live
  <2>3. TypeOK'
    BY <2>1, <2>2 DEF PairingInv, TypeOK
  <2>4. StateInv' /\ DrawnInv'
    BY <2>1, <2>2 DEF PairingInv, StateInv, DrawnInv
  <2>5. GrantedInv' /\ SingleUse' /\ BurnedNeverGrants'
    BY <2>1 DEF PairingInv, GrantedInv, SingleUse, BurnedNeverGrants
  <2>6. GrantWithinShownExpiry'
    BY <2>1, <2>2 DEF PairingInv, GrantWithinShownExpiry, StateInv
  <2> QED BY <2>3, <2>4, <2>5, <2>6 DEF PairingInv
<1>2. CASE ~Live(now)
  <2>1. /\ drawn < MaxSecrets /\ drawn' = drawn + 1
        /\ state' = [secret |-> drawn + 1, expires_at |-> now + SecretTTL,
                     used |-> FALSE, attempts |-> 0]
        /\ shown' = shown \cup {<<drawn + 1, now + SecretTTL>>}
        /\ grants' = grants /\ rejects' = rejects
    BY <1>2 DEF PayloadAt
  <2>2. drawn \in 0..MaxSecrets /\ drawn + 1 \in Secrets /\ drawn' \in 0..MaxSecrets
        /\ now + SecretTTL \in Nat
    BY <2>1 DEF PairingInv, TypeOK, Secrets
  <2>3. state' \in SecretState /\ state' # None
    <3>1. 0 \in 0..MaxAttempts /\ FALSE \in BOOLEAN
      OBVIOUS
    <3>2. state' \in SecretState
      BY <2>1, <2>2, <3>1 DEF SecretState
    <3> QED BY <3>2
  <2>4. TypeOK'
    BY <2>1, <2>2, <2>3 DEF PairingInv, TypeOK
  <2>5. \A p \in shown : p[1] \in Secrets /\ p[1] <= drawn /\ p[1] # drawn + 1
    BY <2>2 DEF PairingInv, TypeOK, DrawnInv, Secrets
  <2>6. \A g \in grants : g.secret \in Secrets /\ g.secret <= drawn /\ g.secret # drawn + 1
    BY <2>2 DEF PairingInv, TypeOK, DrawnInv, Secrets
  <2>7. rejects[drawn + 1] = 0
    BY <2>2 DEF PairingInv, DrawnInv, Secrets
  <2>8. StateInv'
    BY <2>1, <2>2, <2>3, <2>5, <2>6, <2>7 DEF StateInv
  <2>9. DrawnInv'
    BY <2>1, <2>2, <2>5, <2>6 DEF PairingInv, DrawnInv, Secrets
  <2>10. GrantedInv'
    BY <2>1, <2>6, <2>7 DEF GrantedInv
  <2>11. SingleUse' /\ BurnedNeverGrants'
    BY <2>1 DEF PairingInv, SingleUse, BurnedNeverGrants
  <2>12. GrantWithinShownExpiry'
    BY <2>1, <2>6 DEF PairingInv, GrantWithinShownExpiry
  <2> QED BY <2>4, <2>8, <2>9, <2>10, <2>11, <2>12 DEF PairingInv
<1> QED BY <1>1, <1>2

\* A matching proof: the only step that adds a grant.
LEMMA AcceptStep ==
    ASSUME PairingInv, NEW now \in Nat, NEW w \in Wallets, NEW proof \in Proofs,
           Accept(now, w, proof)
    PROVE  PairingInv'
<1> USE PairingAssumption, NoneAssumption
<1> DEFINE new == [secret |-> state.secret, wallet |-> w, at |-> now]
<1>1. /\ state # None /\ ~state.used /\ now < state.expires_at
      /\ state' = [state EXCEPT !.used = TRUE]
      /\ grants' = grants \cup {new}
      /\ drawn' = drawn /\ shown' = shown /\ rejects' = rejects
  <2>1. state \in SecretState
    BY StateFields DEF PairingInv, Accept, Accepts, Comparable
  <2> QED BY <2>1 DEF Accept, Accepts, Comparable, SecretState
<1>2. state \in SecretState /\ state.secret \in Secrets
  BY <1>1, StateFields DEF PairingInv
<1>3. /\ state' \in SecretState /\ state' # None /\ state'.used
      /\ state'.secret = state.secret /\ state'.attempts = state.attempts
      /\ state'.expires_at = state.expires_at
  BY <1>1, <1>2 DEF SecretState
<1>4. new \in [secret : Secrets, wallet : Wallets, at : Nat]
  BY <1>2
<1>5. TypeOK'
  BY <1>1, <1>3, <1>4 DEF PairingInv, TypeOK
<1>6. StateInv'
  BY <1>1, <1>3 DEF PairingInv, StateInv
<1>7. DrawnInv'
  BY <1>1 DEF PairingInv, DrawnInv, StateInv
<1>8. GrantedInv'
  BY <1>1, <1>3 DEF PairingInv, GrantedInv
<1>9. SingleUse'
  BY <1>1 DEF PairingInv, SingleUse, StateInv
<1>10. BurnedNeverGrants'
  BY <1>1 DEF PairingInv, BurnedNeverGrants, StateInv
<1>11. GrantWithinShownExpiry'
  BY <1>1 DEF PairingInv, GrantWithinShownExpiry, StateInv
<1> QED BY <1>5, <1>6, <1>7, <1>8, <1>9, <1>10, <1>11 DEF PairingInv

\* A mismatch: the counter and the history advance together.
LEMMA RejectStep ==
    ASSUME PairingInv, NEW now \in Nat, NEW w \in Wallets, NEW proof \in Proofs,
           Reject(now, w, proof)
    PROVE  PairingInv'
<1> USE PairingAssumption, NoneAssumption
<1> DEFINE s == state.secret
<1>1. state # None /\ ~state.used /\ state.attempts < MaxAttempts
  <2>1. state # None BY DEF Reject, Comparable
  <2> QED BY <2>1, StateFields DEF PairingInv, Reject, Comparable
<1>2. state \in SecretState /\ s \in Secrets /\ state.attempts \in 0..MaxAttempts
  BY <1>1, StateFields DEF PairingInv
<1>3. /\ rejects' = [rejects EXCEPT ![s] = @ + 1]
      /\ state' = IF state.attempts + 1 >= MaxAttempts
                  THEN None ELSE [state EXCEPT !.attempts = @ + 1]
      /\ grants' = grants /\ shown' = shown /\ drawn' = drawn
  BY DEF Reject
<1>4. /\ rejects' \in [Secrets -> 0..MaxAttempts]
      /\ rejects'[s] = state.attempts + 1
      /\ \A r \in Secrets : r # s => rejects'[r] = rejects[r]
  BY <1>1, <1>2, <1>3 DEF PairingInv, TypeOK, StateInv
<1>5. \A g \in grants : g.secret \in Secrets /\ g.secret # s
  BY <1>1 DEF PairingInv, TypeOK, StateInv
<1>6. \/ state' = None
      \/ /\ state' \in SecretState
         /\ state'.secret = s /\ state'.used = state.used
         /\ state'.expires_at = state.expires_at
         /\ state'.attempts = state.attempts + 1 /\ state'.attempts < MaxAttempts
  BY <1>1, <1>2, <1>3 DEF SecretState
<1>7. TypeOK'
  BY <1>3, <1>4, <1>6 DEF PairingInv, TypeOK
<1>8. StateInv' /\ GrantedInv'
  BY <1>1, <1>3, <1>4, <1>5, <1>6 DEF PairingInv, StateInv, GrantedInv
<1>9. DrawnInv'
  <2>1. s <= drawn BY <1>1 DEF PairingInv, StateInv
  <2>2. drawn \in Nat BY DEF PairingInv, TypeOK
  <2> QED BY <1>2, <1>3, <1>4, <2>1, <2>2 DEF PairingInv, DrawnInv, Secrets
<1>10. SingleUse' /\ GrantWithinShownExpiry'
  BY <1>3 DEF PairingInv, SingleUse, GrantWithinShownExpiry
<1>11. BurnedNeverGrants'
  BY <1>3, <1>4, <1>5 DEF PairingInv, BurnedNeverGrants
<1> QED BY <1>7, <1>8, <1>9, <1>10, <1>11 DEF PairingInv

\* A restart drops the state and keeps the history.
LEMMA ForgetStep ==
    ASSUME PairingInv, Forget
    PROVE  PairingInv'
BY DEF Forget, PairingInv, TypeOK, StateInv, DrawnInv, GrantedInv,
       SingleUse, BurnedNeverGrants, GrantWithinShownExpiry

LEMMA StutterStep ==
    ASSUME PairingInv, UNCHANGED pairingVars
    PROVE  PairingInv'
BY DEF pairingVars, PairingInv, TypeOK, StateInv, DrawnInv, GrantedInv,
       SingleUse, BurnedNeverGrants, GrantWithinShownExpiry

LEMMA NextPairingInv ==
    ASSUME PairingInv, [Next]_pairingVars
    PROVE  PairingInv'
<1>1. ASSUME NEW now \in Times, PayloadAt(now)
      PROVE  PairingInv'
  BY <1>1, PayloadStep, PairingAssumption DEF Times
<1>2. ASSUME NEW now \in Times, NEW w \in Wallets, NEW proof \in KnownProofs,
             VerifyAt(now, w, proof)
      PROVE  PairingInv'
  <2>1. now \in Nat /\ proof \in Proofs
    BY PairingAssumption DEF Times, KnownProofs
  <2> QED BY <1>2, <2>1, AcceptStep, RejectStep, StutterStep DEF VerifyAt, Refuse
<1>3. CASE Forget
  BY <1>3, ForgetStep
<1>4. CASE UNCHANGED pairingVars
  BY <1>4, StutterStep
<1> QED BY <1>1, <1>2, <1>3, <1>4 DEF Next

\* Every reachable state satisfies the inductive invariant.
THEOREM PairingInvariance == Spec => []PairingInv
<1>1. Init => PairingInv BY InitPairingInv
<1>2. PairingInv /\ [Next]_pairingVars => PairingInv' BY NextPairingInv
<1> QED BY <1>1, <1>2, PTL DEF Spec
-----------------------------------------------------------------------------
\* The state of the pairing manager keeps its type.
THEOREM PairingTypeCorrect == Spec => []TypeOK
<1>1. PairingInv => TypeOK BY DEF PairingInv
<1> QED BY <1>1, PairingInvariance, PTL

\* pairing.rs:85-86, "Returns true exactly once per secret".
THEOREM PairingSingleUse == Spec => []SingleUse
<1>1. PairingInv => SingleUse BY DEF PairingInv
<1> QED BY <1>1, PairingInvariance, PTL

\* pairing.rs:5-6, "burned after 5 failed attempts", over the secret's life.
THEOREM PairingBurned == Spec => []BurnedNeverGrants
<1>1. PairingInv => BurnedNeverGrants BY DEF PairingInv
<1> QED BY <1>1, PairingInvariance, PTL

\* No grant at or after the expiry printed on any QR of that secret.
THEOREM PairingExpiry == Spec => []GrantWithinShownExpiry
<1>1. PairingInv => GrantWithinShownExpiry BY DEF PairingInv
<1> QED BY <1>1, PairingInvariance, PTL
-----------------------------------------------------------------------------
(* The refinement: every step of the manager is a step of the one-time     *)
(* grant or leaves it alone.                                               *)

LEMMA InitMapped == Init => OTG!Init
BY NoneAssumption DEF Init, OTG!Init, Unclaimed

LEMMA PayloadMapped ==
    ASSUME PairingInv, NEW now \in Nat, PayloadAt(now)
    PROVE  [OTG!Next]_OTG!vars
<1>1. CASE Live(now)
  BY <1>1 DEF PayloadAt, OTG!vars, Unclaimed
<1>2. CASE ~Live(now)
  <2>1. /\ drawn < MaxSecrets /\ drawn' = drawn + 1 /\ grants' = grants
        /\ state' = [secret |-> drawn + 1, expires_at |-> now + SecretTTL,
                     used |-> FALSE, attempts |-> 0]
    BY <1>2 DEF PayloadAt
  <2>2. state' # None
    <3>1. drawn + 1 \in Secrets /\ now + SecretTTL \in Nat /\ 0 \in 0..MaxAttempts
      BY <2>1, PairingAssumption DEF PairingInv, TypeOK, Secrets
    <3>2. state' \in SecretState BY <2>1, <3>1 DEF SecretState
    <3> QED BY <3>2, NoneAssumption
  <2>3. Unclaimed' /\ state'.secret = drawn + 1
    BY <2>1, <2>2 DEF Unclaimed
  <2>4. OTG!Issue
    BY <2>1, <2>3 DEF OTG!Issue
  <2> QED BY <2>4 DEF OTG!Next
<1> QED BY <1>1, <1>2

LEMMA AcceptMapped ==
    ASSUME PairingInv, NEW now \in Nat, NEW w \in Wallets, NEW proof \in Proofs,
           Accept(now, w, proof)
    PROVE  [OTG!Next]_OTG!vars
<1> DEFINE new == [secret |-> state.secret, wallet |-> w, at |-> now]
<1>1. state # None /\ ~state.used
  BY DEF Accept, Accepts, Comparable
<1>2. state \in SecretState /\ state.secret \in Secrets
  BY <1>1, StateFields DEF PairingInv
<1>3. state'.used
  BY <1>2 DEF Accept, SecretState
<1>4. Unclaimed /\ ~Unclaimed'
  BY <1>1, <1>3 DEF Unclaimed
<1>5. {<<g.secret, g.wallet>> : g \in grants'}
          = {<<g.secret, g.wallet>> : g \in grants} \cup {<<state.secret, w>>}
  <2>1. grants' = grants \cup {new} BY DEF Accept
  <2>2. new.secret = state.secret /\ new.wallet = w OBVIOUS
  <2> QED BY <2>1, <2>2
<1>6. state.secret # 0 BY <1>2 DEF Secrets
<1>7. drawn' = drawn BY DEF Accept
<1>8. OTG!Grant
  BY <1>4, <1>5, <1>6, <1>7 DEF OTG!Grant
<1> QED BY <1>8 DEF OTG!Next

LEMMA RejectMapped ==
    ASSUME PairingInv, NEW now \in Nat, NEW w \in Wallets, NEW proof \in Proofs,
           Reject(now, w, proof)
    PROVE  [OTG!Next]_OTG!vars
<1>1. state # None /\ ~state.used
  BY DEF Reject, Comparable
<1>2. state \in SecretState /\ state.secret \in Secrets /\ state.secret # 0
  BY <1>1, StateFields DEF PairingInv, Secrets
<1>3. drawn' = drawn /\ grants' = grants BY DEF Reject
<1>4. CASE state.attempts + 1 >= MaxAttempts
  <2>1. state' = None BY <1>4 DEF Reject
  <2>2. OTG!Withdraw BY <1>1, <1>2, <1>3, <2>1 DEF OTG!Withdraw, Unclaimed
  <2> QED BY <2>2 DEF OTG!Next
<1>5. CASE ~(state.attempts + 1 >= MaxAttempts)
  <2>1. state' = [state EXCEPT !.attempts = @ + 1] BY <1>5 DEF Reject
  <2>2. state.attempts + 1 \in 0..MaxAttempts
    BY <1>2, <1>5, PairingAssumption DEF SecretState
  <2>3. state' \in SecretState /\ state'.secret = state.secret /\ ~state'.used
    BY <1>1, <1>2, <2>1, <2>2 DEF SecretState
  <2>4. Unclaimed /\ Unclaimed' /\ state'.secret = state.secret
    BY <1>1, <2>3, NoneAssumption DEF Unclaimed
  <2>5. UNCHANGED OTG!vars
    BY <1>3, <2>4 DEF OTG!vars
  <2> QED BY <2>5
<1> QED BY <1>4, <1>5

LEMMA ForgetMapped ==
    ASSUME PairingInv, Forget
    PROVE  [OTG!Next]_OTG!vars
<1>1. state' = None /\ drawn' = drawn /\ grants' = grants BY DEF Forget
<1>2. CASE Unclaimed
  <2>1. state.secret # 0
    BY <1>2, StateFields DEF PairingInv, Unclaimed, Secrets
  <2>2. OTG!Withdraw BY <1>1, <1>2, <2>1 DEF OTG!Withdraw, Unclaimed
  <2> QED BY <2>2 DEF OTG!Next
<1>3. CASE ~Unclaimed
  BY <1>1, <1>3 DEF OTG!vars, Unclaimed
<1> QED BY <1>2, <1>3

LEMMA NextMapped ==
    ASSUME PairingInv, [Next]_pairingVars
    PROVE  [OTG!Next]_OTG!vars
<1>1. ASSUME NEW now \in Times, PayloadAt(now)
      PROVE  [OTG!Next]_OTG!vars
  BY <1>1, PayloadMapped, PairingAssumption DEF Times
<1>2. ASSUME UNCHANGED pairingVars
      PROVE  [OTG!Next]_OTG!vars
  BY <1>2 DEF pairingVars, OTG!vars, Unclaimed
<1>3. ASSUME NEW now \in Times, NEW w \in Wallets, NEW proof \in KnownProofs,
             VerifyAt(now, w, proof)
      PROVE  [OTG!Next]_OTG!vars
  <2>1. now \in Nat /\ proof \in Proofs
    BY PairingAssumption DEF Times, KnownProofs
  <2> QED BY <1>2, <1>3, <2>1, AcceptMapped, RejectMapped DEF VerifyAt, Refuse
<1>4. CASE Forget
  BY <1>4, ForgetMapped
<1> QED BY <1>1, <1>2, <1>3, <1>4 DEF Next

\* The pairing manager implements the one-time grant.
THEOREM PairingImplementsOneTimeGrant == Spec => ImplementsOneTimeGrant
<1>1. Init => OTG!Init BY InitMapped
<1>2. PairingInv /\ [Next]_pairingVars => [OTG!Next]_OTG!vars BY NextMapped
<1> QED BY <1>1, <1>2, PairingInvariance, PTL DEF Spec, ImplementsOneTimeGrant, OTG!Spec
=============================================================================
