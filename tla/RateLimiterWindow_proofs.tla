---------------------- MODULE RateLimiterWindow_proofs ----------------------
(***************************************************************************)
(* The window bound of the token bucket, for every burst, rate, set of     *)
(* senders and behaviour of the clock.                                     *)
(*                                                                         *)
(* WindowBound is not inductive: it says nothing of what is still in the   *)
(* bucket.  The inductive invariant adds the tokens a request made now     *)
(* would find: spent and spendable together stay under the bound.          *)
(***************************************************************************)
EXTENDS RateLimiterWindow, RateLimiter_proofs

Allowance == Burst * (restarts + 1) + TokensPerSec * elapsed

Spendable == \A k \in Keys : Level(k, now) + admitted[k] <= Allowance

WindowInv == TypeOK /\ Spendable
-----------------------------------------------------------------------------
LEMMA AllowanceNat ==
    ASSUME restarts \in Nat, elapsed \in Nat
    PROVE  Allowance \in Nat /\ Burst <= Allowance
<1>1. Burst * (restarts + 1) = Burst * restarts + Burst * 1
      /\ Burst * restarts \in Nat /\ Burst * 1 = Burst
  BY TimesDistr, RateAssumption
<1>2. TokensPerSec * elapsed \in Nat
  BY RateAssumption
<1> QED BY <1>1, <1>2, RateAssumption DEF Allowance

LEMMA InitWindowInv == Init => WindowInv
<1> SUFFICES ASSUME Init PROVE WindowInv OBVIOUS
<1>1. now \in Nat BY DEF Init
<1>2. TypeOK BY <1>1 DEF Init, TypeOK, BucketsOK, NoBuckets
<1>3. Burst <= Allowance /\ Allowance \in Nat BY <1>2, AllowanceNat DEF TypeOK
<1>4. \A k \in Keys : Level(k, now) = Burst /\ admitted[k] = 0
  BY DEF Init, NoBuckets, Level
<1>5. \A k \in Keys : Level(k, now) + admitted[k] <= Allowance
  <2> SUFFICES ASSUME NEW k \in Keys PROVE Level(k, now) + admitted[k] <= Allowance
    OBVIOUS
  <2>1. Level(k, now) = Burst /\ admitted[k] = 0 BY <1>4
  <2> QED BY <1>3, <2>1, RateAssumption
<1>6. Spendable BY <1>5 DEF Spendable
<1> QED BY <1>2, <1>6 DEF WindowInv

\* A request moves at most one token from spendable to spent.
LEMMA RequestStep ==
    ASSUME WindowInv, NEW k \in Keys, Request(k)
    PROVE  WindowInv'
<1> USE RateAssumption, NoBucketAssumption
<1> DEFINE lvl == Level(k, now)
           b == [tokens |-> IF Admits(k, now) THEN lvl - 1 ELSE lvl, last_refill |-> now]
<1>1. TypeOK /\ BucketsOK /\ now \in Nat /\ Allowance \in Nat
  BY AllowanceNat DEF WindowInv, TypeOK
<1>2. lvl \in 0..Burst
  BY <1>1, LevelRange
<1>3. buckets' = [buckets EXCEPT ![k] = b] /\ now' = now
      /\ restarts' = restarts /\ elapsed' = elapsed
      /\ admitted' = [admitted EXCEPT ![k] = IF Admits(k, now) THEN @ + 1 ELSE @]
  BY DEF Request, Allow
<1>4. Admits(k, now) <=> lvl >= 1
  BY DEF Admits
<1>5. b \in Bucket /\ b.tokens = (IF lvl >= 1 THEN lvl - 1 ELSE lvl) /\ b.last_refill = now
  <2> HIDE DEF lvl
  <2> QED BY <1>1, <1>2, <1>4 DEF Bucket
<1>6. TypeOK'
  BY <1>1, <1>3, <1>5 DEF TypeOK, BucketsOK
<1>7. \A j \in Keys : j # k => Level(j, now)' = Level(j, now) /\ admitted'[j] = admitted[j]
  BY <1>1, <1>3 DEF Level, TypeOK, BucketsOK
<1>8. Level(k, now)' = b.tokens
  <2>1. buckets'[k] = b /\ b # NoBucket
    BY <1>1, <1>3, <1>5 DEF BucketsOK
  <2>2. SatSub(now', b.last_refill) = 0
    BY <1>1, <1>3, <1>5 DEF SatSub
  <2>3. b.tokens \in 0..Burst /\ 0 * TokensPerSec = 0
    BY <1>5 DEF Bucket
  <2>4. Level(k, now)' = AtMost(Burst, b.tokens + 0 * TokensPerSec)
    BY <2>1, <2>2 DEF Level
  <2> QED BY <2>3, <2>4 DEF AtMost
<1>9. admitted'[k] = (IF lvl >= 1 THEN admitted[k] + 1 ELSE admitted[k])
      /\ admitted[k] \in Nat
  BY <1>1, <1>3, <1>4 DEF TypeOK
<1>10. Level(k, now)' + admitted'[k] <= Allowance
  <2>1. lvl + admitted[k] <= Allowance
    BY DEF WindowInv, Spendable
  <2> HIDE DEF lvl, b
  <2> QED BY <1>1, <1>2, <1>5, <1>8, <1>9, <2>1
<1>11. Allowance' = Allowance
  BY <1>3 DEF Allowance
<1>12. Spendable'
  BY <1>7, <1>10, <1>11 DEF WindowInv, Spendable
<1> QED BY <1>6, <1>12 DEF WindowInv

LEMMA AdvanceStep ==
    ASSUME WindowInv, Advance
    PROVE  WindowInv'
<1> USE RateAssumption
<1>1. PICK d \in 1..MaxElapsed : now' = now + d /\ elapsed' = elapsed + d
  BY DEF Advance
<1>2. buckets' = buckets /\ restarts' = restarts /\ admitted' = admitted
  BY DEF Advance
<1>3. /\ BucketsOK /\ now \in Nat /\ elapsed \in Nat /\ restarts \in Nat
      /\ d \in Nat /\ Allowance \in Nat
  BY AllowanceNat DEF WindowInv, TypeOK
<1>4. TypeOK'
  BY <1>1, <1>2, <1>3 DEF WindowInv, TypeOK, BucketsOK
<1>5. /\ TokensPerSec * (elapsed + d) = TokensPerSec * elapsed + TokensPerSec * d
      /\ TokensPerSec * elapsed \in Nat /\ TokensPerSec * d \in Nat
  BY <1>3, TimesDistr
<1>6. Allowance' = Allowance + TokensPerSec * d
  <2>1. Burst * (restarts + 1) \in Nat BY <1>3
  <2> QED BY <1>1, <1>2, <1>5, <2>1 DEF Allowance
<1>7. ASSUME NEW k \in Keys
      PROVE  Level(k, now)' + admitted'[k] <= Allowance'
  <2>1. Level(k, now)' = Level(k, now + d)
    BY <1>1, <1>2 DEF Level
  <2>2. Level(k, now + d) <= Level(k, now) + TokensPerSec * d
    BY <1>3, LevelAdvance
  <2>3. Level(k, now + d) \in 0..Burst /\ Level(k, now) \in 0..Burst
    BY <1>3, LevelRange
  <2>4. Level(k, now) + admitted[k] <= Allowance /\ admitted[k] \in Nat
    BY DEF WindowInv, Spendable, TypeOK
  <2> QED BY <1>2, <1>3, <1>5, <1>6, <2>1, <2>2, <2>3, <2>4
<1> QED BY <1>4, <1>7 DEF WindowInv, Spendable

LEMMA SetBackStep ==
    ASSUME WindowInv, SetBack
    PROVE  WindowInv'
<1> USE RateAssumption
<1>1. PICK t \in 0..MaxTime : t < now /\ now' = t
  BY DEF SetBack
<1>2. /\ buckets' = buckets /\ restarts' = restarts /\ admitted' = admitted
      /\ elapsed' = elapsed
  BY DEF SetBack
<1>3. BucketsOK /\ now \in Nat /\ t \in Nat /\ t <= now /\ Allowance \in Nat
  BY <1>1, AllowanceNat DEF WindowInv, TypeOK
<1>4. TypeOK'
  BY <1>1, <1>2, <1>3 DEF WindowInv, TypeOK, BucketsOK
<1>5. ASSUME NEW k \in Keys
      PROVE  Level(k, now)' + admitted'[k] <= Allowance'
  <2>1. Level(k, now)' = Level(k, t) /\ Allowance' = Allowance
    BY <1>1, <1>2 DEF Level, Allowance
  <2>2. Level(k, t) <= Level(k, now)
    BY <1>3, LevelBack
  <2>3. Level(k, t) \in 0..Burst /\ Level(k, now) \in 0..Burst
    BY <1>3, LevelRange
  <2>4. Level(k, now) + admitted[k] <= Allowance /\ admitted[k] \in Nat
    BY DEF WindowInv, Spendable, TypeOK
  <2> QED BY <1>2, <1>3, <2>1, <2>2, <2>3, <2>4
<1> QED BY <1>4, <1>5 DEF WindowInv, Spendable

\* A restart refills every bucket, and the bound grants one burst for it.
LEMMA RestartStep ==
    ASSUME WindowInv, Restart
    PROVE  WindowInv'
<1> USE RateAssumption
<1>1. /\ buckets' = NoBuckets /\ restarts' = restarts + 1
      /\ now' = now /\ elapsed' = elapsed /\ admitted' = admitted
  BY DEF Restart
<1>2. BucketsOK /\ now \in Nat /\ restarts \in Nat /\ elapsed \in Nat /\ Allowance \in Nat
  BY AllowanceNat DEF WindowInv, TypeOK
<1>3. TypeOK'
  BY <1>1, <1>2 DEF WindowInv, TypeOK, BucketsOK, NoBuckets
<1>4. Allowance' = Allowance + Burst
  <2>1. Burst * ((restarts + 1) + 1) = Burst * (restarts + 1) + Burst * 1
        /\ Burst * (restarts + 1) \in Nat
    BY <1>2, TimesDistr
  <2>2. TokensPerSec * elapsed \in Nat BY <1>2
  <2> QED BY <1>1, <2>1, <2>2 DEF Allowance
<1>5. ASSUME NEW k \in Keys
      PROVE  Level(k, now)' + admitted'[k] <= Allowance'
  <2>1. Level(k, now)' = Burst
    BY <1>1 DEF Level, NoBuckets
  <2>2. Level(k, now) \in 0..Burst
    BY <1>2, LevelRange
  <2>3. Level(k, now) + admitted[k] <= Allowance /\ admitted[k] \in Nat
    BY DEF WindowInv, Spendable, TypeOK
  <2> QED BY <1>1, <1>2, <1>4, <2>1, <2>2, <2>3
<1> QED BY <1>3, <1>5 DEF WindowInv, Spendable

LEMMA WatchStep ==
    ASSUME WindowInv, Watch
    PROVE  WindowInv'
<1> USE RateAssumption
<1>1. /\ elapsed' = 0 /\ restarts' = 0 /\ admitted' = [k \in Keys |-> 0]
      /\ buckets' = buckets /\ now' = now
  BY DEF Watch
<1>2. BucketsOK /\ now \in Nat
  BY DEF WindowInv, TypeOK
<1>3. TypeOK'
  BY <1>1, <1>2 DEF WindowInv, TypeOK, BucketsOK
<1>4. Allowance' = Burst
  BY <1>1 DEF Allowance
<1>5. \A k \in Keys : Level(k, now)' = Level(k, now) /\ Level(k, now) \in 0..Burst
  BY <1>1, <1>2, LevelRange DEF Level
<1> QED BY <1>1, <1>3, <1>4, <1>5 DEF WindowInv, Spendable

LEMMA NextWindowInv ==
    ASSUME WindowInv, [Next]_windowVars
    PROVE  WindowInv'
<1>1. CASE UNCHANGED windowVars
  BY <1>1 DEF windowVars, WindowInv, TypeOK, BucketsOK, Spendable, Level, Allowance
<1> QED BY <1>1, RequestStep, AdvanceStep, SetBackStep, RestartStep, WatchStep DEF Next

\* Buckets, counters and the clock keep their types; a bucket never holds
\* more than a burst (ratelimit.rs:37).
THEOREM RateTypeCorrect == Spec => []TypeOK
<1>1. WindowInv => TypeOK BY DEF WindowInv
<1>2. Init => WindowInv BY InitWindowInv
<1>3. WindowInv /\ [Next]_windowVars => WindowInv' BY NextWindowInv
<1> QED BY <1>1, <1>2, <1>3, PTL DEF Spec

\* No window admits more than a burst per start of the server plus the rate.
THEOREM RateWindowBound == Spec => []WindowBound
<1>1. WindowInv => WindowBound
  <2> SUFFICES ASSUME WindowInv, NEW k \in Keys
               PROVE  admitted[k] <= Allowance
    BY DEF WindowBound, Allowance
  <2>1. Level(k, now) \in 0..Burst
    BY LevelRange DEF WindowInv, TypeOK
  <2>2. Level(k, now) + admitted[k] <= Allowance /\ admitted[k] \in Nat /\ Allowance \in Nat
    BY AllowanceNat DEF WindowInv, Spendable, TypeOK
  <2> QED BY <2>1, <2>2, RateAssumption
<1>2. Init => WindowInv BY InitWindowInv
<1>3. WindowInv /\ [Next]_windowVars => WindowInv' BY NextWindowInv
<1> QED BY <1>1, <1>2, <1>3, PTL DEF Spec
=============================================================================
