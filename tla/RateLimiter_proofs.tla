-------------------------- MODULE RateLimiter_proofs --------------------------
(***************************************************************************)
(* What the refill of a bucket returns and how it moves with the clock, for *)
(* every burst and rate.                                                   *)
(***************************************************************************)
EXTENDS RateLimiter, TLAPS

LEMMA TimesMono ==
    ASSUME NEW r \in Nat, NEW a \in Int, NEW b \in Int, a <= b
    PROVE  r * a <= r * b /\ r * a \in Int /\ r * b \in Int
OBVIOUS

LEMMA TimesDistr ==
    ASSUME NEW r \in Nat, NEW a \in Nat, NEW b \in Nat
    PROVE  r * (a + b) = r * a + r * b /\ r * a \in Nat /\ r * b \in Nat
OBVIOUS

LEMMA SatSubNat ==
    ASSUME NEW a \in Nat, NEW b \in Nat
    PROVE  SatSub(a, b) \in Nat
BY DEF SatSub

LEMMA BucketFields ==
    ASSUME BucketsOK, NEW k \in Keys, buckets[k] # NoBucket
    PROVE  buckets[k].tokens \in 0..Burst /\ buckets[k].last_refill \in Nat
BY DEF BucketsOK, Bucket

\* A bucket holds between nothing and one burst.
LEMMA LevelRange ==
    ASSUME BucketsOK, NEW k \in Keys, NEW t \in Nat
    PROVE  Level(k, t) \in 0..Burst
<1> USE RateAssumption
<1>1. CASE buckets[k] = NoBucket
  BY <1>1 DEF Level
<1>2. CASE buckets[k] # NoBucket
  <2> DEFINE gap == SatSub(t, buckets[k].last_refill)
  <2>1. buckets[k].tokens \in 0..Burst /\ gap \in Nat
    BY <1>2, BucketFields, SatSubNat
  <2>2. gap * TokensPerSec \in Nat
    BY <2>1
  <2>3. buckets[k].tokens + gap * TokensPerSec \in Nat
    BY <2>1, <2>2
  <2> HIDE DEF gap
  <2>4. AtMost(Burst, buckets[k].tokens + gap * TokensPerSec) \in 0..Burst
    BY <2>3 DEF AtMost
  <2> QED BY <1>2, <2>4 DEF Level, gap
<1> QED BY <1>1, <1>2

\* An idle bucket gains at most the rate times the seconds that pass.
LEMMA LevelAdvance ==
    ASSUME BucketsOK, NEW k \in Keys, NEW t \in Nat, NEW d \in Nat
    PROVE  Level(k, t + d) <= Level(k, t) + TokensPerSec * d
<1> USE RateAssumption
<1>1. CASE buckets[k] = NoBucket
  <2>1. TokensPerSec * d >= 0 OBVIOUS
  <2> QED BY <1>1, <2>1 DEF Level
<1>2. CASE buckets[k] # NoBucket
  <2> DEFINE tok == buckets[k].tokens
             gap == SatSub(t, buckets[k].last_refill)
             gapd == SatSub(t + d, buckets[k].last_refill)
             x == tok + gap * TokensPerSec
             y == tok + gapd * TokensPerSec
  <2>1. tok \in 0..Burst /\ gap \in Nat /\ gapd \in Nat
    <3>1. tok \in 0..Burst /\ buckets[k].last_refill \in Nat
      BY <1>2, BucketFields
    <3>2. t + d \in Nat OBVIOUS
    <3> QED BY <3>1, <3>2, SatSubNat
  <2>2. gapd <= gap + d
    BY <1>2, BucketFields DEF SatSub
  <2>3. TokensPerSec * gapd <= TokensPerSec * (gap + d)
    <3>1. gap + d \in Int /\ gapd \in Int BY <2>1
    <3> HIDE DEF gap, gapd
    <3> QED BY <2>2, <3>1, TimesMono
  <2>4. /\ TokensPerSec * (gap + d) = TokensPerSec * gap + TokensPerSec * d
        /\ TokensPerSec * gap \in Nat /\ TokensPerSec * d \in Nat
    BY <2>1, TimesDistr
  <2>5. gap * TokensPerSec = TokensPerSec * gap
        /\ gapd * TokensPerSec = TokensPerSec * gapd
        /\ TokensPerSec * gapd \in Nat
    BY <2>1
  <2>6. x \in Nat /\ y \in Nat /\ y <= x + TokensPerSec * d
    <3> HIDE DEF tok, gap, gapd
    <3> QED BY <2>1, <2>3, <2>4, <2>5
  <2>7. Level(k, t) = AtMost(Burst, x) /\ Level(k, t + d) = AtMost(Burst, y)
    BY <1>2 DEF Level
  <2> HIDE DEF x, y
  <2>8. AtMost(Burst, y) <= AtMost(Burst, x) + TokensPerSec * d
    BY <2>4, <2>6 DEF AtMost
  <2> QED BY <2>7, <2>8
<1> QED BY <1>1, <1>2

\* Setting the clock back never adds tokens.
LEMMA LevelBack ==
    ASSUME BucketsOK, NEW k \in Keys, NEW t \in Nat, NEW u \in Nat, u <= t
    PROVE  Level(k, u) <= Level(k, t)
<1> USE RateAssumption
<1>1. CASE buckets[k] = NoBucket
  BY <1>1 DEF Level
<1>2. CASE buckets[k] # NoBucket
  <2> DEFINE tok == buckets[k].tokens
             gapu == SatSub(u, buckets[k].last_refill)
             gapt == SatSub(t, buckets[k].last_refill)
             x == tok + gapu * TokensPerSec
             y == tok + gapt * TokensPerSec
  <2>1. tok \in 0..Burst /\ gapu \in Nat /\ gapt \in Nat
    BY <1>2, BucketFields, SatSubNat
  <2>2. gapu <= gapt
    BY <1>2, BucketFields DEF SatSub
  <2>3. x \in Nat /\ y \in Nat /\ x <= y
    <3> HIDE DEF tok, gapu, gapt
    <3>1. TokensPerSec * gapu <= TokensPerSec * gapt
      BY <2>1, <2>2, TimesMono
    <3>2. gapu * TokensPerSec = TokensPerSec * gapu
          /\ gapt * TokensPerSec = TokensPerSec * gapt
          /\ TokensPerSec * gapu \in Nat /\ TokensPerSec * gapt \in Nat
      BY <2>1
    <3> QED BY <2>1, <3>1, <3>2
  <2>4. Level(k, u) = AtMost(Burst, x) /\ Level(k, t) = AtMost(Burst, y)
    BY <1>2 DEF Level
  <2> HIDE DEF x, y
  <2> QED BY <2>3, <2>4 DEF AtMost
<1> QED BY <1>1, <1>2

\* A request leaves every bucket with at most a burst.
LEMMA AllowType ==
    ASSUME BucketsOK, NEW k \in Keys, NEW t \in Nat, Allow(k, t)
    PROVE  BucketsOK'
<1> DEFINE lvl == Level(k, t)
           b == [tokens |-> IF Admits(k, t) THEN lvl - 1 ELSE lvl, last_refill |-> t]
<1>1. lvl \in 0..Burst
  BY LevelRange
<1>2. b \in Bucket
  <2>1. Admits(k, t) <=> lvl >= 1 BY DEF Admits
  <2> HIDE DEF lvl
  <2> QED BY <1>1, <2>1, RateAssumption DEF Bucket
<1>3. buckets' = [buckets EXCEPT ![k] = b]
  BY DEF Allow
<1> QED BY <1>2, <1>3 DEF BucketsOK
=============================================================================
