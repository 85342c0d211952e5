----------------------------- MODULE RateLimiter -----------------------------
(***************************************************************************)
(* server/src/ratelimit.rs: one token bucket per sender.                   *)
(*                                                                         *)
(* Clock readings are whole seconds and the rate is a whole number, so the *)
(* f64 token counts of the code are whole numbers too.  A reading is an    *)
(* input: the wall clock can be set back between two requests.             *)
(***************************************************************************)
EXTENDS Integers

CONSTANTS
    Keys,           \* senders (public keys)
    Burst,          \* BURST
    TokensPerSec,   \* TOKENS_PER_SEC
    NoBucket        \* a key without an entry in the map

ASSUME RateAssumption == Burst \in Nat \ {0} /\ TokensPerSec \in Nat

Bucket == [tokens : 0..Burst, last_refill : Nat]

ASSUME NoBucketAssumption == NoBucket \notin Bucket

VARIABLE buckets    \* key -> Bucket, or NoBucket

BucketsOK == buckets \in [Keys -> Bucket \cup {NoBucket}]

NoBuckets == [k \in Keys |-> NoBucket]

\* u64::saturating_sub
SatSub(a, b) == IF a > b THEN a - b ELSE 0

AtMost(bound, n) == IF n < bound THEN n ELSE bound

\* Mutant: a bucket that was idle is refilled past the burst.
UncappedLevel(k, now) ==
    IF buckets[k] = NoBucket
    THEN Burst
    ELSE buckets[k].tokens + SatSub(now, buckets[k].last_refill) * TokensPerSec

\* The tokens of k after the refill a request at `now` makes first.
Level(k, now) ==
    IF buckets[k] = NoBucket
    THEN Burst
    ELSE AtMost(Burst, buckets[k].tokens
                       + SatSub(now, buckets[k].last_refill) * TokensPerSec)

\* allow returns true.
Admits(k, now) == Level(k, now) >= 1

\* Mutant: the elapsed seconds are credited, but last_refill stays at the
\* first request.
AllowForgetsRefill(k, now) ==
    buckets' = [buckets EXCEPT ![k] =
        [tokens |-> IF Admits(k, now) THEN Level(k, now) - 1 ELSE Level(k, now),
         last_refill |-> IF @ = NoBucket THEN now ELSE @.last_refill]]

\* Mutant: the token is taken before it is known whether there is one.
AllowOverdraws(k, now) ==
    buckets' = [buckets EXCEPT ![k] =
        [tokens |-> Level(k, now) - 1, last_refill |-> now]]

\* allow: refill, move last_refill (back too), take a token if there is one.
Allow(k, now) ==
    buckets' = [buckets EXCEPT ![k] =
        [tokens |-> IF Admits(k, now) THEN Level(k, now) - 1 ELSE Level(k, now),
         last_refill |-> now]]
=============================================================================
