-------------------------- MODULE RateLimiterWindow --------------------------
(***************************************************************************)
(* The rate limiter under a clock and an observer.  The observer may open  *)
(* a new window at any moment (Watch); from then on it counts the requests *)
(* admitted per sender, the seconds the clock moved forward and the        *)
(* restarts of the server, whose buckets live in memory only.              *)
(***************************************************************************)
EXTENDS RateLimiter

CONSTANTS
    MaxTime,        \* bound on the clock
    MaxElapsed,     \* bound on the seconds of one window
    MaxRestarts     \* bound on the restarts in one window

VARIABLES
    now,            \* the wall clock
    elapsed,        \* seconds the clock moved forward in this window
    restarts,       \* restarts in this window
    admitted        \* requests admitted per key in this window

windowVars == <<buckets, now, elapsed, restarts, admitted>>

TypeOK ==
    /\ BucketsOK
    /\ now \in Nat
    /\ elapsed \in Nat
    /\ restarts \in Nat
    /\ admitted \in [Keys -> Nat]

Init ==
    /\ buckets = NoBuckets
    /\ now \in 0..MaxTime
    /\ elapsed = 0
    /\ restarts = 0
    /\ admitted = [k \in Keys |-> 0]

\* A request of k reaches the limiter (transport.rs, route).
Request(k) ==
    /\ Allow(k, now)
    /\ admitted' = [admitted EXCEPT ![k] = IF Admits(k, now) THEN @ + 1 ELSE @]
    /\ UNCHANGED <<now, elapsed, restarts>>

\* Time passes, or the clock is set forward.
Advance ==
    /\ \E d \in 1..MaxElapsed :
          /\ now + d <= MaxTime
          /\ elapsed + d <= MaxElapsed
          /\ now' = now + d
          /\ elapsed' = elapsed + d
    /\ UNCHANGED <<buckets, restarts, admitted>>

\* The clock is set back (NTP, an administrator).
SetBack ==
    /\ \E t \in 0..MaxTime : t < now /\ now' = t
    /\ UNCHANGED <<buckets, elapsed, restarts, admitted>>

\* A new process starts with no buckets.
Restart ==
    /\ restarts < MaxRestarts
    /\ restarts' = restarts + 1
    /\ buckets' = NoBuckets
    /\ UNCHANGED <<now, elapsed, admitted>>

\* The observer opens a new window.
Watch ==
    /\ elapsed' = 0
    /\ restarts' = 0
    /\ admitted' = [k \in Keys |-> 0]
    /\ UNCHANGED <<buckets, now>>

Next == (\E k \in Keys : Request(k)) \/ Advance \/ SetBack \/ Restart \/ Watch

Spec == Init /\ [][Next]_windowVars
-----------------------------------------------------------------------------
(* Property *)

\* PROTOCOL.md section 7 (60 requests a minute, burst 10), over EVERY window
\* and not only from an empty bucket: however a sender spaces its requests,
\* refused ones included, and however the clock is set, a window admits at
\* most one burst (one more for each restart in it) plus the rate times the
\* seconds the clock moved forward.
WindowBound ==
    \A k \in Keys :
        admitted[k] <= Burst * (restarts + 1) + TokensPerSec * elapsed
=============================================================================
