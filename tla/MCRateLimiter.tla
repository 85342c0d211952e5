---------------------------- MODULE MCRateLimiter ----------------------------
(***************************************************************************)
(* Instance of RateLimiterWindow for TLC.                                  *)
(***************************************************************************)
EXTENDS RateLimiterWindow
=============================================================================
