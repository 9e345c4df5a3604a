---------------------------- MODULE MCRateLimiter ----------------------------
(***************************************************************************)
(* Two threads that call acquire twice on a bucket of one token.           *)
(***************************************************************************)
EXTENDS RateLimiter
CONSTANTS t1, t2

MCThreads == {t1, t2}
=============================================================================
