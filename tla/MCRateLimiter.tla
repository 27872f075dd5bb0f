---------------------------- MODULE MCRateLimiter ----------------------------
(* Four jobs at a limiter of three calls in a window of four ticks.         *)
EXTENDS RateLimiter
CONSTANTS j1, j2, j3, j4
const_Callers == {j1, j2, j3, j4}
=============================================================================
