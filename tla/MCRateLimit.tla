---------------------------- MODULE MCRateLimit -----------------------------
(* Three requests of one sender at a time, two admitted in a window of three  *)
(* ticks.                                                                     *)
EXTENDS RateLimit
=============================================================================
