---------------------------- MODULE MCTimedCache ----------------------------
(* Instance of TimedCache for TLC.                                          *)
EXTENDS TimedCache
=============================================================================
