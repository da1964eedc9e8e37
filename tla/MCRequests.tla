------------------------------ MODULE MCRequests ------------------------------
(* Instances of Requests for TLC: one contact object, and a user without.   *)
EXTENDS Requests, TLC

CONSTANTS obj, A, B

OnlyA == (obj :> A)
=============================================================================
