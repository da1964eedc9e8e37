----------------------------- MODULE MCDirectPeers -----------------------------
(* The instance of DirectPeers that TLC checks: the caller has one message     *)
(* and one file request to send, the called side one request now and one that *)
(* an earlier connection told; DirectPeers.cfg only names them.               *)
EXTENDS DirectPeers
================================================================================
