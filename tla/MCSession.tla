------------------------------ MODULE MCSession ------------------------------
(* The instance of Session that TLC checks: Session.cfg gives the contacts and *)
(* the bound on FLAPs under way as model values and a number.               *)
EXTENDS Session
=============================================================================
