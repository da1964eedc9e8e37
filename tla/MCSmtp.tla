-------------------------------- MODULE MCSmtp --------------------------------
(* The instance of Smtp that TLC checks: Smtp.cfg gives the messages as model *)
(* values.                                                                  *)
EXTENDS Smtp
===============================================================================
