------------------------------ MODULE MCContacts ------------------------------
(* Instances of Contacts for TLC.                                           *)
EXTENDS Contacts, TLC

Alike == Permutations(Groups)
=============================================================================
