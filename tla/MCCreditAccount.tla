-------------------------- MODULE MCCreditAccount --------------------------
(* CreditAccount on small instances: two payments, of which one may be annual *)
(* or stand alone above the window's own.                                     *)
EXTENDS CreditAccount

CONSTANTS u1, u2
=============================================================================
