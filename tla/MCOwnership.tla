------------------------------ MODULE MCOwnership ------------------------------
(* Ownership for TLC.                                                      *)
EXTENDS Ownership
===============================================================================
