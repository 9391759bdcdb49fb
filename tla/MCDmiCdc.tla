------------------------------ MODULE MCDmiCdc ------------------------------
(* Three operations, told apart by their payload.                           *)
EXTENDS DmiCdc
=============================================================================
