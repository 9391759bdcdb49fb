------------------------------ MODULE Absence ------------------------------
(* A value that is none of the others: no byte, no card, no fault, no trap. *)
CONSTANT Absent
=============================================================================
