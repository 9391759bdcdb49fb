---------------------------- MODULE MCBootRom ----------------------------
(***************************************************************************)
(* A map of sixteen cells: 0..7 nothing, 8 the ROM's page, 9 and 10 the    *)
(* rest of block RAM, 11 nothing, 12 and 13 SDRAM, 14 and 15 nothing.  The *)
(* jobs are an image for each memory; a garbled header makes of them one   *)
(* for the ROM's page, past the end of a memory, or around the address     *)
(* space.                                                                  *)
(***************************************************************************)
EXTENDS BootRom

MCPreloads == {Zero, Ones, Token("program", 0)}
Job(a, n) == [addr |-> a, len |-> n]
MCJobs == {Job(9, 2), Job(12, 2)}
Good == [magic |-> TRUE, blocks |-> 2]
MCCards == {Absent, Good, [magic |-> FALSE, blocks |-> 1]}
=============================================================================
