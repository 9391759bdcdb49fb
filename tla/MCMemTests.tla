----------------------------- MODULE MCMemTests -----------------------------
(* Eight rows of eight words, four of them swept.                          *)
EXTENDS MemTests
MCRamBits == {0, 9, 18, 31}
MCDqLines == {0, 5, 8, 15}
=============================================================================
