----------------------------- MODULE MCJtagTap -----------------------------
(* A data register of three bits: the op code, and one bit of payload.      *)
EXTENDS JtagTap
=============================================================================
