------------------------------- MODULE MCIrqRun -------------------------------
(* Small times: a byte takes longer than its handler, a period longer than   *)
(* the handler and the stalls, and the loops several of each.                *)
EXTENDS IrqRun

MCMessage == <<97, 98, 99>>
MCPassTimes == {9, 13, 16, 17}
=============================================================================
