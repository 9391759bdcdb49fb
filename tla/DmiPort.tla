------------------------------ MODULE DmiPort ------------------------------
(***************************************************************************)
(* What the crossing between the debug probe's clock and the system's      *)
(* promises: the probe asks for one operation at a time, the debug module  *)
(* performs each once, and the probe is answered with what that very       *)
(* operation returned (rtl/debug/dmi_cdc.v, the handshake of its header).  *)
(***************************************************************************)
CONSTANTS Op, None

VARIABLES
  phase,    \* "idle", "asked" or "performed"
  op,       \* the operation asked for last
  rsp       \* what the probe was answered last: the operation the answer is of

vars == <<phase, op, rsp>>

Init == phase = "idle" /\ op = None /\ rsp = None

Ask ==
  /\ phase = "idle"
  /\ phase' = "asked"
  /\ op' \in Op
  /\ UNCHANGED rsp

Perform ==
  /\ phase = "asked"
  /\ phase' = "performed"
  /\ UNCHANGED <<op, rsp>>

Answer ==
  /\ phase = "performed"
  /\ phase' = "idle"
  /\ rsp' = op
  /\ UNCHANGED op

Next == Ask \/ Perform \/ Answer

Spec == Init /\ [][Next]_vars
=============================================================================
