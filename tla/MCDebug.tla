------------------------------ MODULE MCDebug ------------------------------
(***************************************************************************)
(* The crossing of DmiCdc twice over: alone, under a probe that asks for   *)
(* whatever it likes and resets that come while the port is idle, and      *)
(* behind the TAP of JtagTap, under a host that drives TMS and TDI.  Which *)
(* of the two a behaviour is of is chosen in its first state.  The data    *)
(* register has three bits: the op code, and one bit of payload.           *)
(***************************************************************************)
EXTENDS JtagTap

VARIABLE alone

debugVars == <<jtagVars, alone>>

DebugInit == Init /\ alone \in BOOLEAN

DebugNext ==
  /\ \/ alone /\ Next /\ UNCHANGED tapVars
     \/ ~alone /\ JtagNext /\ UNCHANGED resets
  /\ UNCHANGED alone

(* The system clock always runs and a reset is released; TCK may stop.      *)
(* Liveness is checked of the crossing alone: with the TAP before it, the   *)
(* crossing takes the same steps (DebugProofs, TapDrivesAPort).             *)
DebugSpec ==
  /\ DebugInit /\ [][DebugNext]_debugVars
  /\ WF_cdcVars(alone /\ ClkEdge) /\ WF_cdcVars(alone /\ ReleaseReset)
-----------------------------------------------------------------------------
(* An operation asked for is performed even if TCK has stopped (dmi_cdc.v,  *)
(* "it must not depend on TCK ticking to make progress on the system side").*)
PerformedWithoutTck == []<>(alone => owed = 0)

(* The probe is never busy for ever if it keeps TCK running while it waits  *)
(* (dmi_cdc.v: nothing clears busy_r but the answer), calm resets included. *)
BusyFalls == WF_cdcVars(alone /\ Tick) => []<>(alone => ~busy)

(* Both: the handshake never stops half way.                                *)
HandshakeEnds == PerformedWithoutTck /\ BusyFalls
=============================================================================
