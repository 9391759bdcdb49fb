------------------------------ MODULE MCSlaves ------------------------------
(***************************************************************************)
(* Two of the controllers behind the buses, side by side: they share       *)
(* nothing, a behaviour is of one of them, chosen in its first state, and  *)
(* the other stays in its initial state.                                   *)
(***************************************************************************)
EXTENDS Plic, WbSdram

VARIABLE of     \* which of the two this behaviour is of

Interrupts == of = "plic"
Remembers == of = "sdram"

(* Two sources that either of two contexts may serve; context 1 is masked   *)
(* and unmasked, its threshold moves, and source 2's priority with it.      *)
MCPriority == [s \in Sources |-> 1]
MCThreshold == [c \in Contexts |-> 0]
MCEnable == [c \in Contexts |-> Sources]

Set(op, at, val, mask) == [op |-> op, at |-> at, val |-> val, mask |-> mask]

MCSettings ==
  {Set("enable", 1, 0, mask) : mask \in {{}, Sources}}
  \cup {Set("threshold", 1, val, {}) : val \in {0, 1}}
  \cup {Set("priority", 2, val, {}) : val \in {1, 2}}

(* Two rows of two banks of eight columns: a word in each corner of the     *)
(* address, and one line; writes of every byte but the second.              *)
MCLanes == {<<TRUE, FALSE, TRUE, TRUE>>}
-----------------------------------------------------------------------------
slaveVars == <<vars, sdramVars, of>>

SlaveInit ==
  /\ of \in {"plic", "sdram"}
  /\ Init /\ SdramInit
  /\ Remembers \/ mhz = 25

SlaveNext ==
  \/ Interrupts /\ Next /\ UNCHANGED <<sdramVars, of>>
  \/ Remembers /\ Cycle /\ UNCHANGED <<vars, of>>

(* Each with the fairness it has on its own.                                *)
SlaveSpec ==
  /\ SlaveInit /\ [][SlaveNext]_slaveVars
  /\ WF_vars(Interrupts /\ Edge)
  /\ \A c \in Contexts :
       /\ WF_vars(Interrupts /\ Trap(c)) /\ WF_vars(Interrupts /\ Serve(c))
       /\ SF_vars(Interrupts /\ Issue(c))
  /\ WF_sdramVars(Remembers /\ Cycle)
=============================================================================
