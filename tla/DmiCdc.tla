------------------------------- MODULE DmiCdc -------------------------------
(***************************************************************************)
(* The crossing between JTAG's clock and the system's (rtl/debug/dmi_cdc.v) *)
(* and the debug module's answer behind it (rtl/debug/dm.v).  Each clock's *)
(* edge is an action of its own, and the two come in any order: a bit that *)
(* crosses is sampled before or after it changes.  The reset reaches the   *)
(* system side only.                                                       *)
(***************************************************************************)
EXTENDS Integers

CONSTANTS
  Op,         \* the operations, op code and payload together
  MaxResets,  \* resets after the first (bound)
  Calm,       \* a reset comes only to an idle port whose request toggle is low
  None

ASSUME NoOp == None \notin Op
ASSUME ResetAssumption == MaxResets \in Nat /\ Calm \in BOOLEAN

VARIABLES
  \* TCK's side
  p,          \* the payload (p_addr, p_wdata, p_op)
  reqTog,     \* req_tog
  busy,       \* busy_r
  ackSync,    \* ack_sync, newest bit first
  rsp,        \* the answer the TAP reads (rsp_rdata, rsp_op)
  \* the system's side
  rst,        \* the reset is asserted
  reqSync,    \* req_sync, newest bit first
  sysOp,      \* the operation at the debug module, or None (sys_valid and the payload)
  dmDone,     \* the operation it answers, or None (dmi_done)
  r,          \* the answer held for TCK (r_data, r_op), None when it is zero
  ackTog,     \* ack_tog
  \* what only the properties read:
  owed,       \* operations the probe has asked for less those performed
  resets      \* resets so far

tckVars == <<p, reqTog, busy, ackSync, rsp>>
sysVars == <<rst, reqSync, sysOp, dmDone, r, ackTog>>
cdcVars == <<tckVars, sysVars, owed, resets>>

Clear == <<FALSE, FALSE, FALSE>>
Shift(sync, bit) == <<bit, sync[1], sync[2]>>
Edge(sync) == sync[3] # sync[2]

CdcInit ==
  /\ p = None
  /\ reqTog = FALSE
  /\ busy = FALSE
  /\ ackSync = Clear
  /\ rsp = None
  /\ rst = FALSE
  /\ reqSync = Clear
  /\ sysOp = None
  /\ dmDone = None
  /\ r = None
  /\ ackTog = FALSE
  /\ owed = 0
  /\ resets = 0
-----------------------------------------------------------------------------
(* An edge of TCK with req up, or not, for operation op. *)

Start(op) ==
  /\ p' = op
  /\ reqTog' = ~reqTog
  /\ busy' = TRUE
  /\ owed' = owed + 1
  /\ UNCHANGED rsp

Collect ==
  /\ rsp' = r
  /\ busy' = FALSE
  /\ UNCHANGED <<p, reqTog, owed>>

TckEdgeWhileBusy(req, op) ==                  \* mutant: no test of busy_r
  /\ ackSync' = Shift(ackSync, ackTog)
  /\ \/ req /\ Start(op)
     \/ ~req /\ Edge(ackSync) /\ Collect
     \/ ~req /\ ~Edge(ackSync) /\ UNCHANGED <<p, reqTog, busy, rsp, owed>>
  /\ UNCHANGED <<sysVars, resets>>

TckEdge(req, op) ==
  /\ ackSync' = Shift(ackSync, ackTog)
  /\ \/ req /\ ~busy /\ Start(op)
     \/ ~(req /\ ~busy) /\ Edge(ackSync) /\ Collect
     \/ ~(req /\ ~busy) /\ ~Edge(ackSync) /\ UNCHANGED <<p, reqTog, busy, rsp, owed>>
  /\ UNCHANGED <<sysVars, resets>>

ClkEdgeAcksEarly ==                           \* mutant: ack_tog flips with sys_valid
  /\ ~rst
  /\ reqSync' = Shift(reqSync, reqTog)
  /\ sysOp' = IF Edge(reqSync) THEN p ELSE None
  /\ dmDone' = sysOp
  /\ r' = IF dmDone # None THEN dmDone ELSE r
  /\ ackTog' = IF sysOp # None THEN ~ackTog ELSE ackTog
  /\ owed' = IF sysOp # None THEN owed - 1 ELSE owed
  /\ UNCHANGED <<tckVars, rst, resets>>

ClkEdgeSetsAck ==                             \* mutant: ack_tog is set, not flipped
  /\ ~rst
  /\ reqSync' = Shift(reqSync, reqTog)
  /\ sysOp' = IF Edge(reqSync) THEN p ELSE None
  /\ dmDone' = sysOp
  /\ r' = IF dmDone # None THEN dmDone ELSE r
  /\ ackTog' = (ackTog \/ dmDone # None)
  /\ owed' = IF sysOp # None THEN owed - 1 ELSE owed
  /\ UNCHANGED <<tckVars, rst, resets>>

(* An edge of the system clock: the synchroniser, the register in front of  *)
(* the debug module, its answer a cycle later, and the answer's register.   *)
ClkEdge ==
  /\ ~rst
  /\ reqSync' = Shift(reqSync, reqTog)
  /\ sysOp' = IF Edge(reqSync) THEN p ELSE None
  /\ dmDone' = sysOp
  /\ r' = IF dmDone # None THEN dmDone ELSE r
  /\ ackTog' = IF dmDone # None THEN ~ackTog ELSE ackTog
  /\ owed' = IF sysOp # None THEN owed - 1 ELSE owed
  /\ UNCHANGED <<tckVars, rst, resets>>

AssertReset ==
  /\ ~rst
  /\ resets < MaxResets
  /\ Calm => ~busy /\ ~reqTog
  /\ rst' = TRUE
  /\ reqSync' = Clear
  /\ sysOp' = None
  /\ dmDone' = None
  /\ r' = None
  /\ ackTog' = FALSE
  /\ resets' = resets + 1
  /\ UNCHANGED <<tckVars, owed>>

ReleaseReset ==
  /\ rst
  /\ rst' = FALSE
  /\ UNCHANGED <<tckVars, reqSync, sysOp, dmDone, r, ackTog, owed, resets>>

SysNext == ClkEdge \/ AssertReset \/ ReleaseReset

Tick == \E req \in BOOLEAN, op \in Op : TckEdge(req, op)

Next == Tick \/ SysNext

Spec == CdcInit /\ [][Next]_cdcVars
-----------------------------------------------------------------------------
CdcTypeOK ==
  /\ p \in Op \cup {None}
  /\ reqTog \in BOOLEAN
  /\ busy \in BOOLEAN
  /\ ackSync \in BOOLEAN \X BOOLEAN \X BOOLEAN
  /\ rsp \in Op \cup {None}
  /\ rst \in BOOLEAN
  /\ reqSync \in BOOLEAN \X BOOLEAN \X BOOLEAN
  /\ sysOp \in Op \cup {None}
  /\ dmDone \in Op \cup {None}
  /\ r \in Op \cup {None}
  /\ ackTog \in BOOLEAN
  /\ owed \in Int
  /\ resets \in 0 .. MaxResets
  /\ busy => p # None

(* The places of the handshake, in order: toggled but not sampled, the two  *)
(* steps through the synchroniser, at the debug module, answered, toggled   *)
(* back, and the two steps back.                                            *)
Places == 1 .. 8
At(n) ==
  \/ n = 1 /\ reqTog # reqSync[1]
  \/ n = 2 /\ reqSync[1] # reqSync[2]
  \/ n = 3 /\ Edge(reqSync)
  \/ n = 4 /\ sysOp # None
  \/ n = 5 /\ dmDone # None
  \/ n = 6 /\ ackTog # ackSync[1]
  \/ n = 7 /\ ackSync[1] # ackSync[2]
  \/ n = 8 /\ Edge(ackSync)

(* One operation at a time goes round the handshake, if resets are calm:    *)
(* while the probe is busy it is in exactly one place and otherwise in      *)
(* none; it is owed until the debug module has it, its payload holds still  *)
(* while that is read, and the held answer is its own when TCK's side may   *)
(* look at it (dmi_cdc.v, "written in one domain, held still, and read in   *)
(* the other only after a toggle has proved it").                           *)
OneToken ==
  /\ busy <=> \E n \in Places : At(n)
  /\ \A m, n \in Places : At(m) /\ At(n) => m = n
  /\ owed = IF At(1) \/ At(2) \/ At(3) \/ At(4) THEN 1 ELSE 0
  /\ At(4) => sysOp = p
  /\ At(5) => dmDone = p
  /\ At(6) \/ At(7) \/ At(8) => r = p

(* With calm resets the crossing is the port it is meant to be: an operation*)
(* asked for is performed once, with the payload it was asked for with, and *)
(* it is its own answer that the probe reads when busy falls.               *)
Port == INSTANCE DmiPort WITH
  op <- p,
  phase <- IF ~busy THEN "idle" ELSE IF owed > 0 THEN "asked" ELSE "performed"

ImplementsPort == Port!Spec

(* Whatever the two sides are in when a reset comes, an operation asked for *)
(* is seen once (dmi_cdc.v, "whatever state the two sides power up in, the  *)
(* first real toggle is still seen as exactly one edge").                   *)
SeenOnce == owed \in {0, 1}
=============================================================================
