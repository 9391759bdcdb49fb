---------------------------- MODULE DebugProofs ----------------------------
(***************************************************************************)
(* The debugger's way in.  While resets are calm the crossing is the port  *)
(* it is meant to be, whatever the payloads and however many the resets:   *)
(* the handshake carries one token, and each step of either clock moves it *)
(* one place or is a step of DmiPort.  In front of it the TAP asks nothing *)
(* of the crossing that this does not hold for, and what the host reads    *)
(* from its scans is true, however long the data register is and whatever  *)
(* the host drives, as long as it never pauses a data scan.                *)
(***************************************************************************)
EXTENDS JtagTap, NatSets
-----------------------------------------------------------------------------
(* The crossing. *)

(* The toggles differ exactly while an operation has not been answered: why *)
(* a reset that clears ack_tog clears nothing when req_tog is low.          *)
Parity == reqTog # ackTog <=> \E n \in 1 .. 5 : At(n)

IInv == CdcTypeOK /\ OneToken /\ Parity

(* The handshake at power-up.                                               *)
LEMMA InitEstablishesIInv == CdcInit => IInv
<1> SUFFICES ASSUME CdcInit
             PROVE  IInv
  OBVIOUS
<1>1. /\ Clear \in BOOLEAN \X BOOLEAN \X BOOLEAN
      /\ Clear[1] = FALSE /\ Clear[2] = FALSE /\ Clear[3] = FALSE
  BY DEF Clear
<1>2. CdcTypeOK
  <2>1. ackSync \in BOOLEAN \X BOOLEAN \X BOOLEAN /\ reqSync \in BOOLEAN \X BOOLEAN \X BOOLEAN
    BY <1>1 DEF CdcInit
  <2>2. reqTog \in BOOLEAN /\ busy \in BOOLEAN /\ rst \in BOOLEAN /\ ackTog \in BOOLEAN
    BY DEF CdcInit
  <2> QED
    BY <2>1, <2>2, ResetAssumption DEF CdcInit, CdcTypeOK
<1>3. /\ reqTog = reqSync[1] /\ reqSync[1] = reqSync[2] /\ reqSync[2] = reqSync[3]
      /\ ackTog = ackSync[1] /\ ackSync[1] = ackSync[2] /\ ackSync[2] = ackSync[3]
      /\ sysOp = None /\ dmDone = None /\ reqTog = ackTog
  BY <1>1 DEF CdcInit
<1>4. \A n \in Places : ~At(n)
  BY <1>3 DEF Places, At, Edge
<1>5. OneToken
  BY <1>4 DEF CdcInit, OneToken, Places
<1>6. Parity
  BY <1>3, <1>4 DEF Parity, Places
<1> QED
  BY <1>2, <1>5, <1>6 DEF IInv

(* An edge of TCK keeps the invariant.                                      *)
LEMMA TckKeepsIInv ==
  ASSUME IInv, NEW req \in BOOLEAN, NEW op \in Op, TckEdge(req, op)
  PROVE  IInv'
<1>1. CdcTypeOK'
  <2>1. CASE req /\ ~busy /\ Start(op)
    <3>1. ackSync' \in BOOLEAN \X BOOLEAN \X BOOLEAN
      BY DEF IInv, CdcTypeOK, TckEdge, Shift
    <3>2. p' \in Op /\ p' # None /\ reqTog' \in BOOLEAN /\ busy' \in BOOLEAN /\ owed' \in Int
      BY <2>1, NoOp DEF IInv, CdcTypeOK, Start
    <3> QED
      BY <2>1, <3>1, <3>2 DEF IInv, CdcTypeOK, TckEdge, Start, sysVars
  <2>2. CASE ~(req /\ ~busy) /\ Edge(ackSync) /\ Collect
    <3>1. ackSync' \in BOOLEAN \X BOOLEAN \X BOOLEAN
      BY DEF IInv, CdcTypeOK, TckEdge, Shift
    <3>2. busy' \in BOOLEAN
      BY <2>2 DEF Collect
    <3> QED
      BY <2>2, <3>1, <3>2 DEF IInv, CdcTypeOK, TckEdge, Collect, sysVars
  <2>3. CASE ~(req /\ ~busy) /\ ~Edge(ackSync) /\ UNCHANGED <<p, reqTog, busy, rsp, owed>>
    <3>1. ackSync' \in BOOLEAN \X BOOLEAN \X BOOLEAN
      BY DEF IInv, CdcTypeOK, TckEdge, Shift
    <3> QED
      BY <2>3, <3>1 DEF IInv, CdcTypeOK, TckEdge, sysVars
  <2> QED
    BY <2>1, <2>2, <2>3 DEF TckEdge
<1>2. OneToken' /\ Parity'
  BY NoOp DEF IInv, CdcTypeOK, OneToken, Parity, Places, At, TckEdge, Start, Collect,
              Shift, Edge, sysVars
<1> QED
  BY <1>1, <1>2 DEF IInv

(* So does an edge of the system clock.                                     *)
LEMMA ClkKeepsIInv ==
  ASSUME IInv, ClkEdge
  PROVE  IInv'
<1>1. CdcTypeOK'
  BY DEF IInv, CdcTypeOK, OneToken, Places, At, ClkEdge, Shift, Edge, tckVars
<1>2. OneToken' /\ Parity'
  BY NoOp DEF IInv, CdcTypeOK, OneToken, Parity, Places, At, ClkEdge, Shift, Edge, tckVars
<1> QED
  BY <1>1, <1>2 DEF IInv

(* A calm reset clears only what is clear already.                          *)
LEMMA ResetKeepsIInv ==
  ASSUME Calm \/ MaxResets = 0, IInv, AssertReset
  PROVE  IInv'
<1>1. Calm /\ ~busy /\ ~reqTog
  BY ResetAssumption DEF IInv, CdcTypeOK, AssertReset
<1>2. \A n \in Places : ~At(n)
  BY <1>1 DEF IInv, OneToken
<1>3. /\ ~At(1) /\ ~At(2) /\ ~At(3) /\ ~At(6) /\ ~At(7) /\ ~At(8)
      /\ ~\E n \in 1 .. 5 : At(n)
  BY <1>2 DEF Places
<1>4. ~ackTog /\ owed = 0
  BY <1>1, <1>2, <1>3 DEF IInv, CdcTypeOK, Parity, OneToken, Places
<1>5. UNCHANGED <<p, reqTog, busy, ackSync, rsp, owed>>
  BY DEF AssertReset, tckVars
<1>6. /\ Clear \in BOOLEAN \X BOOLEAN \X BOOLEAN
      /\ Clear[1] = FALSE /\ Clear[2] = FALSE /\ Clear[3] = FALSE
  BY DEF Clear
<1>7. reqSync' = Clear /\ sysOp' = None /\ dmDone' = None /\ r' = None /\ ackTog' = FALSE
      /\ rst' = TRUE /\ resets' = resets + 1 /\ resets < MaxResets
  BY DEF AssertReset
<1>8. CdcTypeOK'
  <2>1. reqSync' \in BOOLEAN \X BOOLEAN \X BOOLEAN /\ rst' \in BOOLEAN /\ ackTog' \in BOOLEAN
    BY <1>6, <1>7
  <2>2. resets' \in 0 .. MaxResets
    BY <1>7, ResetAssumption DEF IInv, CdcTypeOK
  <2> QED
    BY <1>5, <1>7, <2>1, <2>2 DEF IInv, CdcTypeOK
<1>9. /\ reqTog' = reqSync'[1] /\ reqSync'[1] = reqSync'[2] /\ reqSync'[2] = reqSync'[3]
      /\ reqTog' = FALSE
  BY <1>1, <1>5, <1>6, <1>7 DEF IInv, CdcTypeOK
<1>10. ackTog' = ackSync'[1] /\ ackSync'[1] = ackSync'[2] /\ ackSync'[2] = ackSync'[3]
  BY <1>3, <1>4, <1>5, <1>7 DEF IInv, CdcTypeOK, At, Edge
<1>11. \A n \in Places : ~At(n)'
  BY <1>7, <1>9, <1>10 DEF Places, At, Edge
<1>12. OneToken'
  BY <1>1, <1>4, <1>5, <1>11 DEF OneToken, Places
<1>13. Parity'
  <2>1. reqTog' = ackTog'
    BY <1>7, <1>9
  <2>2. ~\E n \in 1 .. 5 : At(n)'
    BY <1>11 DEF Places
  <2> QED
    BY <2>1, <2>2 DEF Parity
<1> QED
  BY <1>8, <1>12, <1>13 DEF IInv

(* What changes none of the handshake's registers keeps the invariant.      *)
LEMMA QuietKeepsIInv ==
  ASSUME IInv, rst' \in BOOLEAN,
         UNCHANGED <<p, reqTog, busy, ackSync, rsp, reqSync, sysOp, dmDone, r, ackTog,
                     owed, resets>>
  PROVE  IInv'
<1>1. CdcTypeOK'
  BY DEF IInv, CdcTypeOK
<1>2. OneToken'
  BY DEF IInv, OneToken, At, Edge
<1>3. Parity'
  BY DEF IInv, Parity, At, Edge
<1> QED
  BY <1>1, <1>2, <1>3 DEF IInv

(* Every step keeps the invariant while resets are calm.                    *)
LEMMA StepKeepsIInv ==
  ASSUME Calm \/ MaxResets = 0, IInv, [Next]_cdcVars
  PROVE  IInv'
<1>1. CASE UNCHANGED cdcVars
  BY <1>1, QuietKeepsIInv DEF cdcVars, tckVars, sysVars, IInv, CdcTypeOK
<1>2. CASE ReleaseReset
  BY <1>2, QuietKeepsIInv DEF ReleaseReset, tckVars
<1> QED
  BY <1>1, <1>2, TckKeepsIInv, ClkKeepsIInv, ResetKeepsIInv DEF Next, Tick, SysNext

(* What a step is in DmiPort's terms.                                       *)
LEMMA StepIsPortStep ==
  ASSUME IInv, [Next]_cdcVars
  PROVE  [Port!Next]_(Port!vars)
<1>1. ASSUME NEW req \in BOOLEAN, NEW op \in Op, TckEdge(req, op)
      PROVE  [Port!Next]_(Port!vars)
  <2>1. CASE req /\ ~busy /\ Start(op)
    BY <1>1, <2>1 DEF IInv, CdcTypeOK, OneToken, Places, Port!Next, Port!Ask, Start
  <2>2. CASE ~(req /\ ~busy) /\ Edge(ackSync) /\ Collect
    <3>1. At(8) /\ 8 \in Places
      BY <2>2 DEF At, Places
    <3>2. busy /\ r = p /\ owed = 0
      BY <3>1 DEF IInv, OneToken, Places
    <3> QED
      BY <2>2, <3>2 DEF Port!Next, Port!Answer, Collect
  <2>3. CASE ~(req /\ ~busy) /\ ~Edge(ackSync) /\ UNCHANGED <<p, reqTog, busy, rsp, owed>>
    BY <2>3 DEF Port!vars
  <2> QED
    BY <1>1, <2>1, <2>2, <2>3 DEF TckEdge
<1>2. ASSUME ClkEdge
      PROVE  [Port!Next]_(Port!vars)
  <2>1. CASE sysOp = None
    BY <1>2, <2>1 DEF ClkEdge, tckVars, Port!vars
  <2>2. CASE sysOp # None
    <3>1. At(4) /\ 4 \in Places
      BY <2>2 DEF At, Places
    <3>2. busy /\ owed = 1
      BY <3>1 DEF IInv, OneToken, Places
    <3> QED
      BY <1>2, <2>2, <3>2 DEF ClkEdge, tckVars, Port!Next, Port!Perform
  <2> QED
    BY <2>1, <2>2
<1>3. CASE AssertReset \/ ReleaseReset
  BY <1>3 DEF AssertReset, ReleaseReset, tckVars, Port!vars
<1>4. CASE UNCHANGED cdcVars
  BY <1>4 DEF cdcVars, tckVars, Port!vars
<1> QED
  BY <1>1, <1>2, <1>3, <1>4 DEF Next, Tick, SysNext

(* The handshake carries one token, if resets are calm: an operation in     *)
(* flight is in one place, its payload still and its answer its own.        *)
THEOREM OneTokenGoesRound ==
  ASSUME Calm \/ MaxResets = 0
  PROVE  Spec => []OneToken
<1>1. IInv => OneToken
  BY DEF IInv
<1>2. IInv /\ [Next]_cdcVars => IInv'
  BY StepKeepsIInv
<1> QED
  BY <1>1, <1>2, InitEstablishesIInv, PTL DEF Spec

(* If resets are calm the crossing implements the port: each operation      *)
(* asked for is performed once and answered with its own answer.            *)
THEOREM CrossingIsAPort ==
  ASSUME Calm \/ MaxResets = 0
  PROVE  Spec => ImplementsPort
<1>1. CdcInit => Port!Init
  BY DEF CdcInit, Port!Init
<1>2. IInv /\ [Next]_cdcVars => IInv'
  BY StepKeepsIInv
<1>3. IInv /\ [Next]_cdcVars => [Port!Next]_(Port!vars)
  BY StepIsPortStep
<1> QED
  BY <1>1, <1>2, <1>3, InitEstablishesIInv, PTL DEF Spec, ImplementsPort, Port!Spec
-----------------------------------------------------------------------------
(* The TAP. *)

(* While the host does not pause, it is the TAP's state that makes a        *)
(* request: the pulse is in Update-DR, for an op code other than no-op.     *)
RequestIsOp == dmiReq => Code(dr) # 0

NeverPaused == ~Pauses => state \notin {"PAUSE_DR", "EXIT2_DR"}

RequestStands == ~Pauses => RequestInUpdateDr

(* A port that is busy when a scan ends was busy when the scan captured.    *)
BusyIsTold ==
  ~Pauses /\ state \in {"SHIFT_DR", "EXIT1_DR"} /\ ir = "DMI" /\ busy => told = Busy

TapInv ==
  /\ JtagTypeOK
  /\ RequestIsOp
  /\ NeverPaused
  /\ RequestStands
  /\ BusyIsTold
  /\ AnswerIsOfLast
  /\ ~Pauses => MissedIsTold

JInv == IInv /\ TapInv

(* The data register holds a multiple of four values, twice as many as      *)
(* there are without its top bit.                                           *)
LEMMA DrValues ==
  \E q \in Nat \ {0} : 2 ^ DrLen = 4 * q /\ 2 ^ (DrLen - 1) = 2 * q
<1>1. DrLen - 2 \in Nat /\ DrLen - 1 \in Nat
      /\ DrLen - 2 + 1 = DrLen - 1 /\ DrLen - 1 + 1 = DrLen
  BY DrAssumption
<1>2. /\ 2 ^ (DrLen - 2) \in Nat \ {0}
      /\ 2 ^ (DrLen - 2 + 1) = 2 * (2 ^ (DrLen - 2))
  BY <1>1, PowersDouble
<1>3. 2 ^ (DrLen - 1 + 1) = 2 * (2 ^ (DrLen - 1))
  BY <1>1, PowersDouble
<1> DEFINE q == 2 ^ (DrLen - 2)
           h == 2 ^ (DrLen - 1)
           d == 2 ^ DrLen
<1>4. q \in Nat \ {0} /\ h = 2 * q /\ d = 2 * h
  BY <1>1, <1>2, <1>3
<1> HIDE DEF q, h, d
<1>5. q \in Nat \ {0} /\ d = 4 * q /\ h = 2 * q
  BY <1>4
<1> QED
  BY <1>5 DEF d, h

(* An operation is a record whose rest leaves room for the op code.         *)
LEMMA OpsFit ==
  /\ \A o \in Op : o.rest \in Nat /\ 3 + 4 * o.rest \in 0 .. 2 ^ DrLen - 1
  /\ \A v \in 0 .. 2 ^ DrLen - 1 : Code(v) # 0 => Payload(v) \in Op
  /\ Op # {}
<1>1. PICK q \in Nat \ {0} : 2 ^ DrLen = 4 * q
  BY DrValues
<1>2. ASSUME NEW o \in Op
      PROVE  o.rest \in Nat /\ 3 + 4 * o.rest \in 0 .. 2 ^ DrLen - 1
  <2>1. PICK v \in 0 .. 2 ^ DrLen - 1 : o = Payload(v)
    BY OpAssumption DEF Payloads
  <2>2. v \in Nat /\ v <= 4 * q - 1
    BY <1>1, <2>1
  <2>3. o.rest = v \div 4
    BY <2>1 DEF Payload
  <2>4. v \div 4 \in Nat /\ 3 + 4 * (v \div 4) \in 0 .. 4 * q - 1
    BY <2>2
  <2> QED
    BY <1>1, <2>3, <2>4
<1>3. ASSUME NEW v \in 0 .. 2 ^ DrLen - 1, Code(v) # 0
      PROVE  Payload(v) \in Op
  BY <1>3, OpAssumption DEF Payloads
<1>4. 1 \in 0 .. 2 ^ DrLen - 1 /\ Code(1) # 0
  <2>1. 1 \in 0 .. 4 * q - 1
    OBVIOUS
  <2> QED
    BY <1>1, <2>1 DEF Code
<1> QED
  BY <1>2, <1>3, <1>4

(* Where the arrows of the state machine lead, and where those that matter  *)
(* come from.                                                               *)
LEMMA ArrowFacts ==
  ASSUME state \in DOMAIN Arrows, NEW tms \in BOOLEAN
  PROVE  /\ NextState(tms) \in DOMAIN Arrows
         /\ NextState(tms) = "SHIFT_DR" => state \in {"CAPTURE_DR", "SHIFT_DR", "EXIT2_DR"}
         /\ NextState(tms) = "EXIT1_DR" => state \in {"CAPTURE_DR", "SHIFT_DR"}
         /\ NextState(tms) = "PAUSE_DR" => (state = "EXIT1_DR" /\ ~tms) \/ state = "PAUSE_DR"
         /\ NextState(tms) = "EXIT2_DR" => state = "PAUSE_DR"
         /\ NextState(tms) = "UPDATE_DR" => state \in {"EXIT1_DR", "EXIT2_DR"}
         /\ state = "EXIT1_DR" /\ tms => NextState(tms) = "UPDATE_DR"
  BY DEF NextState, Arrows

(* Reset, where nothing has been asked for.                                 *)
LEMMA TapStartsWell == Init => JInv
<1> SUFFICES ASSUME Init
             PROVE  JInv
  OBVIOUS
<1>1. IInv
  BY InitEstablishesIInv DEF Init
<1>2. 0 \in 0 .. 2 ^ DrLen - 1
  <2>1. PICK q \in Nat \ {0} : 2 ^ DrLen = 4 * q
    BY DrValues
  <2>2. 0 \in 0 .. 4 * q - 1
    OBVIOUS
  <2> QED
    BY <2>1, <2>2
<1>3. "TEST_LOGIC_RESET" \in DOMAIN Arrows
  BY DEF Arrows
<1>4. JtagTypeOK
  BY <1>1, <1>2, <1>3 DEF Init, IInv, JtagTypeOK, Instructions
<1>5. rsp = p
  BY DEF Init, CdcInit
<1>6. state = "TEST_LOGIC_RESET" /\ ~dmiReq
  BY DEF Init
<1> QED
  BY <1>1, <1>4, <1>5, <1>6
     DEF JInv, TapInv, RequestIsOp, NeverPaused, RequestStands, RequestInUpdateDr, BusyIsTold,
         AnswerIsOfLast, MissedIsTold

(* An edge of TCK at the TAP is one of the crossing's: what is in the data  *)
(* register when a request is up is an operation.                           *)
LEMMA TapEdgeIsTckEdge ==
  ASSUME JInv, NEW tms \in BOOLEAN, NEW tdi \in BOOLEAN, NEW shifted \in Instructions,
         TapEdge(tms, tdi, shifted)
  PROVE  \E op \in Op : TckEdge(dmiReq, op)
<1>1. dmiReq \in BOOLEAN /\ dr \in 0 .. 2 ^ DrLen - 1 /\ TckEdge(dmiReq, Payload(dr))
  BY DEF JInv, TapInv, JtagTypeOK, TapEdge
<1>2. CASE dmiReq
  BY <1>1, <1>2, OpsFit DEF JInv, TapInv, RequestIsOp
<1>3. CASE ~dmiReq
  <2>1. PICK o \in Op : TRUE
    BY OpsFit
  <2>2. TckEdge(dmiReq, o)
    BY <1>1, <1>3 DEF TckEdge
  <2> QED
    BY <2>2
<1> QED
  BY <1>1, <1>2, <1>3

(* The data register keeps its width.                                       *)
LEMMA DrStaysInRange ==
  ASSUME JInv, NEW tdi \in BOOLEAN
  PROVE  DrAfter(tdi) \in 0 .. 2 ^ DrLen - 1
<1>1. PICK q \in Nat \ {0} : 2 ^ DrLen = 4 * q /\ 2 ^ (DrLen - 1) = 2 * q
  BY DrValues
<1>2. dr \in 0 .. 4 * q - 1 /\ dr \in Nat
  BY <1>1 DEF JInv, TapInv, JtagTypeOK
<1>3. CASE state = "CAPTURE_DR"
  <2>1. DrAfter(tdi) = Captured
    BY <1>3 DEF DrAfter
  <2>2. CASE ir = "DMI"
    <3>1. Status \in 0 .. 3
      BY DEF Status, Busy
    <3>2. rsp = None \/ rsp \in Op
      BY DEF JInv, IInv, CdcTypeOK
    <3> DEFINE rest == IF rsp = None THEN 0 ELSE rsp.rest
    <3>3. rest \in Nat /\ 3 + 4 * rest <= 4 * q - 1
      BY <1>1, <3>2, OpsFit
    <3>4. Captured = Status + 4 * rest
      BY <2>2 DEF Captured
    <3> HIDE DEF rest
    <3>5. Status + 4 * rest \in 0 .. 4 * q - 1
      BY <3>1, <3>3
    <3> QED
      BY <1>1, <2>1, <3>4, <3>5
  <2>3. CASE ir # "DMI"
    <3>1. dmistat \in 0 .. 3
      BY DEF JInv, TapInv, JtagTypeOK, Busy
    <3>2. Captured \in 0 .. 3
      BY <2>3, <3>1 DEF Captured
    <3>3. 0 .. 3 \subseteq 0 .. 4 * q - 1
      OBVIOUS
    <3> QED
      BY <1>1, <2>1, <3>2, <3>3
  <2> QED
    BY <2>2, <2>3
<1>4. CASE state = "SHIFT_DR"
  <2>1. DrAfter(tdi) = Shifted(tdi)
    BY <1>4 DEF DrAfter
  <2>2. dr \div 2 \in 0 .. 2 * q - 1
    BY <1>2
  <2>3. Shifted(tdi) \in {0, dr \div 2 + 0, dr \div 2 + 2 * q}
    BY <1>1 DEF Shifted
  <2>4. Shifted(tdi) \in 0 .. 4 * q - 1
    BY <2>2, <2>3
  <2> QED
    BY <1>1, <2>1, <2>4
<1>5. CASE state \notin {"CAPTURE_DR", "SHIFT_DR"}
  <2>1. DrAfter(tdi) = dr
    BY <1>5 DEF DrAfter
  <2> QED
    BY <1>1, <1>2, <2>1
<1> QED
  BY <1>3, <1>4, <1>5

(* An edge of TCK keeps the invariant.                                      *)
LEMMA TapEdgeKeepsJInv ==
  ASSUME JInv, NEW tms \in BOOLEAN, NEW tdi \in BOOLEAN, NEW shifted \in Instructions,
         TapEdge(tms, tdi, shifted)
  PROVE  JInv'
<1>1. PICK op \in Op : TckEdge(dmiReq, op)
  BY TapEdgeIsTckEdge
<1>2. dmiReq \in BOOLEAN /\ state \in DOMAIN Arrows
  BY DEF JInv, TapInv, JtagTypeOK
<1>3. IInv'
  BY <1>1, <1>2, TckKeepsIInv DEF JInv
<1>4. /\ state' = NextState(tms) /\ ir' = IrAfter(shifted) /\ dr' = DrAfter(tdi)
      /\ dmistat' = DmistatAfter /\ dmiReq' = Requests
      /\ told' = IF state = "CAPTURE_DR" /\ ir = "DMI" THEN Status ELSE told
      /\ state = "EXIT1_DR" => tms \/ Pauses
  BY DEF TapEdge
<1>5. JtagTypeOK'
  <2>1. dr' \in 0 .. 2 ^ DrLen - 1
    BY <1>4, DrStaysInRange
  <2>2. state' \in DOMAIN Arrows
    BY <1>2, <1>4, ArrowFacts
  <2>3. ir' \in Instructions
    BY <1>4 DEF JInv, TapInv, JtagTypeOK, IrAfter, Instructions
  <2>4. dmistat' \in {0, Busy} /\ dmiReq' \in BOOLEAN /\ told' \in {0, Busy}
    BY <1>4 DEF JInv, TapInv, JtagTypeOK, DmistatAfter, Requests, Status
  <2>5. CdcTypeOK'
    BY <1>3 DEF IInv
  <2> QED
    BY <2>1, <2>2, <2>3, <2>4, <2>5 DEF JtagTypeOK
<1>6. RequestIsOp'
  <2>1. SUFFICES ASSUME dmiReq'
                 PROVE  Code(dr') # 0
    BY DEF RequestIsOp
  <2>2. state = "EXIT1_DR" /\ Code(dr) # 0
    BY <1>4, <2>1 DEF Requests
  <2>3. dr' = dr
    BY <1>4, <2>2 DEF DrAfter
  <2> QED
    BY <2>2, <2>3
<1>7. NeverPaused'
  BY <1>2, <1>4, ArrowFacts DEF JInv, TapInv, NeverPaused
<1>8. RequestStands'
  <2>1. SUFFICES ASSUME ~Pauses, dmiReq'
                 PROVE  state' = "UPDATE_DR"
    BY DEF RequestStands, RequestInUpdateDr
  <2>2. state = "EXIT1_DR" /\ tms
    BY <1>4, <2>1 DEF Requests
  <2> QED
    BY <1>2, <1>4, <2>2, ArrowFacts
(* Busy rises with a request only, and a request is never up before the     *)
(* state that this one is about.                                            *)
<1>9. ASSUME busy', ~(dmiReq /\ ~busy)
      PROVE  busy
  BY <1>1, <1>9 DEF TckEdge, Collect
<1>10. BusyIsTold'
  <2>1. SUFFICES ASSUME ~Pauses, state' \in {"SHIFT_DR", "EXIT1_DR"}, ir' = "DMI", busy'
                 PROVE  told' = Busy
    BY DEF BusyIsTold
  <2>2. state \in {"CAPTURE_DR", "SHIFT_DR"}
    BY <1>2, <1>4, <2>1, ArrowFacts DEF JInv, TapInv, NeverPaused
  <2>3. ~dmiReq
    BY <2>1, <2>2 DEF JInv, TapInv, RequestStands, RequestInUpdateDr
  <2>4. busy
    BY <1>9, <2>1, <2>3
  <2>5. ir = "DMI"
    BY <1>4, <2>1, <2>2 DEF IrAfter
  <2>6. CASE state = "CAPTURE_DR"
    BY <1>4, <2>4, <2>5, <2>6 DEF Status
  <2>7. CASE state = "SHIFT_DR"
    BY <1>4, <2>1, <2>4, <2>5, <2>7 DEF JInv, TapInv, BusyIsTold
  <2> QED
    BY <2>2, <2>6, <2>7
<1>11. AnswerIsOfLast'
  <2>1. SUFFICES ASSUME ~busy'
                 PROVE  rsp' = p'
    BY DEF AnswerIsOfLast
  <2>2. CASE dmiReq /\ ~busy /\ Start(op)
    BY <2>1, <2>2 DEF Start
  <2>3. CASE ~(dmiReq /\ ~busy) /\ Edge(ackSync) /\ Collect
    <3>1. At(8) /\ 8 \in Places
      BY <2>3 DEF At, Places
    <3>2. r = p
      BY <3>1 DEF JInv, IInv, OneToken
    <3> QED
      BY <2>3, <3>2 DEF Collect
  <2>4. CASE ~(dmiReq /\ ~busy) /\ ~Edge(ackSync)
             /\ UNCHANGED <<p, reqTog, busy, rsp, owed>>
    BY <2>1, <2>4 DEF JInv, TapInv, AnswerIsOfLast
  <2> QED
    BY <1>1, <2>2, <2>3, <2>4 DEF TckEdge
<1>12. ~Pauses => MissedIsTold'
  <2>1. SUFFICES ASSUME ~Pauses, state' = "UPDATE_DR", ir' = "DMI", Code(dr') # 0, ~dmiReq'
                 PROVE  told' = Busy
    BY DEF MissedIsTold
  <2>2. state = "EXIT1_DR"
    BY <1>2, <1>4, <2>1, ArrowFacts DEF JInv, TapInv, NeverPaused
  <2>3. ir = "DMI" /\ dr' = dr /\ told' = told
    BY <1>4, <2>1, <2>2 DEF IrAfter, DrAfter
  <2>4. busy
    BY <1>4, <2>1, <2>2, <2>3 DEF Requests
  <2> QED
    BY <2>1, <2>2, <2>3, <2>4 DEF JInv, TapInv, BusyIsTold
<1> QED
  BY <1>3, <1>5, <1>6, <1>7, <1>8, <1>10, <1>11, <1>12 DEF JInv, TapInv

(* A step of the system's side is out of the TAP's sight.                   *)
LEMMA SystemKeepsJInv ==
  ASSUME Calm \/ MaxResets = 0, JInv, SysNext, UNCHANGED tapVars
  PROVE  JInv'
<1>1. IInv'
  BY StepKeepsIInv DEF JInv, Next
<1>2. UNCHANGED tckVars
  BY DEF SysNext, ClkEdge, AssertReset, ReleaseReset
<1> QED
  BY <1>1, <1>2
     DEF JInv, IInv, TapInv, JtagTypeOK, RequestIsOp, NeverPaused, RequestStands,
         RequestInUpdateDr, BusyIsTold, AnswerIsOfLast, MissedIsTold, tapVars, tckVars

(* A step is an edge of TCK or one of the system's.                         *)
LEMMA JtagNextIsEdge ==
  ASSUME JtagNext
  PROVE  \/ \E tms \in BOOLEAN, tdi \in BOOLEAN, shifted \in Instructions :
              TapEdge(tms, tdi, shifted)
         \/ SysNext /\ UNCHANGED tapVars
<1>1. Tdi \subseteq BOOLEAN /\ ShiftedIn \subseteq Instructions
  BY DEF Tdi, ShiftedIn, Instructions
<1> QED
  BY <1>1 DEF JtagNext

LEMMA JtagStepKeepsJInv ==
  ASSUME Calm \/ MaxResets = 0, JInv, [JtagNext]_jtagVars
  PROVE  JInv'
<1>1. CASE UNCHANGED jtagVars
  <2>1. IInv'
    BY <1>1, StepKeepsIInv DEF JInv, jtagVars
  <2> QED
    BY <1>1, <2>1
       DEF JInv, IInv, TapInv, JtagTypeOK, RequestIsOp, NeverPaused, RequestStands,
           RequestInUpdateDr, BusyIsTold, AnswerIsOfLast, MissedIsTold, jtagVars, cdcVars,
           tapVars, tckVars
<1> QED
  BY <1>1, TapEdgeKeepsJInv, SystemKeepsJInv, JtagNextIsEdge

(* A step of the TAP and the crossing together is one of the crossing.      *)
LEMMA JtagStepIsCdcStep ==
  ASSUME JInv, [JtagNext]_jtagVars
  PROVE  [Next]_cdcVars
<1>1. ASSUME NEW tms \in BOOLEAN, NEW tdi \in BOOLEAN, NEW shifted \in Instructions,
             TapEdge(tms, tdi, shifted)
      PROVE  Next
  <2>1. dmiReq \in BOOLEAN
    BY DEF JInv, TapInv, JtagTypeOK
  <2> QED
    BY <1>1, <2>1, TapEdgeIsTckEdge DEF Next, Tick
<1> QED
  BY <1>1, JtagNextIsEdge DEF Next, jtagVars

LEMMA JtagInvariance ==
  ASSUME Calm \/ MaxResets = 0
  PROVE  JtagSpec => []JInv
<1>1. JInv /\ [JtagNext]_jtagVars => JInv'
  BY JtagStepKeepsJInv
<1> QED
  BY <1>1, TapStartsWell, PTL DEF JtagSpec

(* Whatever is scanned, and however long the register, what the TAP holds   *)
(* stays in its registers' ranges (jtag_tap.v, dr and its captures).        *)
THEOREM JtagTypeCorrect ==
  ASSUME Calm \/ MaxResets = 0
  PROVE  JtagSpec => []JtagTypeOK
<1>1. JInv => JtagTypeOK
  BY DEF JInv, TapInv
<1> QED
  BY <1>1, JtagInvariance, PTL

(* A host that does not pause its scans can trust them: an operation that   *)
(* was not taken was told busy by its own scan, and a scan that is not told *)
(* busy captures the answer to the last operation taken (jtag_tap.v,        *)
(* dmi_req and the capture of the DMI register).                            *)
THEOREM HostCanTrustScans ==
  ASSUME Calm \/ MaxResets = 0, ~Pauses
  PROVE  JtagSpec => []HostIsTold
<1>1. JInv => HostIsTold
  BY DEF JInv, TapInv, HostIsTold
<1> QED
  BY <1>1, JtagInvariance, PTL

(* The TAP in front of it changes nothing of what the crossing promises:    *)
(* each operation is performed once and answered with its own answer.       *)
THEOREM TapDrivesAPort ==
  ASSUME Calm \/ MaxResets = 0
  PROVE  JtagSpec => ImplementsPort
<1>1. Init => CdcInit
  BY DEF Init
<1>2. JInv /\ [JtagNext]_jtagVars => [Next]_cdcVars
  BY JtagStepIsCdcStep
<1>3. JtagSpec => Spec
  BY <1>1, <1>2, JtagInvariance, PTL DEF JtagSpec, Spec
<1> QED
  BY <1>3, CrossingIsAPort, PTL
=============================================================================
