------------------------------ MODULE JtagTap ------------------------------
(***************************************************************************)
(* The JTAG test access port (rtl/debug/jtag_tap.v) in front of the        *)
(* crossing of DmiCdc: the 16-state machine, the DMI and dtmcs scans, and  *)
(* the request it raises.  The host drives TMS and TDI as it likes.        *)
(*                                                                         *)
(* The data register is DrLen bits, the op code in the low two; one bit of *)
(* the rest stands for address and data, and in a dtmcs scan for dmireset. *)
(***************************************************************************)
EXTENDS DmiCdc

CONSTANTS
  DrLen,    \* bits of the DMI's data register
  Pauses    \* whether the host goes from Exit1-DR to Pause-DR

ASSUME DrAssumption == DrLen \in Nat /\ DrLen > 2 /\ Pauses \in BOOLEAN

VARIABLES
  state,    \* the TAP's state
  ir,       \* the instruction: IDCODE and BYPASS are both "OTHER"
  dr,       \* the data register, as a number
  dmistat,  \* the sticky status
  dmiReq,   \* dmi_req
  told      \* the status that the last DMI scan captured (the host's view)

tapVars == <<state, ir, dr, dmistat, dmiReq, told>>
jtagVars == <<cdcVars, tapVars>>

Instructions == {"DMI", "DTMCS", "OTHER"}
Busy == 3                          \* the status, and 0 is ok

(* Where TMS low and TMS high lead from each state.                         *)
Arrows ==
  [TEST_LOGIC_RESET |-> <<"RUN_TEST_IDLE", "TEST_LOGIC_RESET">>,
   RUN_TEST_IDLE |-> <<"RUN_TEST_IDLE", "SELECT_DR">>,
   SELECT_DR |-> <<"CAPTURE_DR", "SELECT_IR">>,
   CAPTURE_DR |-> <<"SHIFT_DR", "EXIT1_DR">>,
   SHIFT_DR |-> <<"SHIFT_DR", "EXIT1_DR">>,
   EXIT1_DR |-> <<"PAUSE_DR", "UPDATE_DR">>,
   PAUSE_DR |-> <<"PAUSE_DR", "EXIT2_DR">>,
   EXIT2_DR |-> <<"SHIFT_DR", "UPDATE_DR">>,
   UPDATE_DR |-> <<"RUN_TEST_IDLE", "SELECT_DR">>,
   SELECT_IR |-> <<"CAPTURE_IR", "TEST_LOGIC_RESET">>,
   CAPTURE_IR |-> <<"SHIFT_IR", "EXIT1_IR">>,
   SHIFT_IR |-> <<"SHIFT_IR", "EXIT1_IR">>,
   EXIT1_IR |-> <<"PAUSE_IR", "UPDATE_IR">>,
   PAUSE_IR |-> <<"PAUSE_IR", "EXIT2_IR">>,
   EXIT2_IR |-> <<"SHIFT_IR", "UPDATE_IR">>,
   UPDATE_IR |-> <<"RUN_TEST_IDLE", "SELECT_DR">>]

NextState(tms) == Arrows[state][IF tms THEN 2 ELSE 1]

(* What the data register means.                                            *)
Code(v) == v % 4
Payload(v) == [code |-> Code(v), rest |-> v \div 4]
Payloads == {Payload(v) : v \in {u \in 0 .. 2 ^ DrLen - 1 : Code(u) # 0}}
DmiReset(v) == (v \div 4) % 2 = 1

(* The crossing carries what the register can ask for.                     *)
ASSUME OpAssumption == Op = Payloads

Init ==
  /\ CdcInit
  /\ state = "TEST_LOGIC_RESET"
  /\ ir = "OTHER"
  /\ dr = 0
  /\ dmistat = 0
  /\ dmiReq = FALSE
  /\ told = 0
-----------------------------------------------------------------------------
(* The debug module answers every operation ok (dm.v's dmi_resp).           *)
StatusAlwaysOk == 0                           \* mutant: dmi_busy is not reported
Status == IF busy THEN Busy ELSE 0

Captured ==
  CASE ir = "DMI" -> Status + 4 * (IF rsp = None THEN 0 ELSE rsp.rest)
    [] ir = "DTMCS" -> dmistat
    [] OTHER -> 0

ShiftedTooHigh(tdi) ==                        \* mutant: tdi << dr_len
  IF ir = "OTHER" THEN 0 ELSE (dr \div 2) + IF tdi THEN 2 ^ DrLen ELSE 0

Shifted(tdi) ==
  IF ir = "OTHER" THEN 0 ELSE (dr \div 2) + IF tdi THEN 2 ^ (DrLen - 1) ELSE 0

DrAfter(tdi) ==
  CASE state = "CAPTURE_DR" -> Captured
    [] state = "SHIFT_DR" -> Shifted(tdi)
    [] OTHER -> dr

(* The instruction register takes what was shifted in, which may be any.    *)
IrAfter(shifted) ==
  CASE state = "TEST_LOGIC_RESET" -> "OTHER"
    [] state = "UPDATE_IR" -> shifted
    [] OTHER -> ir

DmistatAfter ==
  CASE state = "TEST_LOGIC_RESET" -> 0
    [] state = "UPDATE_DR" /\ ir = "DTMCS" /\ DmiReset(dr) -> 0
    [] state = "UPDATE_DR" /\ ir = "DMI" /\ busy -> Busy
    [] OTHER -> dmistat

Requests == state = "EXIT1_DR" /\ ir = "DMI" /\ Code(dr) # 0 /\ ~busy

(* An edge of TCK.                                                          *)
TapEdge(tms, tdi, shifted) ==
  /\ state = "EXIT1_DR" => tms \/ Pauses
  /\ state' = NextState(tms)
  /\ ir' = IrAfter(shifted)
  /\ dr' = DrAfter(tdi)
  /\ dmistat' = DmistatAfter
  /\ dmiReq' = Requests
  /\ told' = IF state = "CAPTURE_DR" /\ ir = "DMI" THEN Status ELSE told
  /\ TckEdge(dmiReq, Payload(dr))

(* TDI, and the instruction shifted in, where the TAP looks at them.        *)
Tdi == IF state = "SHIFT_DR" THEN BOOLEAN ELSE {FALSE}
ShiftedIn == IF state = "UPDATE_IR" THEN Instructions ELSE {"OTHER"}

JtagNext ==
  \/ \E tms \in BOOLEAN, tdi \in Tdi, shifted \in ShiftedIn : TapEdge(tms, tdi, shifted)
  \/ SysNext /\ UNCHANGED tapVars

JtagSpec == Init /\ [][JtagNext]_jtagVars
-----------------------------------------------------------------------------
JtagTypeOK ==
  /\ CdcTypeOK
  /\ state \in DOMAIN Arrows
  /\ ir \in Instructions
  /\ dr \in 0 .. 2 ^ DrLen - 1
  /\ dmistat \in {0, Busy}
  /\ dmiReq \in BOOLEAN
  /\ told \in {0, Busy}

(* The host's operation goes out when its scan ends, never before the last  *)
(* bit is in (jtag_tap.v, "A request is one TCK pulse in Update-DR").       *)
RequestInUpdateDr == dmiReq => state = "UPDATE_DR"

(* An operation that was scanned in and not taken was one whose very scan   *)
(* told the host that the port was busy (dmi_cdc.v, "A host that shifts a   *)
(* new operation in while busy gets that status and knows to retry").       *)
MissedIsTold ==
  state = "UPDATE_DR" /\ ir = "DMI" /\ Code(dr) # 0 /\ ~dmiReq => told = Busy

(* What a scan that is not told busy captures is the answer to the last     *)
(* operation taken, not to one before it (jtag_tap.v, "A read's data        *)
(* arrives here on the next transaction").                                  *)
AnswerIsOfLast == ~busy => rsp = p

(* The host can trust what its scans tell it.                               *)
HostIsTold == MissedIsTold /\ AnswerIsOfLast
=============================================================================
