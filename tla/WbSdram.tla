------------------------------ MODULE WbSdram ------------------------------
(***************************************************************************)
(* The SDRAM controller (rtl/soc/wb_sdram.v) between a Wishbone master and *)
(* the harness's part (SdramPart), clocked as sim/verilator_soc.cpp clocks *)
(* them: the controller's rising edge, then, half a period later, the      *)
(* part's, which sees the pins the controller has just driven.  The        *)
(* harness's +checkreads compares every word a read returns with what the  *)
(* part stores at that address.                                            *)
(***************************************************************************)
EXTENDS SdramPart, Absence

CONSTANTS
    Clocks,      \* clock frequencies, MHz
    Words,       \* word addresses the master uses
    LineWords,   \* bases of the four-word lines it reads as bursts
    Lanes,       \* byte selects of its writes
    MaxWrites    \* writes it performs

(* The geometry of a part, requests that are inside it, and clocks at which *)
(* the controller's two fixed counts are long enough (T_WR: 15 ns in two    *)
(* cycles) and a refresh is not due again before the transfer under way is  *)
(* over and the one owed is issued.                                         *)
ASSUME SdramAssumption ==
    /\ Cols % 8 = 0
    /\ Words \subseteq Nat /\ LineWords \subseteq Nat
    /\ \A w \in Words : 2 * w + 1 \in Halfwords
    /\ \A w \in LineWords : w % 4 = 0 /\ 2 * w + 7 \in Halfwords
    /\ Lanes \subseteq [1 .. 4 -> BOOLEAN] /\ MaxWrites \in Nat
    /\ \A f \in Clocks : /\ f \in 1 .. 133
                         /\ PowerUp >= Periods(60, f)
                         /\ TRefi >= 3 * Periods(20, f) + 12

VARIABLES
    mhz,         \* CLK_HZ, fixed for a behaviour
    ctl,         \* the controller's registers
    part, store, \* the part, and what it stores
    wb,          \* the master's request, Absent when it asks for nothing
    beat,        \* acknowledges it has had for it
    writes,
    shadow,      \* what the acknowledged writes have made of memory
    flagged      \* +checkreads has reported a wrong word

sdramVars == <<mhz, ctl, part, store, wb, beat, writes, shadow, flagged>>

(* NS2CYC                                                                  *)
Cycles(ns) == LET n == (ns * mhz + 999) \div 1000 IN IF n < 1 THEN 1 ELSE n
T_RP == Cycles(20)
T_RCD == Cycles(20)
T_RFC == Cycles(66)
T_MRD == 2
T_WR == 2
CAS_LATENCY == 2
Mode == [cl |-> 2, bl |-> 2]

(* The timer's value when the next command may follow n cycles after.      *)
Wait(n) == n - 1

Quiet == [cmd |-> "NOP", a |-> 0, a10 |-> FALSE, ba |-> 0, mode |-> Mode,
          dqm |-> <<FALSE, FALSE>>, dq |-> Erased, oe |-> FALSE]
PreAll == [Quiet EXCEPT !.cmd = "PRE", !.a10 = TRUE]
Act(r) == [Quiet EXCEPT !.cmd = "ACT", !.a = r.row, !.ba = r.bank]

DecomposeNarrow(w) == [col |-> (2 * w) % Cols, bank |-> (w \div Cols) % Banks,
                       row |-> (2 * w) \div (Cols * Banks)]
(* a_col, a_bank, a_row: a word is two halfwords, columns lowest.          *)
Decompose(w) == [col |-> (2 * w) % Cols, bank |-> ((2 * w) \div Cols) % Banks,
                 row |-> (2 * w) \div (Cols * Banks)]
Request(w, we, sel, dat, burst) ==
    [row |-> Decompose(w).row, bank |-> Decompose(w).bank, col |-> Decompose(w).col,
     w |-> w, we |-> we, sel |-> sel, dat |-> dat, burst |-> burst]

NoRequest == [row |-> 0, bank |-> 0, col |-> 0, w |-> 0, we |-> FALSE,
              sel |-> <<>>, dat |-> <<>>, burst |-> FALSE]

SdramInit ==
    /\ mhz \in Clocks
    /\ ctl = [state |-> "INIT_WAIT", tmr |-> PowerUp, initRefs |-> 8, pins |-> Quiet,
            open |-> FALSE, openBank |-> 0, openRow |-> 0, rdata |-> <<>>, ack |-> FALSE,
            refi |-> TRefi, due |-> FALSE, req |-> NoRequest, idx |-> 0]
    /\ part = PartReset(mhz) /\ store = [i \in Halfwords |-> Erased]
    /\ wb = Absent /\ beat = 0 /\ writes = 0
    /\ shadow = store /\ flagged = FALSE

-----------------------------------------------------------------------------
(* The controller's rising edge.                                           *)

RowHit == ctl.open /\ ctl.openBank = ctl.req.bank /\ ctl.openRow = ctl.req.row
Asked == wb # Absent /\ ~ctl.ack

(* The assignments at the head of the block, which every cycle makes: pins *)
(* at rest, no acknowledge.                                                *)
Default == [ctl EXCEPT !.pins = Quiet, !.ack = FALSE,
                       !.rdata = IF ctl.ack THEN <<>> ELSE @]

AccessState == IF ctl.req.we THEN "WRITE_LO" ELSE "READ"
Opened == [Default EXCEPT !.pins = Act(ctl.req), !.open = TRUE,
                          !.openBank = ctl.req.bank, !.openRow = ctl.req.row,
                          !.tmr = Wait(T_RCD), !.state = AccessState]
Closed(next) == [Default EXCEPT !.pins = PreAll, !.open = FALSE, !.tmr = Wait(T_RP),
                                !.state = next]
Refreshed(next) == [Default EXCEPT !.pins = [Quiet EXCEPT !.cmd = "REF"],
                                   !.tmr = Wait(T_RFC), !.state = next]
ReadDriven(k) == [Quiet EXCEPT !.cmd = "READ", !.a = ctl.req.col + 2 * k, !.ba = ctl.req.bank,
                               !.oe = TRUE]
Read(k) == [Quiet EXCEPT !.cmd = "READ", !.a = ctl.req.col + 2 * k, !.ba = ctl.req.bank]
Mask(sel) == [k \in 1 .. 2 |-> ~sel[k]]
Data(half) ==      \* dq_o and dqm for the low (1) or high (2) half of the word
    [Quiet EXCEPT !.oe = TRUE, !.dq = <<ctl.req.dat[2 * half - 1], ctl.req.dat[2 * half]>>,
                  !.dqm = Mask(<<ctl.req.sel[2 * half - 1], ctl.req.sel[2 * half]>>)]
Dq == IF Driving(part) THEN part.pipe[1] ELSE Erased

BurstAsked(r) == r.burst /\ ~r.we /\ r.col % 8 = 0

(* S_IDLE: an owed refresh first, the open row closed for it; then a       *)
(* request, latched.  The request before, and the word read for it, are    *)
(* forgotten here: no state reads them again.                              *)
Idle ==
    IF ctl.due THEN IF ctl.open THEN Closed("REFRESH")
                                ELSE [Default EXCEPT !.state = "REFRESH"]
    ELSE IF Asked THEN [Default EXCEPT !.state = "ACTIVE",
                                       !.req = [wb EXCEPT !.burst = BurstAsked(wb)]]
    ELSE [Default EXCEPT !.req = NoRequest]

(* S_ACTIVE: the row is open, another is, or none is.                      *)
Active ==
    IF RowHit THEN [Default EXCEPT !.state = AccessState]
    ELSE IF ctl.open THEN Closed("PRECHARGE") ELSE Opened

(* What the state machine assigns when its timer has run out.              *)
Assigned ==
    CASE ctl.state = "INIT_WAIT" -> Closed("INIT_PRE")
      [] ctl.state = "INIT_PRE" \/ (ctl.state = "INIT_REF" /\ ctl.initRefs # 0) ->
           [Refreshed("INIT_REF") EXCEPT !.initRefs = @ - 1]
      [] ctl.state = "INIT_REF" /\ ctl.initRefs = 0 ->
           [Default EXCEPT !.pins = [Quiet EXCEPT !.cmd = "MRS"], !.tmr = Wait(T_MRD),
                           !.state = "INIT_MRS"]
      [] ctl.state = "INIT_MRS" -> [Default EXCEPT !.state = "IDLE"]
      [] ctl.state = "IDLE" -> Idle
      [] ctl.state = "REFRESH" -> Refreshed("IDLE")
      [] ctl.state = "ACTIVE" -> Active
      [] ctl.state = "PRECHARGE" -> Opened
      [] ctl.state = "READ" ->
           [Default EXCEPT !.pins = Read(0), !.tmr = Wait(CAS_LATENCY), !.idx = 0,
                           !.state = IF ctl.req.burst THEN "BR_LO" ELSE "READ_LO"]
      [] ctl.state = "READ_LO" -> [Default EXCEPT !.rdata = Dq, !.state = "READ_HI"]
      [] ctl.state = "READ_HI" ->
           [Default EXCEPT !.rdata = ctl.rdata \o Dq, !.ack = TRUE, !.state = "IDLE"]
      [] ctl.state = "BR_LO" ->
           [Default EXCEPT !.pins = IF ctl.idx # 3 THEN Read(ctl.idx + 1) ELSE Quiet,
                           !.rdata = Dq, !.state = "BR_HI"]
      [] ctl.state = "BR_HI" ->
           [Default EXCEPT !.rdata = ctl.rdata \o Dq, !.ack = TRUE,
                           !.idx = IF @ = 3 THEN 3 ELSE @ + 1,
                           !.state = IF ctl.idx = 3 THEN "IDLE" ELSE "BR_LO"]
      [] ctl.state = "WRITE_LO" ->
           [Default EXCEPT !.pins = [Data(1) EXCEPT !.cmd = "WRITE", !.a = ctl.req.col,
                                                    !.ba = ctl.req.bank],
                           !.state = "WRITE_HI"]
      [] ctl.state = "WRITE_HI" ->
           [Default EXCEPT !.pins = Data(2), !.ack = TRUE, !.tmr = Wait(T_WR),
                           !.state = "IDLE"]

(* refi_ctr and refresh_due: the tick wins over a refresh being taken.     *)
RefreshTakenNever == FALSE
RefreshTaken == ctl.state = "REFRESH" /\ ctl.tmr = 0
Controller ==
    [(IF ctl.tmr # 0 THEN [Default EXCEPT !.tmr = @ - 1] ELSE Assigned) EXCEPT
        !.refi = IF ctl.refi = 0 THEN TRefi ELSE ctl.refi - 1,
        !.due = IF ctl.refi = 0 THEN TRUE ELSE ctl.due /\ ~RefreshTaken]

-----------------------------------------------------------------------------
(* The master: one request at a time, held until its last acknowledge.     *)

Bytes(w) == <<shadow[2 * w][1], shadow[2 * w][2], shadow[2 * w + 1][1], shadow[2 * w + 1][2]>>
Merge(old, new, sel) == [k \in 1 .. 4 |-> IF sel[k] THEN new[k] ELSE old[k]]
LastBeat == IF wb.burst THEN 3 ELSE 0
Served == ctl.ack /\ beat = LastBeat

Reads == {Request(w, FALSE, <<>>, <<>>, FALSE) : w \in Words}
Lines == {Request(w, FALSE, <<>>, <<>>, TRUE) : w \in LineWords}
Stores(n) == {Request(w, TRUE, sel, [k \in 1 .. 4 |-> n], FALSE) : w \in Words, sel \in Lanes}
Choices == {Absent} \union Reads \union Lines
             \union IF writes' = MaxWrites THEN {} ELSE Stores(writes' + 1)

Master ==
    IF wb = Absent \/ Served
      THEN wb' \in Choices /\ beat' = 0
      ELSE wb' = wb /\ beat' = IF ctl.ack THEN beat + 1 ELSE beat

Shadow ==
    IF wb # Absent /\ ctl.ack /\ wb.we
      THEN LET b == Merge(Bytes(wb.w), wb.dat, wb.sel)
           IN  /\ shadow' = [shadow EXCEPT ![2 * wb.w] = <<b[1], b[2]>>,
                                           ![2 * wb.w + 1] = <<b[3], b[4]>>]
               /\ writes' = writes + 1
      ELSE UNCHANGED <<shadow, writes>>

(* The harness, +checkreads: the word at the request's address, plus four  *)
(* bytes for every acknowledge a burst has already had.                    *)
ReadAdr == wb.w + (IF wb.burst THEN beat ELSE 0)
CheckReads ==
    flagged' = (flagged \/ /\ wb # Absent /\ ctl.ack /\ ~wb.we
                           /\ ctl.rdata # store[2 * ReadAdr] \o store[2 * ReadAdr + 1])

(* One period: the controller and the master on the rising edge, the part  *)
(* on the falling one, which finds it a period older.                      *)
Cycle ==
    \E next \in {Controller}, aged \in {Aged(part, mhz)} :
      /\ ctl' = next
      /\ Shadow /\ Master /\ CheckReads
      /\ part' = EdgePart(aged, next.pins, store, mhz)
      /\ store' = EdgeStore(aged, next.pins, store)
      /\ UNCHANGED mhz

SdramSpec == SdramInit /\ [][Cycle]_sdramVars
SdramFairSpec == SdramSpec /\ WF_sdramVars(Cycle)

-----------------------------------------------------------------------------
(* Properties.                                                             *)

SdramTypeOK ==
    /\ ctl.tmr \in 0 .. PowerUp + 10 /\ ctl.initRefs \in 0 .. 8 /\ ctl.refi \in 0 .. TRefi
    /\ ctl.idx \in 0 .. 3 /\ ctl.openBank \in 0 .. Banks - 1 /\ ctl.openRow \in 0 .. Rows - 1
    /\ Len(part.pipe) <= 8 /\ part.wrLeft \in 0 .. 1

(* The controller does nothing the part refuses: every interval kept, no   *)
(* row opened twice or refreshed open, every row refreshed in time, at     *)
(* every clock it derives its cycle counts for.                            *)
NothingRefused == part.faults = {}

(* A read returns, in each of its words, what the last acknowledged write  *)
(* of each byte left there.                                                *)
ReadsLastWrite ==
    wb # Absent /\ ctl.ack /\ ~wb.we => ctl.rdata = Bytes(ReadAdr)

(* The controller's idea of the open row, one command ahead of the part's  *)
(* at most by what is on the pins, is the part's.                          *)
RowTracked ==
    /\ ctl.open => part.open[ctl.openBank] = ctl.openRow
    /\ \A b \in DOMAIN part.open : part.open[b] # -1 => ctl.open /\ b = ctl.openBank

(* The two never drive the data bus together (wb_sdram.v drives dq only    *)
(* with write data; a read's words must have left the part by then).       *)
BusNotFought == ~(ctl.pins.oe /\ Driving(part))

(* Every acknowledge belongs to a request: one for a word, four for a line,*)
(* and none is left over when the master has gone on.                      *)
AcksAreAsked == ctl.ack => wb # Absent /\ (ctl.req.w = wb.w /\ ctl.req.we = wb.we)

(* The harness's read check is quiet: the part stores what the bus says.   *)
CheckReadsQuiet == ~flagged

(* All that the part is promised.                                          *)
PartIsObeyed == SdramTypeOK /\ NothingRefused /\ RowTracked /\ BusNotFought

(* All that the bus is promised.                                           *)
BusIsAnswered == ReadsLastWrite /\ AcksAreAsked /\ CheckReadsQuiet

(* A request is served, refreshes and power-up notwithstanding: again and  *)
(* again there is none, or its last acknowledge is given.                  *)
RequestsServed == []<>(wb = Absent \/ Served)
=============================================================================
