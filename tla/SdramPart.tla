----------------------------- MODULE SdramPart -----------------------------
(***************************************************************************)
(* The simulation harness's SDRAM (class SdramModel of                     *)
(* sim/verilator_soc.cpp): what a 16-bit SDR part does on a rising edge of *)
(* its clock, and everything it refuses.  Times are in clock periods since *)
(* the event, counted no further than the longest interval they are held   *)
(* to; the intervals come from the class's nanoseconds at mhz megahertz.  A *)
(* halfword is <<low, high>>.                                              *)
(***************************************************************************)
EXTENDS Integers, Sequences

CONSTANTS Banks, Rows, Cols,   \* geometry: numbers of banks, rows and columns
          PowerUp, TRefi       \* 100 us and tREFI, in cycles of a scaled run

ASSUME PartAssumption == /\ Banks \in Nat \ {0} /\ Rows \in Nat \ {0}
                         /\ Cols \in Nat \ {0}
                         /\ PowerUp \in Nat /\ TRefi \in Nat \ {0}

Halfwords == 0 .. Rows * Banks * Cols - 1
Erased == <<0, 0>>

(* An interval of ns nanoseconds has passed after this many periods.       *)
Periods(ns, mhz) == (ns * mhz + 999) \div 1000
T(mhz) == [rcd |-> Periods(18, mhz), rp |-> Periods(18, mhz), rc |-> Periods(60, mhz),
           rfc |-> Periods(60, mhz), mrd |-> Periods(12, mhz), ras |-> Periods(42, mhz),
           wr |-> Periods(15, mhz)]
Older(age, top) == IF age < top THEN age + 1 ELSE age

PartReset(mhz) ==
    [open |-> [b \in 0 .. Banks - 1 |-> -1],        \* bank_row_, -1: no row open
     sinceAct |-> [b \in 0 .. Banks - 1 |-> T(mhz).rc],
     sincePre |-> [b \in 0 .. Banks - 1 |-> T(mhz).rp],
     sinceWrite |-> [b \in 0 .. Banks - 1 |-> T(mhz).wr],
     sinceMrs |-> T(mhz).mrd, sinceRef |-> 0, up |-> 0,
     cl |-> 0, bl |-> 0,                            \* cl = 0: mode register unset
     pipe |-> <<>>,                                 \* read data on its way out
     wrLeft |-> 0, wrBank |-> 0, wrCol |-> 0,
     faults |-> {}]

Driving(p) == p.pipe # <<>> /\ p.pipe[1] # <<>>      \* <<>>: an empty slot

(* (r << (col_bits_ + BA_BITS)) | (b << col_bits_) | c                     *)
FlatAddr(b, r, c) == (r * Banks + b) * Cols + c

(* store(): a byte whose dqm bit is set keeps its value.                   *)
Stored(m, i, pins) ==
    [m EXCEPT ![i] = [k \in 1 .. 2 |-> IF pins.dqm[k] THEN @[k] ELSE pins.dq[k]]]

(* What each command is refused for (the calls of fail()).                 *)
Refused(p, c, t) ==
    LET b == c.ba
        anyOpen == \E x \in DOMAIN p.open : p.open[x] # -1
        Early(what, age, interval) == IF age < interval THEN {what} ELSE {}
        If(what, cond) == IF cond THEN {what} ELSE {}
        closes == IF c.a10 THEN DOMAIN p.open ELSE {b}
    IN  Early("power-up", p.up, PowerUp) \union
        CASE c.cmd = "MRS" ->
               If("MRS with a bank active", anyOpen) \union
               If("reserved mode", c.mode.bl \notin {1, 2, 4, 8} \/ c.mode.cl \notin {2, 3})
          [] c.cmd = "ACT" ->
               If("ACT before MRS", p.cl = 0) \union Early("tMRD", p.sinceMrs, t.mrd)
               \union Early("tRFC", p.sinceRef, t.rfc) \union If("row open", p.open[b] # -1)
               \union Early("tRP", p.sincePre[b], t.rp)
               \union Early("tRC", p.sinceAct[b], t.rc)
          [] c.cmd \in {"READ", "WRITE"} ->
               If("no row open", p.open[b] = -1) \union Early("tRCD", p.sinceAct[b], t.rcd)
               \union If("auto-precharge", c.a10) \union If("row crossed", c.a + p.bl > Cols)
               \union If("bus not driven", c.cmd = "WRITE" /\ ~c.oe)
          [] c.cmd = "PRE" ->
               UNION {Early("tRAS", p.sinceAct[x], t.ras) \union
                      Early("tWR", p.sinceWrite[x], t.wr) :
                        x \in {y \in closes : p.open[y] # -1}}
          [] c.cmd = "REF" ->
               If("REF with a bank active", anyOpen) \union Early("tRFC", p.sinceRef, t.rfc)
          [] OTHER -> {}

(* Time passes: every age grows, the read pipeline shifts.                 *)
Aged(p, mhz) ==
    [p EXCEPT !.sinceAct = [b \in DOMAIN @ |-> Older(@[b], T(mhz).rc)],
              !.sincePre = [b \in DOMAIN @ |-> Older(@[b], T(mhz).rp)],
              !.sinceWrite = [b \in DOMAIN @ |-> Older(@[b], T(mhz).wr)],
              !.sinceMrs = Older(@, T(mhz).mrd), !.sinceRef = Older(@, 2 * TRefi + 1),
              !.up = Older(@, PowerUp),
              !.pipe = IF @ = <<>> THEN @ ELSE Tail(@)]

(* The rest of a write burst takes the data bus in the cycles after its    *)
(* command.                                                                *)
BurstCell(p) == FlatAddr(p.wrBank, p.open[p.wrBank], p.wrCol)
Burst(p, c) ==
    IF p.wrLeft = 0 THEN p
    ELSE [p EXCEPT !.wrLeft = @ - 1, !.wrCol = (@ + 1) % Cols,
                   !.sinceWrite[p.wrBank] = 0,
                   !.faults = @ \union (IF c.oe THEN {} ELSE {"burst not driven"})
                                 \union (IF p.wrCol = Cols - 1 /\ p.wrLeft > 1
                                         THEN {"row crossed"} ELSE {})]

(* READ puts the burst into the pipeline cl - 1 edges out.                 *)
Ahead(pipe, slot, data) ==
    LET n == slot + Len(data)
    IN  [i \in 1 .. (IF Len(pipe) > n THEN Len(pipe) ELSE n) |->
           IF i > slot /\ i <= n THEN data[i - slot]
           ELSE IF i <= Len(pipe) THEN pipe[i] ELSE <<>>]

(* The state after a command, with m the storage before it.                *)
Commanded(p, c, m) ==
    LET b == c.ba
        cell == FlatAddr(b, p.open[b], c.a)
    IN CASE c.cmd = "MRS" -> [p EXCEPT !.cl = c.mode.cl, !.bl = c.mode.bl, !.sinceMrs = 0]
         [] c.cmd = "ACT" -> [p EXCEPT !.open[b] = c.a, !.sinceAct[b] = 0]
         [] c.cmd = "READ" -> [p EXCEPT !.pipe =
                                 Ahead(@, p.cl - 1, [i \in 1 .. p.bl |-> m[cell + i - 1]])]
         [] c.cmd = "WRITE" -> [p EXCEPT !.sinceWrite[b] = 0, !.wrBank = b,
                                  !.wrCol = (c.a + 1) % Cols, !.wrLeft = p.bl - 1]
         [] c.cmd = "PRE" ->
              LET closes == IF c.a10 THEN DOMAIN p.open ELSE {b}
              IN [p EXCEPT !.sincePre = [x \in DOMAIN @ |-> IF x \in closes /\ p.open[x] # -1
                                                            THEN 0 ELSE @[x]],
                           !.open = [x \in DOMAIN @ |-> IF x \in closes THEN -1 ELSE @[x]]]
         [] c.cmd = "REF" -> [p EXCEPT !.sinceRef = 0]
         [] OTHER -> p

(* One rising edge with c on the pins: p (aged by the period) and its      *)
(* storage m after it.                                                     *)
(* The process exits at the first refusal, so nothing is said of the state *)
(* a refused command leaves.                                               *)
Late(p) == p.cl # 0 /\ p.sinceRef > 2 * TRefi
EdgePart(p, c, m, mhz) ==
    LET burst == Burst(p, c)
        late == IF Late(p) THEN {"tREFI"} ELSE {}
        bad == Refused(burst, c, T(mhz)) \union late
    IN  IF c.cmd = "NOP" THEN [burst EXCEPT !.faults = @ \union late]
        ELSE IF bad # {} THEN [burst EXCEPT !.faults = @ \union bad]
        ELSE Commanded(burst, c, m)
EdgeStore(p, c, m) ==
    LET after == IF p.wrLeft > 0 THEN Stored(m, BurstCell(p), c) ELSE m
    IN  IF c.cmd = "WRITE" /\ p.open[c.ba] # -1
          THEN Stored(after, FlatAddr(c.ba, p.open[c.ba], c.a), c) ELSE after
=============================================================================
