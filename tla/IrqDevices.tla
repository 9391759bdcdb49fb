------------------------------ MODULE IrqDevices ------------------------------
(* What the interrupt programs talk to: the timer, the UART's transmitter,   *)
(* one looped-back GPIO pin, the NPU's job and the PLIC between them and the *)
(* hart, clocked together.  One access of the hart reaches them per cycle.   *)
EXTENDS Integers, FiniteSets, Sequences

CONSTANTS TxTime,               \* cycles a byte takes at the harness's rate
          NpuTime               \* cycles an NPU job takes

ASSUME TimesAssumption == TxTime \in Nat \ {0} /\ NpuTime \in Nat \ {0}

UART_SRC == 1
GPIO_SRC == 2
TIMER_SRC == 3
Sources == 1..3
Contexts == {"M", "S"}

\* Offsets 0 and 4 of the UART are the data and interrupt enable registers, or
\* with LCR.DLAB set the two halves of the divisor.
Reg(name) == <<name, 0>>
UART_THR == Reg("u0")
UART_DLL == Reg("u0")
UART_IER == Reg("u4")
UART_DLM == Reg("u4")
DLAB == 2
PLIC_PRIORITY(s)  == <<"priority", s>>
PLIC_ENABLE(c)    == <<"enable", c>>
PLIC_THRESHOLD(c) == <<"threshold", c>>
PLIC_CLAIM(c)     == <<"claim", c>>

DevicesInit ==
  [timer |-> [ctrl |-> 0, count |-> 0, period |-> 0, ie |-> 0, ip |-> 0],
   uart  |-> [ier |-> 0, lcr |-> 0, div |-> <<0, 0>>, scr |-> 0, busy |-> 0],
   gpio  |-> [out |-> 0, dir |-> 0, sync |-> <<0, 0, 0>>, ie |-> 0, ip |-> 0],
   npu   |-> [busy |-> 0, result |-> 0],
   plic  |-> [pending |-> {}, inService |-> {}, priority |-> [s \in Sources |-> 0],
              enable |-> [c \in Contexts |-> {}], threshold |-> [c \in Contexts |-> 0]]]

Dlab(u) == u.lcr = DLAB
Thre(u) == u.busy = 0
IrqOf(x) == x.ip = 1 /\ x.ie = 1

\* The sources whose line is high: levels, every one.
Lines(d) ==
  {s \in Sources : \/ s = UART_SRC /\ d.uart.ier = 2 /\ Thre(d.uart)
                   \/ s = GPIO_SRC /\ IrqOf(d.gpio)
                   \/ s = TIMER_SRC /\ IrqOf(d.timer)}

Eligible(p, c) == {s \in p.pending \cap p.enable[c] : p.priority[s] > p.threshold[c]}
Eip(p, c) == Eligible(p, c) # {}
ClaimId(p, c) ==
  IF ~Eip(p, c) THEN 0
  ELSE CHOOSE s \in Eligible(p, c) :
         \A t \in Eligible(p, c) :
           \/ p.priority[s] > p.priority[t]
           \/ p.priority[s] = p.priority[t] /\ s <= t

Value(d, r) ==
  CASE r[1] = "count"     -> d.timer.count
    [] r[1] = "u0"        -> IF Dlab(d.uart) THEN d.uart.div[1] ELSE 0
    [] r[1] = "u4"        -> IF Dlab(d.uart) THEN d.uart.div[2] ELSE d.uart.ier
    [] r[1] = "iir"       -> IF UART_SRC \in Lines(d) THEN 2 ELSE 1
    [] r[1] = "lcr"       -> d.uart.lcr
    [] r[1] = "thre"      -> IF Thre(d.uart) THEN 1 ELSE 0
    [] r[1] = "scr"       -> d.uart.scr
    [] r[1] = "npubusy"   -> IF d.npu.busy > 0 THEN 1 ELSE 0
    [] r[1] = "result"    -> d.npu.result
    [] r[1] = "priority"  -> d.plic.priority[r[2]]
    [] r[1] = "enable"    -> d.plic.enable[r[2]]
    [] r[1] = "threshold" -> d.plic.threshold[r[2]]
    [] r[1] = "claim"     -> ClaimId(d.plic, r[2])

\* The access of a cycle: none, a load or a store.
NoOp == [op |-> "none", reg |-> Reg("none"), val |-> 0]
Ld(r) == [op |-> "ld", reg |-> r, val |-> 0]
St(r, v) == [op |-> "st", reg |-> r, val |-> v]
Writes(a, r) == a.op = "st" /\ a.reg = r
\* What a register holds after a cycle with access a.
After(a, r, old) == IF Writes(a, r) THEN a.val ELSE old
\* A pending bit: set by an event, even in the cycle software clears it.
IpAfter(a, r, old, event) ==
  IF event THEN 1 ELSE IF Writes(a, r) /\ a.val = 1 THEN 0 ELSE old

Wraps(t) == t.ctrl = 1 /\ t.period # 0 /\ t.count = t.period - 1

TimerClocked(t, a) ==
  [ctrl |-> After(a, Reg("ctrl"), t.ctrl), period |-> After(a, Reg("period"), t.period),
   ie |-> After(a, Reg("tie"), t.ie), ip |-> IpAfter(a, Reg("tip"), t.ip, Wraps(t)),
   count |-> After(a, Reg("count"), IF t.ctrl = 0 THEN t.count
                                    ELSE IF Wraps(t) THEN 0 ELSE t.count + 1)]

\* A byte written while another is going out is discarded.
WritesThr(u, a) == Writes(a, UART_THR) /\ ~Dlab(u)

UartClocked(u, a) ==
  [busy |-> IF u.busy > 0 THEN u.busy - 1 ELSE IF WritesThr(u, a) THEN TxTime ELSE 0,
   ier |-> IF Dlab(u) THEN u.ier ELSE After(a, UART_IER, u.ier),
   div |-> IF Dlab(u) THEN <<After(a, UART_DLL, u.div[1]), After(a, UART_DLM, u.div[2])>>
                      ELSE u.div,
   lcr |-> After(a, Reg("lcr"), u.lcr), scr |-> After(a, Reg("scr"), u.scr)]

\* The pin is looped back through two flops.
GpioClocked(g, a) ==
  [out |-> After(a, Reg("out"), g.out), dir |-> After(a, Reg("dir"), g.dir),
   ie |-> After(a, Reg("gie"), g.ie),
   ip |-> IpAfter(a, Reg("gip"), g.ip, g.sync[2] = 1 /\ g.sync[3] = 0),
   sync |-> <<g.out * g.dir, g.sync[1], g.sync[2]>>]

\* A start while busy is ignored; the result is final when busy drops.
NpuClocked(n, a) ==
  LET starts == Writes(a, Reg("npuctrl")) /\ n.busy = 0
  IN [busy |-> IF starts THEN NpuTime ELSE IF n.busy > 0 THEN n.busy - 1 ELSE 0,
      result |-> IF starts THEN 0 ELSE IF n.busy = 1 THEN 1 ELSE n.result]

\* A completion is taken from any context, of any source.
Completed(p, a) ==
  {s \in Sources : \E c \in Contexts : Writes(a, PLIC_CLAIM(c)) /\ a.val = s}

(* A pending bit follows its level except while the source is in service;    *)
(* a claim moves the source from one set to the other.                       *)
PlicClocked(p, lines, a) ==
  LET claimed == {s \in Sources : \E c \in Contexts :
                    a.op = "ld" /\ a.reg = PLIC_CLAIM(c) /\ ClaimId(p, c) = s}
  IN [pending |-> ((lines \ p.inService) \cup (p.pending \cap lines)) \ claimed,
      inService |-> (p.inService \cup claimed) \ Completed(p, a),
      priority |-> [s \in Sources |-> After(a, PLIC_PRIORITY(s), p.priority[s])],
      enable |-> [c \in Contexts |-> After(a, PLIC_ENABLE(c), p.enable[c])],
      threshold |-> [c \in Contexts |-> After(a, PLIC_THRESHOLD(c), p.threshold[c])]]

Clocked(d, a) ==
  [timer |-> TimerClocked(d.timer, a), uart |-> UartClocked(d.uart, a),
   gpio |-> GpioClocked(d.gpio, a), npu |-> NpuClocked(d.npu, a),
   plic |-> PlicClocked(d.plic, Lines(d), a)]
=============================================================================
