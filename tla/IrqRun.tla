-------------------------------- MODULE IrqRun --------------------------------
(* One hart runs one of the interrupt programs against the devices: every    *)
(* cycle it takes the interrupt that is pending and enabled, performs the    *)
(* next operation of its handler or of main(), or waits for its bus, its     *)
(* cache or its pipeline (Stall).  The devices run on in all of them.        *)
EXTENDS IrqPrograms

CONSTANTS Main, Handler,        \* the programs: their main() and their handler
          PassTimes,            \* irqload: cycles a part of its loop may take
          MaxStalls,            \* waits in a run, beyond a cycle an operation
          MinSamples, LogMax    \* irqload: fewest interrupts, IRQ_LOG_MAX

ASSUME StallsAssumption ==
  MaxStalls \in Nat /\ MinSamples \in Nat /\ LogMax \in Nat /\ PassTimes \subseteq Nat \ {0}

Programs == DOMAIN Main

VARIABLES prog, passTime,           \* the program and its pass time, fixed
          dev,                  \* the devices
          hart,                    \* the hart
          own,                    \* the program's variables
          wire,                 \* what has been written to the transmitter
          stalls
irqVars == <<prog, passTime, dev, hart, own, wire, stalls>>

(* n to queue: the handler's variables; lat and skew: the log, of which only *)
(* "done before lat" in a sample that counts is kept; t, el and w: cycles    *)
(* since t0, the length measured, wraps since n was reset.                   *)
IrqInit ==
  /\ prog \in Programs
  /\ passTime \in IF prog = "irqload" THEN PassTimes ELSE {0}
  /\ dev = DevicesInit
  /\ hart = [pc |-> 1, hpc |-> 0, k |-> 0, ie |-> FALSE, eie |-> FALSE, ctx |-> "M", soft |-> 0]
  /\ own = [n |-> 0, id |-> 0, bad |-> FALSE, done |-> FALSE, tail |-> 0, queue |-> <<>>,
          lat |-> 0, took |-> 0, skew |-> FALSE, timing |-> FALSE, t |-> 0, el |-> 0,
          w |-> 0, fails |-> FALSE, verdict |-> "none"]
  /\ wire = <<>>
  /\ stalls = MaxStalls

InHandler == hart.hpc > 0
Op == IF InHandler THEN Handler[prog][hart.hpc] ELSE Main[prog][hart.pc]
Is(op) == Op.op = op

Mip(c) == Eip(dev.plic, c) \/ (c = "S" /\ hart.soft = 1)
Takes == ~InHandler /\ hart.ie /\ hart.eie /\ Mip(hart.ctx)

ValueOf(r) ==
  CASE r[1] = "mip" -> IF Mip(r[2]) THEN 1 ELSE 0
    [] r[1] = "var" -> own[r[2]]
    [] OTHER        -> Value(dev, r)

\* What a cycle adds to the history: the time and the wraps of the timer.
Timed(vv) ==
  [vv EXCEPT !.t = IF vv.timing THEN @ + 1 ELSE @,
             !.w = IF Wraps(dev.timer) THEN @ + 1 ELSE @]

Lost == -1
\* A byte is lost if the transmitter is busy, or runs at another rate.
Wire(a) ==
  IF WritesThr(dev.uart, a)
  THEN Append(wire, IF Thre(dev.uart) /\ dev.uart.div = <<0, 0>> THEN a.val ELSE Lost)
  ELSE wire

IrqCycle(a, hh, vv) ==
  /\ own.verdict = "none"
  /\ dev' = Clocked(dev, a)
  /\ hart' = hh
  /\ own' = Timed(vv)
  /\ wire' = Wire(a)
  /\ UNCHANGED <<prog, passTime>>

(* An operation of main() or of the handler, and on to the next one.         *)
Does(a, hh, vv) == ~Takes /\ IrqCycle(a, hh, vv) /\ UNCHANGED stalls
Onward == IF InHandler THEN [hart EXCEPT !.hpc = @ + 1] ELSE [hart EXCEPT !.pc = @ + 1, !.k = 0]
OnceMore == [hart EXCEPT !.k = @ + 1]

(* ---- the hart ----------------------------------------------------------- *)
Stall == stalls > 0 /\ stalls' = stalls - 1 /\ IrqCycle(NoOp, hart, own)

TakeInterrupt ==
  /\ Takes
  /\ IrqCycle(NoOp, [hart EXCEPT !.hpc = 1, !.ie = FALSE], own)
  /\ UNCHANGED stalls

Return == Is("ret") /\ Does(NoOp, [hart EXCEPT !.hpc = 0, !.ie = TRUE], own)

StoreReg == Is("st") /\ Does(St(Op.reg, Op.val), Onward, own)

(* A read, again until it has the value wanted or its limit is reached.      *)
PollReg ==
  LET good == ValueOf(Op.reg) \in Op.want
      last == Op.n > 0 /\ hart.k + 1 >= Op.n
  IN /\ Is("poll")
     /\ Does(Ld(Op.reg),
             IF good \/ last THEN Onward ELSE IF Op.n > 0 THEN OnceMore ELSE hart,
             [own EXCEPT !.fails = @ \/ (last /\ ~good)])

LoopLength == IF Is("pass") THEN passTime ELSE Op.n
Iterate ==
  /\ Is("loop") \/ Is("pass")
  /\ Does(NoOp, IF hart.k + 1 >= LoopLength THEN Onward ELSE OnceMore, own)

SetCsr == Is("csr") /\ Does(NoOp, [Onward EXCEPT ![Op.field] = Op.val], own)

SoftAfterRmw == hart.soft
Rmw == Is("rmw") /\ Does(NoOp, [Onward EXCEPT !.soft = SoftAfterRmw], own)

ClaimOne ==
  /\ Is("claim")
  /\ Does(Ld(PLIC_CLAIM(Op.ctx)), Onward, [own EXCEPT !.id = ClaimId(dev.plic, Op.ctx)])
CompleteOne ==
  /\ Is("complete")
  /\ Does(IF own.id = 0 THEN NoOp ELSE St(PLIC_CLAIM(Op.ctx), own.id), Onward, own)

(* ---- irqload.c ---------------------------------------------------------- *)
\* if (!(NPU_STATUS & BUSY)) npu_start();
Restart ==
  /\ Is("restart")
  /\ Does(IF Value(dev, NPU_BUSY) = 1 THEN Ld(NPU_BUSY) ELSE St(NPU_CTRL, 1), Onward, own)

Assign ==
  /\ Is("let")
  /\ LET set == [own EXCEPT ![Op.field] = Op.val]
     IN Does(NoOp, Onward,
          CASE Op.field = "n" -> [set EXCEPT !.w = dev.timer.ip]
            [] Op.field = "queue" -> [set EXCEPT !.tail = 0, !.done = FALSE]
            [] OTHER -> set)

\* The log starts again; the clock is read.
LoopAgain ==
  /\ Is("again")
  /\ Does(NoOp, Onward, [own EXCEPT !.n = 0, !.w = dev.timer.ip, !.skew = FALSE])
StartClock == Is("t0") /\ Does(NoOp, Onward, [own EXCEPT !.timing = TRUE, !.t = 0])
StopClock == Is("el") /\ Does(NoOp, Onward, [own EXCEPT !.timing = FALSE, !.el = own.t, !.t = 0])

CountsOk ==
  /\ ~own.bad /\ ~own.skew
  /\ own.n >= MinSamples /\ own.n + 4 <= LogMax
  /\ own.n + 1 >= own.el \div Period
  /\ own.n <= (own.el \div Period) + 1
Judge == Is("counts") /\ Does(NoOp, Onward, [own EXCEPT !.fails = @ \/ ~CountsOk, !.el = 0])

ReadLat  == Is("lat") /\ Does(Ld(TIMER_COUNT), Onward, [own EXCEPT !.lat = dev.timer.count])
ReadDone == Is("done") /\ Does(Ld(TIMER_COUNT), Onward, [own EXCEPT !.took = dev.timer.count])

(* The log's first sample is not looked at; when it is full, no more         *)
(* interrupts.                                                               *)
Log ==
  /\ Is("log")
  /\ Does(NoOp, IF own.n >= LogMax THEN [Onward EXCEPT !.eie = FALSE] ELSE Onward,
          [own EXCEPT !.bad = @ \/ own.id # TIMER_SRC, !.n = @ + 1,
                    !.skew = @ \/ (own.n > 0 /\ own.took < own.lat), !.lat = 0, !.took = 0])

(* ---- uartirq.c and plictest.c ------------------------------------------- *)
\* The count stops at LogMax + 1: a storm is one of its bound's states.
Count == Is("count") /\ Does(NoOp, Onward, [own EXCEPT !.n = IF @ > LogMax THEN @ ELSE @ + 1])

Queued == own.tail < Len(own.queue)
Feed ==
  /\ Is("feed")
  /\ Does(IF Queued THEN St(UART_THR, own.queue[own.tail + 1]) ELSE NoOp, Onward,
          [own EXCEPT !.tail = IF Queued THEN @ + 1 ELSE @])
TxDrained == ~Queued
Disarm ==
  /\ Is("disarm")
  /\ Does(IF TxDrained THEN St(UART_IER, 0) ELSE NoOp, Onward, [own EXCEPT !.done = @ \/ TxDrained])
\* done_at: had the handler finished by the end of the unrelated work?
Sent == Is("sent?") /\ Does(NoOp, Onward, [own EXCEPT !.fails = @ \/ ~own.done])

Conclude ==
  Is("verdict") /\ Does(NoOp, hart, [own EXCEPT !.verdict = IF own.fails THEN "fail" ELSE "pass"])

IrqNext ==
  \/ Stall \/ TakeInterrupt \/ Return
  \/ StoreReg \/ PollReg \/ Iterate \/ SetCsr \/ Rmw \/ ClaimOne \/ CompleteOne
  \/ Restart \/ Assign \/ LoopAgain \/ StartClock \/ StopClock \/ Judge
  \/ ReadLat \/ ReadDone \/ Log
  \/ Count \/ Feed \/ Disarm \/ Sent \/ Conclude

IrqSpec == IrqInit /\ [][IrqNext]_irqVars
\* The clock does not stop.
IrqFairSpec == IrqSpec /\ WF_irqVars(IrqNext)

(* ---- properties --------------------------------------------------------- *)
(* Types: the variables of the run stay in their ranges.                     *)
IrqTypeOK ==
  /\ prog \in Programs /\ passTime \in PassTimes \cup {0}
  /\ hart.pc \in 1..Len(Main[prog]) /\ hart.hpc \in 0..Len(Handler[prog])
  /\ hart.soft \in {0, 1} /\ hart.ctx \in Contexts /\ {hart.ie, hart.eie} \subseteq BOOLEAN
  /\ dev.plic.pending \subseteq Sources /\ dev.plic.inService \subseteq Sources
  /\ dev.uart.busy \in 0..TxTime /\ dev.npu.busy \in 0..NpuTime
  /\ dev.timer.period = 0 \/ dev.timer.count \in 0..(Period - 1)
  /\ own.tail \in 0..Len(own.queue) /\ own.id \in 0..3
  /\ own.n \in 0..(LogMax + 1)
  /\ own.verdict \in {"none", "pass", "fail"} /\ stalls \in 0..MaxStalls

(* Every trap finds something to claim: whatever the main program was doing  *)
(* when the line rose, the line is still up when the handler asks.           *)
NoSpuriousClaim == InHandler /\ Is("claim") => Eip(dev.plic, hart.ctx)

(* A source is in service only between a claim and its completion: none is   *)
(* left in service by a handler or a teardown, where it would never          *)
(* interrupt again.                                                          *)
NothingLeftInService ==
  dev.plic.inService # {} =>
    /\ dev.plic.inService = {own.id}
    /\ InHandler \/ Is("complete")

(* Every wrap of irqload's timer is served exactly once: those since the     *)
(* count was reset are the interrupts taken, the one pending and the one the *)
(* handler has silenced and not yet counted.                                 *)
EachWrapServedOnce ==
  LET silenced == InHandler /\ hart.hpc \in 4..6
  IN prog = "irqload" /\ dev.timer.ie = 1
       => own.w = own.n + dev.timer.ip + (IF silenced THEN 1 ELSE 0)

(* The handlers serve what interrupts and nothing else: a trap always has    *)
(* something to claim, what is claimed is completed, each wrap counts once.  *)
HandlersServe ==
  IrqTypeOK /\ NoSpuriousClaim /\ NothingLeftInService /\ EachWrapServedOnce

(* The line shows what the program and its handler said, in order: no byte   *)
(* is written while another is going out, taken for the divisor or sent      *)
(* twice, although main() polls and the handler does not.                    *)
Text(p) ==
  LET Says(o) == IF o.op = "st" THEN o.reg = UART_THR /\ o.val = Newline ELSE FALSE
      lines == [i \in 1..Len(SelectSeq(Main[p], Says)) |-> Newline]
  IN IF p = "uartirq" THEN <<Newline>> \o Message \o Tail(lines) ELSE lines
TextOf == [p \in Programs |-> Text(p)]
WireIsTheText ==
  /\ IsPrefix(wire, TextOf[prog])
  /\ own.verdict # "none" => wire = TextOf[prog]

(* Every program ends and passes, however the hart is stalled: no handler    *)
(* keeps the hart, and no check is early, late or off by one, irqload's      *)
(* count of the periods included, whose interval may begin with an interrupt *)
(* raised while it was masked.                                               *)
ProgramsPass == <>[](own.verdict = "pass")
=============================================================================
