----------------------------- MODULE IrqPrograms -----------------------------
(* The programs that take interrupts (irqload.c and its handler, uartirq.c,  *)
(* plictest.c) or watch one arrive (uarttest.c): what main() does, and what  *)
(* its handler does, as the device accesses and the variables that matter.   *)
(* A line of console output is one byte of it.                               *)
EXTENDS IrqDevices, SequencesExt

CONSTANTS Period, Passes,       \* irqload: IRQ_PERIOD, looks at the NPU in a loop
          Message, WorkTime,    \* uartirq: the bytes to send, the unrelated work
          Polls                 \* the limit of every bounded wait

TIMER_CTRL == Reg("ctrl")
TIMER_IE   == Reg("tie")
TIMER_IP   == Reg("tip")
TIMER_COUNT  == Reg("count")
TIMER_PERIOD == Reg("period")
GPIO_OUT == Reg("out")
GPIO_DIR == Reg("dir")
GPIO_IE  == Reg("gie")
GPIO_IP  == Reg("gip")
LSR_THRE == Reg("thre")
NPU_BUSY == Reg("npubusy")
NPU_CTRL == Reg("npuctrl")
MIP(c)   == <<"mip", c>>        \* mip.MEIP, mip.SEIP
Var(f)   == <<"var", f>>        \* a variable the handler writes

Store(r, v) == <<[op |-> "st", reg |-> r, val |-> v]>>
\* Reads until the value is in want, n reads at most, for ever if n is 0.
Poll(r, want, n) == <<[op |-> "poll", reg |-> r, want |-> want, n |-> n]>>
Loop(n)     == <<[op |-> "loop", n |-> n]>>
Csr(f, v)   == <<[op |-> "csr", field |-> f, val |-> v]>>
Let(f, v)   == <<[op |-> "let", field |-> f, val |-> v]>>
Do(op)      == <<[op |-> op]>>

Put(b)          == Poll(LSR_THRE, {1}, 0) \o Store(UART_THR, b)
Newline         == 10
PutNewline      == Put(Newline)
Check(r, want)  == Poll(r, want, 1) \o PutNewline
WaitOnce(r, want) == Poll(r, want, 1) \o PutNewline
Wait(r, want)   == Poll(r, want, Polls) \o PutNewline
Claim(c)        == <<[op |-> "claim", ctx |-> c]>>
Complete(c)     == <<[op |-> "complete", ctx |-> c]>>
Conclusion      == Do("verdict")

(* ---- irqload.c ---------------------------------------------------------- *)
NpuStart == Store(NPU_CTRL, 1)
NpuWait  == Poll(NPU_BUSY, {0}, 0)
IfRace(race, ops) == IF race THEN ops ELSE <<>>
\* cpu_work(), and cpu_work_npu(): the loop, with a look at the NPU as it goes.
Work(race) ==
  FlattenSeq([p \in 1..Passes |-> IfRace(race, Do("restart")) \o Do("pass")])
Setup ==
  Store(TIMER_CTRL, 0) \o Store(TIMER_IE, 0) \o Store(TIMER_IP, 1)
  \o Store(TIMER_PERIOD, Period) \o Store(TIMER_COUNT, 0) \o Let("n", 0) \o Let("bad", FALSE)
  \o Store(PLIC_PRIORITY(TIMER_SRC), 1) \o Store(PLIC_ENABLE("M"), {TIMER_SRC})
  \o Store(PLIC_THRESHOLD("M"), 0) \o Csr("eie", TRUE) \o Store(TIMER_IE, 1)
  \o Store(TIMER_CTRL, 1)

Teardown ==
  Store(TIMER_CTRL, 0) \o Store(TIMER_IE, 0) \o Store(TIMER_IP, 1)
  \o Store(PLIC_ENABLE("M"), {}) \o Claim("M") \o Complete("M") \o Csr("eie", FALSE)

IrqPhase(race) ==
  Setup \o Csr("ie", TRUE) \o IfRace(race, NpuStart) \o Work(race)
  \o Csr("ie", FALSE) \o Do("again") \o IfRace(race, Do("restart")) \o Do("t0")
  \o Csr("ie", TRUE) \o Work(race) \o Csr("ie", FALSE) \o Do("el")
  \o IfRace(race, NpuWait \o Poll(Reg("result"), {1}, 1)) \o Teardown \o Do("counts") \o PutNewline

IrqLoad ==
  IrqPhase(FALSE) \o NpuStart \o Work(TRUE) \o NpuWait
  \o NpuStart \o Work(TRUE) \o NpuWait \o Poll(Reg("result"), {1}, 1)
  \o IrqPhase(TRUE) \o Conclusion

IrqVectorWritesZero ==
  Do("lat") \o Claim("M") \o Store(TIMER_IP, 0) \o Complete("M") \o Do("done")
  \o Do("log") \o Do("ret")
\* irqload_trap.S: two readings of the counter around claim, silence, complete.
IrqVector ==
  Do("lat") \o Claim("M") \o Store(TIMER_IP, 1) \o Complete("M") \o Do("done")
  \o Do("log") \o Do("ret")

(* ---- uartirq.c ---------------------------------------------------------- *)
ToSMode == Csr("ie", TRUE) \o Csr("eie", TRUE) \o Csr("ctx", "S")

UartIrq ==
  ToSMode \o PutNewline
  \o Store(PLIC_PRIORITY(UART_SRC), 3) \o Store(PLIC_ENABLE("S"), {UART_SRC})
  \o Store(PLIC_THRESHOLD("S"), 0) \o Let("queue", Message) \o Let("n", 0)
  \o Store(UART_IER, 2)
  \o Loop(WorkTime) \o Do("sent?") \o Poll(Var("done"), {TRUE}, Polls)
  \o Check(Var("done"), {TRUE}) \o Check(Var("n"), {Len(Message)}) \o Conclusion

TxHandler ==
  Claim("S") \o Do("count") \o Do("feed") \o Do("disarm") \o Complete("S") \o Do("ret")

(* ---- plictest.c --------------------------------------------------------- *)
\* Section 3: the pin up, the line up; the pin down and cleared, the line down.
LineUp   == Store(GPIO_OUT, 1) \o Wait(MIP("S"), {1})
LineDown == Store(GPIO_OUT, 0) \o Store(GPIO_IP, 1) \o Wait(MIP("S"), {0})

Taken(id) ==
  Poll(Var("n"), {1}, Polls) \o Check(Var("n"), {1}) \o Check(Var("id"), {id})

PlicTest ==
  PutNewline \o Store(PLIC_PRIORITY(GPIO_SRC), 4) \o Check(PLIC_PRIORITY(GPIO_SRC), {4})
  \o Store(PLIC_ENABLE("S"), {GPIO_SRC}) \o Check(PLIC_ENABLE("S"), {{GPIO_SRC}})
  \o Store(PLIC_THRESHOLD("S"), 0) \o Store(PLIC_THRESHOLD("M"), 7)
  \o Check(PLIC_THRESHOLD("M"), {7})
  \o Csr("soft", 1) \o Check(MIP("S"), {1}) \o Csr("soft", 0) \o Check(MIP("S"), {0})
  \o Store(GPIO_DIR, 1) \o Store(GPIO_IP, 1) \o Store(GPIO_IE, 1) \o Check(MIP("S"), {0})
  \o LineUp \o LineDown
  \o LineUp \o Do("rmw") \o LineDown
  \o ToSMode \o Store(GPIO_OUT, 1) \o Taken(GPIO_SRC)
  \o Let("n", 0) \o Let("id", 0)
  \o Store(PLIC_PRIORITY(UART_SRC), 3) \o Store(PLIC_ENABLE("S"), {UART_SRC})
  \o Store(UART_IER, 2) \o Taken(UART_SRC) \o Conclusion

OnceHandler ==
  Claim("S") \o Do("count") \o Store(GPIO_IP, 1) \o Store(UART_IER, 0)
  \o Store(PLIC_ENABLE("S"), {}) \o Complete("S") \o Do("ret")

(* ---- uarttest.c --------------------------------------------------------- *)
DivisorReported ==
  Poll(LSR_THRE, {1}, Polls) \o Store(Reg("lcr"), DLAB) \o Poll(Reg("lcr"), {DLAB}, 1) \o PutNewline
  \o Poll(UART_DLL, {0}, 1) \o Poll(UART_DLM, {0}, 1) \o PutNewline
  \o Store(UART_DLL, 0) \o Store(UART_DLM, 0) \o Store(Reg("lcr"), 0)
\* Nothing prints while DLAB is set: offset 0 is not the data register then.
Divisor ==
  Poll(LSR_THRE, {1}, Polls) \o Store(Reg("lcr"), DLAB) \o Poll(Reg("lcr"), {DLAB}, 1)
  \o Poll(UART_DLL, {0}, 1) \o Poll(UART_DLM, {0}, 1)
  \o Store(UART_DLL, 13) \o Store(UART_DLM, 1)
  \o Poll(UART_DLL, {13}, 1) \o Poll(UART_DLM, {1}, 1)
  \o Store(UART_DLL, 0) \o Store(UART_DLM, 0) \o Store(Reg("lcr"), 0)
  \o PutNewline \o PutNewline \o PutNewline \o Check(Reg("lcr"), {0})

UartTest ==
  PutNewline \o Store(Reg("scr"), 165) \o Check(Reg("scr"), {165})
  \o Store(Reg("scr"), 90) \o Check(Reg("scr"), {90})
  \o Wait(LSR_THRE, {1}) \o Divisor
  \o Store(UART_IER, 0) \o Check(Reg("iir"), {1})
  \o Store(PLIC_PRIORITY(UART_SRC), 3) \o Store(PLIC_ENABLE("M"), {UART_SRC})
  \o Store(PLIC_THRESHOLD("M"), 0) \o Check(MIP("M"), {0})
  \o Store(UART_IER, 2) \o Wait(MIP("M"), {1})
  \o Poll(LSR_THRE, {1}, Polls) \o Check(Reg("iir"), {2})
  \o Store(UART_IER, 0) \o Wait(MIP("M"), {0}) \o Conclusion

ShippedMains ==
  [irqload |-> IrqLoad, uartirq |-> UartIrq, plictest |-> PlicTest, uarttest |-> UartTest]
ShippedHandlers ==
  [irqload |-> IrqVector, uartirq |-> TxHandler, plictest |-> OnceHandler, uarttest |-> Do("ret")]
=============================================================================
