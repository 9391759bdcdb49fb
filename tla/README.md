# Vernier RV32: specifications, model checking and proofs

TLA+ specifications of the parts of the Vernier SoC in which independent
machines meet: the two fabrics that connect harts to memory, the harts' caches
and atomics on top of them, the interrupt controller, the path of the debug
probe, the MMUs and their walkers, the SDRAM controller; the software that runs
on it where it has another actor to reckon with (the boot ROM and its host, the
programs that take interrupts or translate, the memory tests); and the
simulation harness that watches them all. Each part is model-checked with TLC on
small instances; what matters most of the router, both fabrics with the harts'
caches and atomics on them, the debug path, the interrupt controller, the SDRAM
controller and the MMUs is proved with TLAPS for every value of their constants.

The source is the reference. Of the RTL, a state is what the registers hold
between two clock edges (with a few history variables that only properties
read), an action is one edge with everything that the always-blocks of the part
do at it, and wires are operators. Of the software, a state is the program's
position and the variables that decide anything, an action is one access or one
check with all that hangs on it. `PROJECT.json` maps every definition to the
lines it stands for.

## 1. Inventory

### Parts, their state, their operations

| Part (files under `src/rtl`) | State | Operations | Talks to |
|---|---|---|---|
| Packet router, `soc/noc_router.v` | a FIFO per input; per output the source served last, the lock and its owner, the held grant; per input an age | accept, arbitrate, offer, hand over, lock, unlock, drop a misrouted packet, age | interfaces, by ready/valid |
| Router fabric, `soc/wb_noc_xbar.v`, `noc_ni_master.v`, `noc_ni_slave.v`, `noc_err_sink.v` | per master "request sent"; per slave the request being performed, its beats, a response queue; the sink's one slot; a request router and a response router | send, accept, perform, answer, bypass, answer with an error | harts, memories; tells caches and the monitor of writes |
| Shared bus, `soc/wb_interconnect.v` | the granted master, whether it bursts, the acks it has had | grant by tier, write-phase override, hold, release, ack an unmapped address, snoop out | as above |
| Hart data side: `cpu_core.v` (MEM), `soc/cpu_wb.v`, `soc/reservation_monitor.v` | access and phase, the AMO's old value, the reservation, the cache with its valid and poison bits | load, store, part-word store, LR, SC, AMO, fill, update, snoop, invalidate | a fabric; other harts through the monitor |
| Block RAM, `soc/wb_ram.v` | the words, `ack_r` | read, write | a fabric |
| Interrupt controller, `plic.v` with `soc/wb_periph_bridge.v` | pending, in service, enables, priorities, thresholds; `ack_r`, `rdata_r` | latch lines, claim, complete, configure | a fabric; a line per context to the harts |
| Debug crossing, `debug/dmi_cdc.v` | a toggle and a synchroniser each way, the payload, the held answer | request, perform, answer, reset of one side | TAP, debug module |
| JTAG TAP, `debug/jtag_tap.v` | TAP state, IR, DR, sticky status | a TCK edge: capture, shift, update, request | the host; the crossing |
| Debug module, `debug/dm.v` | abstract command, halt state, SBA, program buffer | DMI reads and writes, halt, resume, register and memory access | crossing, harts, a fabric |
| CLINT, `clint.v` | mtime, mtimecmp, msip | tick, two-word compare writes | a fabric, harts |
| Fetch side, `soc/cpu_wb.v` with its cache, BTB | lines, the fill under way, prefetch | fetch, fill, FENCE.I | a fabric |
| Pipeline front, `cpu_core.v`, `csr_file.v` | pc, instructions fetched ahead, privilege, trap registers, masks | fetch, predict, redirect, trap, return, take an interrupt | the MMUs, the fetch side, PLIC |
| MMUs and walkers, `mmu.v` (one for fetch, one for data), `soc/wb_ptw.v` | a TLB with a replacement pointer, the walk, the read on the bus and its owner | translate, walk, install, flush | the core; a fabric |
| Out-of-order core, `ooo/` | rename map, ROB, store buffer | dispatch, issue, retire, flush | the same adapters |
| SDRAM controller, `soc/wb_sdram.v` | sequencer state and timer, the open row, the request, the refresh count | power up, activate, read (one word or four), write, close, refresh | a fabric; the part |
| DDR3, `soc/wb_ddr.v`, `soc/ddr3_*.v` | sequencers, calibration | the same, through a PHY | a fabric |
| NPU, `soc/wb_npu.v` | DMA and array state | load, compute, store, interrupt | a fabric as a master |
| UART, timer, GPIO (`uart.v`, `soc/wb_timer.v`, `soc/wb_gpio.v`) | a byte on its way, divisor, interrupt enable; a count and its period; pins and what they latched | register accesses; send, wrap, latch an edge | a fabric, the PLIC |
| SPI, FIR, framebuffer, ROM | registers, shift state | register accesses, serial timing | a fabric |
| Boot ROM, `software/soc/bootrom.c`, `crt0_rom.S` | the header, the bytes stored, the CRC, retries, the release word | look for a program, load from the UART or the SD card, start, release the parked hart, report a trap | the host (`uartload.py`), the card, the other hart |
| Memory tests, `sdramcheck.c`, `sdramtest.c`, `ddrcheck.c`, `main.c` | where the test is, failures, the first bad address, the blame | store, load and compare, diagnose, idle, report | a memory with or without a fault |
| Interrupt programs, `irqload.c`, `uartirq.c`, `plictest.c`, `uarttest.c` | counts, logs, a queue, what the handler was told | main's steps, the handler's, bounded waits | timer, UART, GPIO, NPU, PLIC |
| Programs under Sv32, `mmutest.c`, `ddrmmutest.c` | tables, the expected and the last trap | map, remap, fence, load, store, call, check | the MMUs |
| Harness, `sim/verilator_soc.cpp` | pending trap, first trap, ring of transfers, watched pc, verdict | look at the core after each cycle, end the run, report; clock the SDRAM part; walk the tables itself | the core, the part |

`soc/soc_top.v` builds either fabric: the bus by default, the router fabric with
`INTERCONNECT=xbar`, and there `SNOOP_LATE_ACK=1`, and `XBAR_AGE_LIMIT` 256 from
three harts on.

### What is hard

* **An AMO is two bus transfers.** The adapter drops its request between them.
  Indivisibility is made by somebody else: the bus's write-phase override, the
  fabric's packet locks. LR/SC is a third way, a monitor that watches stores.
* **An ack is delayed.** A memory acks a cycle after it was asked, and the router
  fabric puts queues after that. Another request, another grant or another
  hart's write can come between.
* **Caches are kept coherent by snooping acks**, in the very cycle of the ack,
  against fills, updates and latched hits that are under way.
* **Grants and locks are held over cycles** and offered again without being
  tested again.
* **Progress** depends on priorities, locks, ageing and back-pressure together.
* **Two clocks** without a common reset on the debug path; a host that may stop
  its clock or pause its scan at any bit.
* **A register read with a side effect** on a bus that repeats it for two cycles,
  claimed by two contexts.
* **A walk takes many cycles** in which the pc is redirected, the tables are
  changed and fenced, and the other MMU wants the same bus master.
* **Refresh** comes when it is due, whatever row is open and whoever waits.
* **A loader on a line without parity or flow control**, with a host that gives
  up, a board that is reset, and a header that says where to write.
* **A handler and the program it interrupts** use the same device and the same
  variables, and checks that count cycles see stalls they did not expect.
* **A tester must be right about the broken**: which order of accesses shows
  which fault, and what a harness may say of a run that it samples from outside.

### What makes the parts correct

Router: packets of a path come out once, in order, unless misrouted; a held
grant stays good; a locked output passes only its owner; no head waits for ever
under ageing. Fabric: one request in flight per master, one answer to each.
Harts: AMOs are indivisible, an SC succeeds only right after its LR, a failed SC
writes nothing, no read returns the past, every access completes. Bus: an ack is
its master's; one write phase at a time; valid lines are current. Crossing: an
operation is performed once and answered with its own answer. TAP: requests go
out at the end of a scan; what was missed was told. PLIC: one owner per source,
none swallowed, none forgotten, the best one first. MMU: an answer comes from
what the tables have held since the last fence, and is used for the address it was
asked for. SDRAM: the part is never asked what it must refuse, reads return the
last write, requests are served. Boot ROM: what is started is whole, a load
writes memory only, the host is told the truth, every wait ends. Programs: they
pass on working hardware however it is timed, fail on broken hardware of the kinds
they are there to find, and print each byte once. Harness: what it says of a
run is what happened in it.

## 2. Modules

| Module | Stands for | Uses |
|---|---|---|
| `NocRouter` | the router | `NocChannels` (as what it implements) |
| `NocChannels` | abstract: per output, reliable first-in first-out channels with exclusive sequences | |
| `NocXbar` | interfaces, both routers, error sink, memories behind the fabric | `NocRouter` twice |
| `WbInterconnect` | the shared bus and its memories | |
| `HartData` | harts' MEM stages, adapters, caches, monitor; what harts are promised by any fabric | |
| `XbarHarts`, `BusHarts` | `HartData` composed with either fabric as `soc_top.v` wires it | `HartData` and one of the two |
| `DmiCdc` | the crossing and the debug module's answer | `DmiPort` (as what it implements) |
| `DmiPort` | abstract: one operation at a time, performed once, answered with its own answer | |
| `JtagTap` | the TAP in front of the crossing | `DmiCdc` |
| `Plic` | bridge, controller, devices, handlers | |
| `SdramPart`, `WbSdram` | the harness's SDRAM part; the controller in front of it and its master | one the other, `Absence` |
| `Sv32` | page-table entries, the hardware's walk as operators, the harness's own walk | |
| `PagedPrograms` | `mmutest.c`, `ddrmmutest.c` and a kernel that changes its tables, as instructions and checks | `Sv32` |
| `PagedHart` | a hart running one of them: fetch ahead, both MMUs, `wb_ptw.v`, execution, traps | `PagedPrograms` |
| `IrqDevices` | timer, UART transmitter, GPIO, NPU job and PLIC, clocked together | |
| `IrqPrograms` | the interrupt programs, as sequences of accesses and waits | `IrqDevices` |
| `IrqRun` | one hart running one of them | `IrqPrograms` |
| `BootRom` | the boot ROM, its host, line and card, the parked hart | `Absence` |
| `MemTests` | the memory tests and a memory with at most one fault | `Absence` |
| `SocRun` | the harness's main loop around a core that does anything | `Absence` |
| `Absence` | a value that is none of the others | |
| `MCDebug` | the crossing alone or behind the TAP, in one run | `JtagTap` |
| `MCSlaves` | the PLIC and the SDRAM controller side by side, in one run | `Plic`, `WbSdram` |
| `MCSmall` | the five small specifications side by side, in one run | their `MC*` |
| other `MC*` | instances for TLC: topologies, packets, accesses, settings, jobs, faults | |
| `NatSets` | lemmas on sets of naturals, recursive functions and powers of two | |
| `HartDataProofs` | lemmas on what an edge does to the harts, whichever fabric answers them | `HartData`, `NatSets` |
| `BusHartsProofs`, `XbarHartsProofs` | theorems about the harts on either fabric | that module, `HartDataProofs` |
| `DebugProofs` | theorems about the crossing, alone and behind the TAP | `JtagTap`, `NatSets` |
| `NocRouterProofs`, `PagedHartProofs` | theorems about the module each is named after | that module, `NatSets` |
| `SlaveProofs` | theorems about two controllers behind the buses, the PLIC and the SDRAM's | `Plic`, `WbSdram`, `NatSets` |

How state and actions correspond to the code:

* **Words are versions** in the fabrics. The properties of memory are about which
  write a read saw, not about values. A write on a word of version *n* makes
  version *n + 1* and its ack tells the writer which it made. An AMO is then
  indivisible exactly when the version it makes is the successor of the one it
  read. A part-word store leaves the line as new as what it was merged into.
* **Wires are computed once per edge.** `Wires` of either fabric is the record of
  the combinational signals of a cycle (what each router offers, what each
  memory answers, who is acked); the next state and the harts' view of acks
  and snoops are functions of it.
* **Ready signals are inputs.** A receiver's back-pressure, a slow memory's
  readiness, what enters a MEM stage and what other bus masters ask for are
  chosen at each edge.
* **Two clocks are two actions.** In `DmiCdc` an edge of TCK and an edge of the
  system clock come in any order; a bit that crosses is sampled before or after
  it changes, which is what a synchroniser's metastability amounts to. The
  payload has no synchroniser, and `OneToken` says that it holds still.
* **In `Plic`** an edge of the clock is one action; the trap, the handler's next
  access, its service of the device and the lines' changes come between edges.
  The encoder is there twice, as the code's loop (`Encoder`) and as what it is
  for (`ClaimId`); the run shows them equal, and the rest uses the latter.
* **In `WbSdram`** an edge of the controller and the part's edge half a period
  later are one step. The part is what refuses: it counts the age of everything
  in periods, and each interval of its data sheet is a test with a fault of its
  own. The controller's cycle counts are derived from the clock rate as the code
  derives them, so the rate is a parameter of a behaviour.
* **In `PagedHart`** there is no common clock: the fetch side, the data side and
  the bus master each step when they can, which covers every latency the code
  may meet. `wb_ptw.v`'s owner and address are state of the bus, not of the walk:
  that is where the finding is. Tables live in memory, every other word is junk;
  `Held` remembers what an entry was since the last fence, for properties only.
  The fetch queue holds what the pipeline holds between fetch and execute, with
  the place each instruction was really fetched from.
* **A program is a sequence.** Memory tests, interrupt programs and programs under
  Sv32 are sequences of accesses, checks and waits, generated by the loops that the
  code has; one machine executes them. A bounded poll is one element with its limit.
* **In `BootRom`** a cell of memory is a byte of a UART image or a block of a card
  image, a header word is one token, and the CRC of a sequence is the sequence: a
  CRC that matched by accident is out of the model. A byte is garbled on the line
  into any address or length when it is one, since those decide where a load goes.
* **In `SocRun`** the core is free (it may retire, trap or stall in each cycle, over a small
  flow graph); what really happened is kept beside what the harness recorded, and
  the properties compare the two.

## 3. Runs

Operators marked "mutant" beside a definition are changed forms of it, as a
plausible bug would have it; every property below was seen to fail under one.

| Run | Question | Instance |
|---|---|---|
| `router` | Do grants stand, locks exclude, offers stay; is the router a set of reliable channels? | 2 x 2, FIFOs of two, locked sequences from both inputs, a packet for no port, an output that can be put on hold, any back-pressure |
| `xbar` | Atomics, coherence, conservation of requests and progress over the router fabric | two harts; without caches LR, SC, store and AMO on one word with at most two accesses that may write; with caches loads and stores of two memories, or of one memory and an address that nothing decodes, all in one cache entry |
| `xbar_sc_fails` | (violation) Can a failing SC have written? | one memory, stores and LR/SC, three accesses that may write |
| `bus` | Atomics, acks, coherence and progress on the bus | two harts; without caches LR, SC and AMO on one word while the debugger reads or a fetch bursts; with caches loads, part stores and AMOs of one word, or loads, stores and part stores of it and loads of an unmapped address in the same entry, and a write by the debugger |
| `debug` | The crossing, its refinement, what the host is told | a data register of three bits (op code and one more); alone with two calm resets, or behind the TAP of a host that does not pause |
| `cdc_reset` | (violation) A reset while the toggles differ | one reset |
| `jtag_pause` | (violation) A host that pauses | as `debug` behind the TAP |
| `slaves` | PLIC: claims, completions, delivery. SDRAM: is the part obeyed, the bus answered, every request served? | two sources, two contexts, all registers changing; two banks of two rows of eight columns; 25 and 100 MHz; single words in both rows and banks, two lines as bursts, whole and part words, one write; a refresh due every twenty cycles |
| `paged` | Are translations those of the tables, the harness's checks quiet, the programs passing? | a TLB of two, tables of 32 entries; both shipped programs; every kernel that loads A or calls B and then takes any three operations (A unmapped or moved, B closed or moved, fence, load of A, call of B, branch to B) |
| `mmu_fence` | (violation) Does a fence during a walk keep entries to what tables held? | the kernels of `paged` |
| `small` | The boot ROM, memory tests, harness, interrupt programs and router ageing, each on its own | below |
| `mem_swaps` | (violation) Are swapped lines found? | the memory of `small` |

`small` is a disjoint sum: `of` chooses in the first state which of five
specifications a behaviour is of, the other four stay in one initial state, and
each is checked with its own actions, properties and fairness. They share
nothing; they share a run because each is small and asks one or two questions.
Its instances: *boot* sixteen cells, an image for either memory (a garbled header
makes of it one past an end, around the address space or into the ROM's own page), three
cards, two tries, one garbled byte, one reset; *memory* a part of 256 bytes in eight rows,
half of them swept, with no fault or one: an address line, a byte enable or one of
four data lines stuck, two lines swapped, a read edge that is late, a refresh that
never comes; *harness* six cycles, a ring of two, three traps, four
command lines; *interrupts* the four programs with a byte of six cycles, a period
of twenty, three stalls anywhere; *ageing* three inputs contending for one output,
a receiver that refuses for at most one cycle running, the last input of the low
class, limit 4. Its deadlock check is off because a program that has printed its
verdict, a halted ROM and a finished run really stop.

`debug` is a sum of the same kind, of the crossing with and without the TAP in
front of it, and `slaves` of the PLIC and the SDRAM controller, which share nothing. In
`xbar` and `bus` the builds (`UNCACHED`, or with the data cache) and what the harts ask
of each are likewise sets of initial states.

Two choices are left out of the models where they change nothing: a trap is offered
only to a hart that holds a reservation or is taking one (`Trappable`; of any other it is
the same as issuing nothing), and a sender presents nothing to a full FIFO, which would
not accept it. TDI and the instruction shifted in are enumerated in the states that look
at them (`Tdi`, `ShiftedIn`).

**Why the bounds are enough.** *Router:* two inputs and two outputs give every
relation between a source, an output and a lock (contention needs two sources, a
blocked head needs two outputs); two FIFO places reach full, empty and one
between. The theorems of section 4 lift the invariants to any size. *Ageing:* three
inputs are the least for which an aged head can be overtaken by another aged
one. The age counter saturates above the bound that is checked, so saturation
cannot hide a violation. *Harts:* every property relates two accesses (of one
hart and another), and the cycles at which they can meet are all explored
because each hart may start, and pause between accesses, at any edge; two
writing accesses are an AMO against an AMO, an SC against a store, a store
against a fill. Reads and LRs are not bounded. All words share one cache entry,
the worst case for tags and drops by index. *Crossing and TAP:* the payload is
opaque, and an answer can be confused with at most the one before it. *PLIC:*
two sources have all relations of priority and number, two contexts all races;
its invariants are proved for any number. *SDRAM:* the controller tracks one row,
so its decisions are hit, other row and other bank, which two of each give; the
times are the code's, in cycles of two clocks between which the rounding of every
interval differs; one write suffices since a read compares with whatever write
was last, and the refresh interval is shorter than any real one, so that a
refresh meets every state (with the power-up wait, it is about the shortest for which
the theorems hold). *Paged:* a TLB of two is filled and replaced by three pages; a kernel needs an access to start a walk,
a change, a fence and an access to see its effect. *Boot:* every branch of the loader is a
comparison of addresses with the ends of two memories, and the map has cells on
both sides of each; one garbled byte reaches each field. *Memory tests:* the code's
arguments are about one fault at a time, and about rows and lines, not about
their number. *Harness:* a ring of two wraps, three traps can be back to back.
*Interrupt programs:* a stall anywhere shifts every later meeting of main(),
handler and device; the times keep the order they have on the board (a byte longer
than its handler, a period longer than the handler and the stalls).

**Fairness.** The clock runs (weak fairness of the edge) in the runs of the
fabrics and in `slaves`: nothing in those parts waits for an action
that an environment might withhold, except as bounded: the memories in `xbar`
and `bus` are ready at once as `wb_ram.v` is, and the bus's other masters make at most
`MaxExt` requests, because the bus gives the debugger and the data masters
strict priority and a master that never stops starves those below it, which
`wb_interconnect.v:42-53` documents. Progress of the fabrics (`UncachedComplete`) is
stated of the builds without caches, which ask the fabric for everything; a hit
asks nothing of it. Progress is written `[]<>` where the code promises that a
state comes back again and again (`AccessesComplete`, `RequestsServed`, `HandshakeEnds`): of a
state predicate it is the same as leads-to, and is checked with one branch. In `debug` only the system clock and the release of a reset
are fair; that busy falls is stated with the fairness of TCK as its own premise,
that an operation is performed does without. Both are stated of the crossing
alone, whose steps are the same behind the TAP (theorem `TapDrivesAPort`). In `slaves` a hart takes an
interrupt that stays up, a handler ends, and the bus lets each handler's access
through again and again (strong fairness of `Issue`: other accesses may come
first each time, and either fabric serves every hart, `UncachedComplete`). In `paged` each
of main(), the start and the ack of the walkers' read, the fetch side and
execution takes a step it can take for ever: they are parts of one clocked core.
In `small` the ROM's next step, the uploader's reading and the released hart's
loop are weakly fair, and the line and the host's talking are not: a host may
fall silent anywhere. The interrupt programs' clock runs; stalls are bounded by
their number, not by fairness.

### What the runs show

* Both fabrics keep AMOs indivisible, by different means, and every valid cache
  line on the bus is the newest version unless the ack that outdates it is
  being given in that very cycle.
* On the router fabric acks are never late (`AcksAreTimely`): a slave interface
  accepts a request only with an empty response queue, and a master that waits for one
  answer always takes it, so until an access is answered its memory performs no other,
  and the version that the answer carries is still the newest when it arrives. The
  poison bit (`SNOOP_LATE_ACK`) guards against something that this fabric does not do,
  with the harts' data masters on it, however many; `ReadsAreFresh` holds whatever
  `LateAck` is.
* Progress on the router fabric depends on LR and SC *not* locking: the mutant
  that locks them hangs. The same fact is behind the first finding.
* The SDRAM controller's intervals hold at both clock rates without the part ever
  refusing a command, and its data bus is never driven from both ends.
* A fetch may be sent to a translation of another pc, and none is executed: the
  stale-answer test of `cpu_core.v:372` is what both harness checks rest on
  (`ChecksStayQuiet`), with the whole address and not the page number in it.
* The shipped Sv32 programs pass whatever the timing of their walks, fetches and
  predictions; the tables in DDR3, which nothing clears, are never walked into an
  unwritten entry.
* An upload is started only when it is whole, no header makes the loader write
  outside memory, and "accepted" is true, except as listed below.
* Written entirely and then read entirely, the sweeps find aliased rows that a
  write and read per word cannot; the mutant that takes turns passes them.
* A trap is reported with its own cause although the cause is read a cycle late,
  also when the next trap is back to back or the run ends between.
* `irqload` counts its periods rightly, the interval that begins with an interrupt
  raised while masked included.

### Findings

* **A failed SC can have written** (`xbar_sc_fails`, `cpu_core.v:1618`). An SC decides
  in its read phase; over the router fabric its two phases are not locked
  together, so another hart's store can be performed between them. The monitor
  clears the reservation, the write goes on, and `rd` reports failure: two
  writers each believe that theirs was alone. The bus does not have it, its
  write-phase override covers SC.
* **A reset of the system side is not a power-up** (`cdc_reset`, `dmi_cdc.v:83`). After
  an odd number of operations `req_tog` is high, and a reset that clears only the
  other side makes an edge nobody asked for. A calm reset (idle port, toggle
  low) is harmless, which is proved.
* **A paused scan issues its request in Pause-DR** (`jtag_pause`, `jtag_tap.v:270`).
* **A fence leaves the walkers' read behind** (`mmu_fence`, `wb_ptw.v:119`). An SFENCE.VMA
  puts both MMUs back to idle, but the read of the abandoned walk stays on the bus
  with its owner, and its answer is granted to that owner's next walk, of another
  address, which installs an entry that no table ever held. The fence was to
  abandon the walk "rather than installing an entry derived from page tables the
  fence has just declared stale" (`docs/architecture.md:951-953`).
* **Swapped lines pass every memory test** (`mem_swaps`, `sdramtest.c:123`).
  The comments say that a swapped address line gives another address's value
  (`sdramcheck.c:126-128`, `sdramtest.c:57-59`) and that a swapped DQ line fails the
  walking ones (`sdramcheck.c:206-207`). A swap between the controller and the part
  is the same for writes and reads: it permutes the cells, or the bits of a byte, and
  what is read is what was written. The model swaps lines that carry rows alone; on the
  board those are A9, A11 and A12, whose bits of the mode register (`wb_sdram.v:164`)
  are equal, and lines that carry columns as well permute these too. `MemTests!Claims`
  has the swaps among what each program says it finds. The run's trace swaps two
  address lines; that every swap of either kind passes, and every other fault of
  `Claims` fails, is `FaultsAreFound` in `small`.

Observations that are no runs of their own:

* A scan captures the status at its start, and whether it is taken is decided at
  its end. If the port comes free in between, the host was told busy, and the
  operation is performed; a retry performs it twice.
* `dmistat` is sticky, the status a DMI scan captures is not: a scan after a
  missed one reports ok.
* Aged heads are ordered by input number. With an ageing limit shorter than one
  round of services all heads are aged, and the last input can starve; the
  bound in `noc_router.v:47-49` needs a limit longer than a round.
* A write by the debugger is snooped by the caches and does not kill a
  reservation, so `AtomicsHold` is about harts' writes; the debugger only reads
  in the uncached half of `bus`.
* The PLIC takes a completion from any context at its word.
* MMU: the second level is read even when the first concludes, so a megapage over the UART has
  its receive register read as a table. Neither SFENCE.VMA nor a write of `satp`
  redirects the pipeline: the two or three instructions already fetched run
  under the old translation. The harness's `+checkdecode` and `+checkmmu` translate with `satp`
  in machine mode too.
* SDRAM: `T_WR` is two cycles, short above about 133 MHz.
* Boot ROM: the SD path never installs the trap vector that the UART and RAM paths
  do (`bootrom.c:511`, `527` against `583-604`). A reset in the middle of a load
  leaves part of an image where `bootrom.c:497` looks for one that was preloaded.
  An image that stops half way is the one failure that sends no NAK
  (`bootrom.c:428`). The loader accepts an address in the page that `soc.h:64` reserves for the ROM. The header is
  outside the CRC; the card's length is not checked.
* Memory tests: main.c's byte test does not see a byte enable of the last lane that is
  stuck on. "WRITE path" is also printed of a line that is stuck on the way back, where
  `sdramcheck.c:326-328` takes steady re-reads for a wrong write.
* Harness: `+watchpc` re-arms on each visit until it has fired
  (`verilator_soc.cpp:1496-1500`), where its help says the first.
* `plictest`'s handler disables its source before it completes it.

## 4. Proofs

`tlapm` checks all of these for every value of the constants.

| Theorem | States | Assumptions beside the module's own |
|---|---|---|
| `NocRouterProofs!TypeCorrect` | `[]TypeOK`: no FIFO overflows | |
| `NocRouterProofs!GrantsAlwaysStand` | `[]GrantsStand` | |
| `NocRouterProofs!LocksExclude`, `OffersAlwaysStand` | the action properties | |
| `NocRouterProofs!RouterIsChannels` | `Spec => Channels!Spec`: the refinement | |
| `BusHartsProofs!BusTypeCorrect` | `[]BusTypeOK` | |
| `BusHartsProofs!TransfersAreWhole` | `[]TransfersHold`: acks go home, one write phase | |
| `BusHartsProofs!CachesStayCurrent` | `[]CachesAreCurrent`: lines and reads | |
| `BusHartsProofs!AtomicsAreIndivisible` | `[]AtomicsHold`: AMO, and LR with SC | |
| `BusHartsProofs!FailedScIsQuiet` | `[]FailedScWritesNothing` | |
| `XbarHartsProofs!FabricInvariance` | `[]FabricInv`: where every packet is | |
| `XbarHartsProofs!FabricHasOneOutstanding` | `[]OneOutstanding`: one packet for each access | |
| `XbarHartsProofs!FabricAcksAreTimely` | `[]AcksAreTimely` | |
| `XbarHartsProofs!FabricReadsAreFresh` | `[]ReadsAreFresh` | |
| `XbarHartsProofs!FabricAtomicsHold` | `[]AtomicsHold` | |
| `DebugProofs!OneTokenGoesRound` | `[]OneToken` | resets are calm, or there are none |
| `DebugProofs!CrossingIsAPort` | `Spec => Port!Spec`: the refinement | the same |
| `DebugProofs!JtagTypeCorrect` | `[]JtagTypeOK` | the same |
| `DebugProofs!HostCanTrustScans` | `[]HostIsTold` | the same, and the host does not pause its scans |
| `DebugProofs!TapDrivesAPort` | `JtagSpec => Port!Spec` | resets as above |
| `SlaveProofs!SourcesHaveOneOwner` | `[]OneOwner` | |
| `SlaveProofs!NoSourceIsSwallowed` | `[]NoneSwallowed` | |
| `SlaveProofs!EncoderNamesBest` | `[]EncoderIsRight`: types, and the loop finds the best | |
| `SlaveProofs!SdramPartIsObeyed` | `[]PartIsObeyed`: no command refused, one row, one driver | |
| `SlaveProofs!SdramBusIsAnswered` | `[]BusIsAnswered`: acks are asked for, reads are the last writes | |
| `PagedHartProofs!TranslationsAreFresh` | `[]TranslationsHold`: types and answers | |

### Along which argument

*Router.* A held grant is offered without a test, so it must be shown that what
made it good when it was chosen cannot change: its input's FIFO only grows at
the tail, and the lock of its output changes only when a packet is taken there,
which ends the hold. The invariant is `TypeOK` and `GrantsStand` together; the two action properties
follow from it at each edge. For the refinement, what waits for an output in a FIFO
is the FIFO's packets that want it (`Towards`): it gains at its end what is
accepted, and loses its first when the head leaves, because the head, if
it wants that output, is the first that does. The invariant says that only such a
head is handed over, from one input to one output, and under the right lock.

*Bus.* The invariant is in three layers. `BusInv` is of the bus: the transfer that
holds the grant still has its request up, a memory acks that transfer only, and
while a hart is in a write phase nobody else has the grant or a write phase. It gives
`TransfersHold`. `CacheInv` and `AtomicInv` stand on it, and what they know of
memory they know through one number: a word's version, less the write on it that is
performed and not yet acked (`Owed`; `BusInv` lets there be at most one). An
edge performs a write exactly when the previous one has been acked, so that number
only changes at an ack, in the cycle in which caches and the monitor snoop. A valid
line, what a master was told, a latched hit, an AMO's old value and a reservation are
all kept as new as that number: each is either updated by the snoop of that ack, or
dropped by it. `CachesAreCurrent`, `AtomicsHold` and `FailedScWritesNothing` are what
this comes to when an access completes.

*Router fabric.* None of the four properties is inductive: a packet that is about to
arrive somewhere is known only by where it has been. `FabricInv` is that knowledge. Each
slave port (a memory's, or the sink's) is idle or has the one access of one hart, in one of
three places: as the request that is being served, as the response that waits at the
interface, or as the response in the router (`PortsAre`). Every other access that was sent
is the one request in its hart's queue (`HartsAre`), and a request that a port holds
its grant for is still there (`GrantsAre`). The packets are written out field by field,
the response with the version that its memory holds *now*: this is why a port must
not serve another access before the answer is delivered. A memory interface
takes a request when its response queue is empty; the next response then waits for
the router's FIFO of that port, which its master empties in the next cycle, because it has
no other answer to take (`ResponsesFlow`). `FabricInv` gives `OneOutstanding`, by an
explicit list of where a hart's packet is, and `AcksAreTimely`. `CacheInv` stands on it:
a line lags its word by one write in exactly two cases, while the memory acks that write
(which snoops it in that cycle), or when the write is the hart's own and its answer is on
the way (`LinesAreNewest`). Unlike on the bus a cache thus hears of a write before its
writer does, and the invariant has no `Owed`: what a hart was told is bounded by memory
itself (`KnownUpTo`, `NotYetKnown`). `AtomicInv` is of the lock: the read of an AMO takes the
lock of its memory's port in the request router when it leaves the hart's queue, and
only the write's leaving releases it (`LocksAreHeld`); in between no other request
gets to that port and the word stays what the read saw (`PhasesExclude`). LR and SC take
no lock, so for them the invariant is the monitor's: a reserved word is as the LR saw it,
but for a performed write whose ack will kill the reservation (`ReservedIsNewest`). That
exception is the finding: an SC that decides within it fails, and may have written.

What an edge does to the harts is the same on both fabrics; `HartDataProofs` proves it
once, of any fabric that acks only what was asked (`AcksAreDue`) and with the newest version
(`AcksAreNewest`), which both invariants establish.

*Crossing.* `OneToken` alone is not inductive: a reset must be known to clear
nothing. `Parity` says that the two toggles differ exactly while an operation is
unanswered on the system's side; with `req_tog` low and the port idle `ack_tog` is
then low too. With `CdcTypeOK /\ OneToken /\ Parity`, each edge of either clock moves
the token one place or is a step of `DmiPort`, or stutters.

*TAP.* A TCK edge of the TAP is one of the crossing (so `CrossingIsAPort` carries
over) with a request that is up only in Update-DR, of an operation that the port
has. For `HostIsTold` the invariant follows a scan: between its capture and its end a
port that is busy was told as busy (`BusyIsTold`), since only the end of a scan makes it
so; an operation that is not taken at the end is then one whose scan said busy. A
paused scan makes a port busy in the middle, which is the finding.

*PLIC.* Ownership passes between the controller and a handler through the bridge,
so an access on the bus must be known to be its handler's current one
(`RequestIsCurrent`), and a pending source must be known not to be in service
(`PendingIsFree`), which is why a claim never names an owned one. The encoder's loop
is a recursive function of the sources looked at; by the least number of
sources at which it would not hold, the loop has the best of those it has looked at.

*SDRAM.* The controller keeps no ages and the part no plans, so the invariant relates
its timer to the part's ages. `Intervals` first: at every clock, each count of cycles is at least
the part's interval in periods (and the two counts that are fixed are, up to 133 MHz).
`PartInv` then says of each age that it will be old enough *when the next command that
needs it can come*: an age plus what is left of the timer, or, for `tRAS` and `tRC`, plus
the least way from here to a precharge (`ToClose`, in `Ages`). A refresh is owed from when its
count runs out, and the longest way from any state to a refresh is a bound on how old
the last one may be (`ToRefresh`, in `RefreshInTime`): the longest is a burst of four with
a row to close and one to open. `RowsAgree` is that the part's open row is the controller's;
`ModeAgrees` and `PipeAgrees` that the part drives the data bus just in the cycles of a
read's words, which is why the two never drive it together. With `PartInv`, an edge is one
command of a list, none of which is refused, and each of its parts follows from that.
`DataInv` stands on it, and is of the words: the request being served is the master's
(`ServesMaster`), the part stores what the acknowledged writes left, except the halves of
the word that is just being written (`StoreAgrees`), and the slots of the part's pipeline
hold the halves of the words that are on their way, two of a burst's at once
(`ReadAgrees`). That a word's two halves, and the four words of an aligned line, are
neighbours in one row of one bank is arithmetic of `Decompose` (`WordIsPlaced`).

*MMUs.* A word that a walk reads is one that memory holds in that moment; a store keeps
what it overwrites in `Held`, and a fence empties the TLBs and the walks together with
`Held`. So the words of a walk, and the entry it installs, have been in the tables
since the last fence (`FreshInv`), unless the bus answered with another address than
the walk wants, which the history bit `crossed` marks and the finding is about. That the
end of a walk for data completes the right access needs its own part
(`WalkIsOfHead`): while that walk lasts, the access stays at the head of the queue,
because no other action executes an aligned access that misses, and a trap, a jump
and a fence all need another head.

*Induction.* No theorem of the library that takes a predicate can be used, so induction
over numbers is by the least counterexample (`NatSets!LeastOfNats`, from the
well-foundedness of finite sets under inclusion, which the library states as a set).
`RecursionExists` gives from it that a function defined by recursion is what its
definition says, and `PowersDouble` what the TAP's register can hold.

### From which assumptions

Each is an `ASSUME` of the module that declares the constants, and TLC evaluates it
in every run. Most bound a constant to what the hardware can be built with. Those
that say more:

* `BusHarts!AtomicsAssumption`: a program's A-extension words are in a memory, and no
  master but the harts writes a word that a hart reserves. The first is the board's
  map (a hole answers every access alike, with zeros); the second is needed because the
  monitor hears harts' stores only, as listed among the hazards
  (`reservation_monitor.v:73`), and it is asked of the words that some program LRs, no others.
* `XbarHarts!AtomicsAssumption`: a program's A-extension words are in a memory, for the
  first of the same reasons; no other master is on the router fabric of the model.
* `XbarHarts!NoPacketAssumption`: "nothing" is none of the fabric's packets.
* `BusHarts!RequestsAssumption`, `HartData!AccessAssumption`: what the other masters and
  the programs ask for is of the right shape, and no master but a hart uses a hart's port.
* `WbSdram!SdramAssumption`: a row holds a whole number of lines, the words asked for are
  inside the part, the clock is at most 133 MHz (where the fixed `T_WR` is still long
  enough, as said above), the part's power-up wait is not shorter than one `tRFC`, and refreshes
  fall due at least 12 + 3 `tRP` cycles apart, which is the longest way to one; the real
  interval is 7.8 us, 195 cycles at 25 MHz (`wb_sdram.v:256`).
* `JtagTap!OpAssumption`: the port's operations are those a data register can hold.
* `NocRouter!EnvironmentAssumption`: packets arrive that are packets; "no packet" is none.
* `PagedHart!ProgramsAssumption`: an instruction that accesses or jumps names a page.

**Only model-checked**, and why:

* all liveness, which is out of the prover's reach, with the ageing bound, which counts
  on a receiver's behaviour over time;
* `ChecksStayQuiet` and `ShippedProgramsPass` of `PagedHart`: they are about particular
  programs and their tables;
* the modules of `small`: `BootRom`, `MemTests` (which also takes `Bitwise`, closed to
  the prover), `SocRun` and `IrqRun`, which are about particular maps,
  geometries, command lines and programs.

## 5. Not modelled

* In the fabrics: walkers, fetch, debugger and NPU on the router fabric and bursts
  through it (the model has the beats, no run attaches a bursting master);
  classes of service other than the default; the pointers of a router's FIFOs and their
  wrap (a FIFO is a sequence).
* In the harts: instructions other than memory accesses and those the modelled
  programs use, the PMP, the divider, the predictor's tables (a prediction is any
  guess), the instruction cache. The caches of `HartData` and the translation of
  `PagedHart` are not composed: a walk there reads memory as it is.
* The out-of-order core; the one-node fabric; the debug module beyond its answer.
* The resets of the fabrics and harts: all come at once, from the initial state.
  The debug crossing and the boot ROM are the parts whose reset alone is modelled.
* In the TAP: TDO, the shifting of an instruction (any may come out of it).
* Of the devices: the UART's receiver beyond the one byte the boot ROM reads, the
  SPI shifter, the NPU's DMA and array, DDR3, FIR, framebuffer, CLINT.
* Of the software: arithmetic and library probes (`div64test.c`, `newlibprobe.c`), the
  NPU and framebuffer tests and the OpenSBI stub, which run alone and straight on;
  text beyond "a line"; the CRC's arithmetic.
* Of the harness: command-line parsing, waveforms, the other benches.
* Vendor PHYs and analogue timing, arithmetic datapaths, video encoding and boards stay
  out for good.

## 6. Plan

1. `XbarHarts`: bursts and the masters that are not harts, for which `FabricInv` needs a
   port that serves a line, and a response held while its master is busy.
2. `SocRun`: `ReportIsTrue` for every flow, ring and command line.
3. `IrqRun`: each wrap is served once.
4. `BootRom`: `LoadsAreSound` for every map that keeps the ROM apart.
5. `NocXbar`: a bursting fetch and a walker as masters, the class of service.
6. The fetch side with its cache: line fills, FENCE.I during a fill, composed with `PagedHart`.
7. `Dm`: abstract commands, halt and resume, SBA, behind `DmiPort`; `Clint` (two-word compare).
8. The DDR3 sequencers; `WbNpu` DMA; the divider against a reference definition.
9. The out-of-order core's store buffer and retirement.

The twelve runs are questions of the system, not of modules: a part that joins one of
them joins its run.
