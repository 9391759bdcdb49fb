---------------------------- MODULE PagedPrograms ----------------------------
(* The programs that run under Sv32: mmutest.c (tables in SDRAM) and         *)
(* ddrmmutest.c (tables in DDR3), as the accesses they make and the checks   *)
(* they report, and a kernel that changes its own tables in any order.       *)
(*                                                                           *)
(* A program is what main() writes with translation off and the frames of    *)
(* code; it keeps its tables if it never writes them after that.  The        *)
(* megapages of the board are numbered in the order they are used here; page *)
(* k of megapage m is Page(m, k).                                            *)
EXTENDS Sv32, Sequences, SequencesExt, TLC

Page(m, k) == m * N0 + k

UART == Page(0, 0)
RAM  == 1
CODE == Page(RAM, 1)            \* the program's own text

RWX == {"V", "R", "W", "X", "A", "D"}
RX  == {"V", "R", "X", "A", "D"}
RW  == {"V", "R", "W", "A", "D"}
RO  == {"V", "R", "A"}

D(v) == [d |-> v]               \* a word of data

(* Instructions.  An access names its page, the word in it and the byte      *)
(* offset (2 where it is misaligned); v is what it stores or adds.           *)
Access(op, p, v)    == [op |-> op, p |-> p, w |-> 0, off |-> 0, v |-> v]
Lw(p)               == Access("lw", p, D(0))
Sw(p, v)            == Access("sw", p, v)
SwWord(p, w, v)     == [Sw(p, v) EXCEPT !.w = w]
Misaligned(i)       == [i EXCEPT !.off = 2]
Do(op)              == [op |-> op]
Call(p)             == [op |-> "call", p |-> p]
Branch(p)           == [op |-> "branch", p |-> p]     \* not taken
Set(field, v)       == [op |-> "set", field |-> field, v |-> v]

\* report(): a check, then a line on the UART, through the data TLB.
Report(what, v) == <<[op |-> "report", what |-> what, v |-> v], Sw(UART, D(0))>>

Reads(p, v)   == <<Lw(p)>> \o Report("rd", D(v))
Writes(p, v)  == <<Sw(p, D(v)), Lw(p)>> \o Report("rd", D(v))

\* trap_arm(1), an access that must trap, and the record it must leave.
Faults(i, cause) ==
  <<Do("arm"), i>> \o Report("trap", [cause |-> cause, tval |-> <<i.p, i.off>>])
FencedFault(i, cause) ==
  <<Do("arm"), Do("sfence"), i>> \o Report("trap", [cause |-> cause, tval |-> <<i.p, i.off>>])

\* A jump that must fault, taken by m_front or delegated to s_front.
FetchFaults(p) ==
  <<Set("far", TRUE), Call(p)>> \o Report("mfetch", [cause |-> 12, tval |-> <<p, 0>>])
Delegated(i, cause) ==
  <<Do("note"), i>> \o Report("strap", [cause |-> cause, tval |-> <<i.p, 0>>])

Ends == <<Do("verdict"), Do("spin")>>

(* ---- mmutest.c ---------------------------------------------------------- *)
(* Every megapage of the root maps itself; one is read-only and one goes     *)
(* through a table of pages with one read-only and one missing entry.        *)
RootM == Page(6, 0)
L2M   == Page(6, 1)
RwM   == Page(3, 0)
RoM   == Page(4, 0)
Pt(k) == Page(5, k)
LowM == 0
MidM == N0 \div 2
HighM == N0 - 1
PtRo == N0 - 3
PtBad == N0 - 2
TlbPages == 8                   \* four times the TLB, as in the source
Stride == 3

MmuRoot == [a \in {RootM} \X (0..7) |->
  IF a[2] = V1(Pt(0)) THEN Pte(L2M, {"V"})
  ELSE Pte(Page(a[2], 0), IF a[2] = V1(RoM) THEN RX ELSE RWX)]

MmuL2 == [a \in {L2M} \X (0..(N0 - 1)) |->
  CASE a[2] = PtRo  -> Pte(Pt(PtRo), RX)
    [] a[2] = PtBad -> Zero
    [] OTHER        -> Pte(Pt(a[2]), RWX)]

MmuSeeds == (<<RwM, 0>> :> D(1)) @@ (<<RoM, 0>> :> D(2)) @@ (<<Pt(LowM), 0>> :> D(3))
         @@ (<<Pt(MidM), 0>> :> D(4)) @@ (<<Pt(HighM), 0>> :> D(5)) @@ (<<Pt(PtRo), 0>> :> D(6))

TlbPage(k) == Pt((k - 1) * Stride)

MmuText ==
  Report("true", 0) \o Reads(RwM, 1) \o Writes(RwM, 11) \o Reads(RoM, 2)
  \o Faults(Sw(RoM, D(99)), 15) \o Reads(RoM, 2)
  \o Reads(Pt(LowM), 3) \o Reads(Pt(MidM), 4) \o Reads(Pt(HighM), 5)
  \o Reads(Pt(LowM), 3) \o Reads(Pt(MidM), 4) \o Reads(Pt(HighM), 5) \o Reads(Pt(LowM), 3)
  \o Writes(Pt(MidM), 14)
  \o Reads(Pt(PtRo), 6) \o Faults(Sw(Pt(PtRo), D(99)), 15) \o Reads(Pt(PtRo), 6)
  \o Faults(Lw(Pt(PtBad)), 13)
  \o [k \in 1..TlbPages |-> Sw(TlbPage(k), D(100 + k))]
  \o FlattenSeq([k \in 1..TlbPages |-> Reads(TlbPage(k), 100 + k)])
  \o FlattenSeq([k \in 1..TlbPages |-> Reads(TlbPage(TlbPages + 1 - k), 101 + TlbPages - k)])
  \o Ends

MmuTest == [main  |-> <<MmuSeeds, MmuRoot, MmuL2>>,
            root  |-> RootM, denied |-> {}, text |-> CODE :> MmuText, shipped |-> TRUE, keeps |-> TRUE]

(* ---- ddrmmutest.c ------------------------------------------------------- *)
(* Only the entries the test needs are written: the rest of a table is what  *)
(* the part held at power-on.                                                *)
DDR     == 2
RootD   == Page(DDR, 0)
TestPA  == Page(DDR, 1)
L2D     == Page(DDR, 2)
L2bD    == Page(DDR, 3)
CodePA  == Page(DDR, 4)
PmpPA   == Page(DDR, 5)
TestVA  == Page(3, 1)
CodeVA  == Page(3, 4)
RoVA    == Page(4, 0)
PmpVA   == Page(4, 1)
BadRoot == Page(5, 0)
BadL2   == Page(0, 1)
ROM     == 7

RootWrites ==
  (<<RootD, ROM>> :> Zero) @@ (<<RootD, RAM>> :> Pte(Page(RAM, 0), RWX))
  @@ (<<RootD, V1(TestVA)>> :> Pte(Page(DDR, 0), RWX)) @@ (<<RootD, V1(BadRoot)>> :> Zero)
  @@ (<<RootD, V1(RoVA)>> :> Pte(L2bD, {"V"}))
UartEntries == (<<RootD, V1(UART)>> :> Pte(L2D, {"V"})) @@ (<<L2D, V0(UART)>> :> Pte(UART, RW))
PageEntries ==
  (<<L2D, V0(BadL2)>> :> Zero) @@ (<<L2bD, V0(RoVA)>> :> Pte(TestPA, RO))
  @@ (<<L2bD, V0(PmpVA)>> :> Pte(PmpPA, RW))
DdrSeeds == (<<PmpPA, 0>> :> D(1)) @@ (<<TestPA, 0>> :> D(0))

\* part13_checks: atomics, the read-only page, alignment, PMP, fetch faults.
Amo(p, v) == Access("amo", p, D(v))
Lr(p)     == Access("lr", p, D(0))
Sc(p, v)  == Access("sc", p, D(v))

Atomics ==
  <<Sw(TestVA, D(100)), Do("sfence"), Amo(TestVA, 5)>> \o Report("rd", D(100)) \o Reads(TestVA, 105)
  \o <<Do("sfence"), Amo(TestVA, 7)>> \o Report("rd", D(105)) \o Reads(TestVA, 112)
  \o <<Do("sfence"), Lr(TestVA), Sc(TestVA, 77)>> \o Report("rd", D(0)) \o Reads(TestVA, 77)

ReadOnly ==
  <<Sw(TestVA, D(50)), Do("sfence")>> \o Reads(RoVA, 50)
  \o Faults(Sw(RoVA, D(1)), 15) \o Reads(TestVA, 50)
  \o FencedFault(Amo(RoVA, 3), 15) \o Reads(TestVA, 50)
  \o <<Do("sfence"), Lr(RoVA)>> \o Report("rd", D(50))
  \o <<Lr(RoVA)>> \o Faults(Sc(RoVA, 9), 15)

Invalid ==
  Faults(Amo(BadL2, 1), 15) \o Faults(Amo(BadRoot, 1), 15)
  \o Faults(Lr(BadL2), 13) \o Faults(Sc(BadL2, 1), 15)

AlignedAndOwned ==
  FencedFault(Misaligned(Lw(TestVA)), 4) \o FencedFault(Misaligned(Amo(TestVA, 1)), 6)
  \o FencedFault(Lw(PmpVA), 5) \o FencedFault(Sw(PmpVA, D(1)), 7)
  \o FencedFault(Amo(PmpVA, 1), 7) \o FencedFault(Lr(PmpVA), 5)

Fetches == FetchFaults(BadRoot) \o FetchFaults(BadL2) \o FetchFaults(UART)

Delegations ==
  <<Set("ecall", {12, 13, 15}), Do("mark")>>
  \o Delegated(Lw(BadRoot), 13) \o Delegated(Sw(BadL2, D(1)), 15) \o Delegated(Amo(RoVA, 1), 15)
  \o <<Set("sfar", TRUE)>> \o Delegated(Call(BadL2), 12) \o Delegated(Call(UART), 12)
  \o <<Set("sfar", FALSE), Set("ecall", {})>>

DdrText ==
  Writes(TestVA, 9) \o <<Call(CodeVA)>> \o Report("rd", D(CodeVA))
  \o Faults(Lw(BadRoot), 13) \o Faults(Sw(BadRoot, D(1)), 15)
  \o Faults(Lw(BadL2), 13) \o Faults(Sw(BadL2, D(1)), 15)
  \o Atomics \o ReadOnly \o Invalid \o AlignedAndOwned \o Fetches \o Delegations \o Ends

\* ddr_code_start: it stores its own address and returns.
Routine == <<Do("auipc"), Do("ret")>>

DdrTest == [main  |-> <<RootWrites, UartEntries, PageEntries, DdrSeeds>>,
            root  |-> RootD, denied |-> {PmpPA},
            text  |-> (CODE :> DdrText) @@ (CodePA :> Routine), shipped |-> TRUE, keeps |-> TRUE]

(* ---- a kernel that changes its own tables ------------------------------- *)
(* A load of page A, a call of page B or a branch there that is not taken,   *)
(* an entry of either rewritten, a fence.                                    *)
RootK == Page(RAM, 4)
L2K   == Page(RAM, 5)
A     == Page(2, 0)
B     == Page(2, 1)
F(k)  == Page(RAM, 8 + k)

KernelRoot == [a \in {RootK} \X (0..7) |->
  CASE a[2] = RAM   -> Pte(Page(RAM, 0), RWX)
    [] a[2] = V1(A) -> Pte(L2K, {"V"})
    [] OTHER        -> Zero]
KernelL2 == [a \in {L2K} \X (0..(N0 - 1)) |->
  CASE a[2] = V0(A) -> Pte(F(1), RW)
    [] a[2] = V0(B) -> Pte(F(3), RX)
    [] OTHER        -> Zero]

KernelOps == {Lw(A), Call(B), Branch(B), Do("sfence")}
  \cup {SwWord(L2K, V0(A), e) : e \in {Zero, Pte(F(2), RO)}}
  \cup {SwWord(L2K, V0(B), e) : e \in {Pte(F(4), RX \cup {"U"}), Pte(F(4), RX)}}

Kernel(ops) == [main |-> <<KernelRoot, KernelL2>>, root |-> RootK, denied |-> {},
                text |-> (CODE :> ops \o <<Do("spin")>>) @@ (F(3) :> <<Do("ret")>>)
                         @@ (F(4) :> <<Do("ret")>>),
                shipped |-> FALSE,
                keeps |-> \A k \in 1..Len(ops) : ops[k] \in {Lw(A), Call(B), Branch(B)}]
=============================================================================
