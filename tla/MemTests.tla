------------------------------ MODULE MemTests ------------------------------
(***************************************************************************)
(* The memory test programs: sdramcheck.c (SDRAM, from block RAM),         *)
(* sdramtest.c (SDRAM, from SDRAM), ddrcheck.c (DDR3) and the memory tests *)
(* of main.c (block RAM), run on a memory that is healthy or has one       *)
(* fault.  A program is the sequence of its accesses and comparisons.      *)
(*                                                                         *)
(* A word is its four bytes, lowest lane first.  The part is 2^LineCount   *)
(* bytes with 2^RowShift to a row; the sweep covers SweepRows rows.        *)
(***************************************************************************)
EXTENDS Absence, Integers, Sequences, SequencesExt, FiniteSets, Bitwise

CONSTANTS
    LineCount, RowShift, SweepRows,
    Base,                   \* upper half of the window's address, SDRAM_BASE
    LanesAt, IdleAt,        \* byte offsets of the lane and the idle tests
    DqLines,                \* data lines of a burst part, a word is two beats
    RamBits                 \* data lines tried as faulty in block RAM

ASSUME MemAssumption ==
    /\ LineCount \in Nat /\ RowShift \in 2 .. LineCount
    /\ SweepRows \in 1 .. 2 ^ (LineCount - RowShift)
    /\ LanesAt % 4 = 0 /\ IdleAt % 4 = 0
    /\ DqLines \subseteq 0 .. 15 /\ RamBits \subseteq 0 .. 31

Part == 2 ^ LineCount
WordAt(i) == 4 * i
Words == {WordAt(i) : i \in 0 .. Part \div 4 - 1}
Word(hi, lo) == << lo % 256, lo \div 256, hi % 256, hi \div 256 >>
Bit(b, i) == (b \div 2 ^ i) % 2

VARIABLES
    test, fault,
    place,         \* the next step of the program
    cells,
    ok, failures,
    first,      \* the first address the sweep found wrong
    blame,      \* what the sweep says of its re-reads: "read", "write"
    verdict     \* the word at TEST_RESULT_ADDR

memVars == <<test, fault, place, cells, ok, failures, first, blame, verdict>>

-----------------------------------------------------------------------------
(* The steps of a program.                                                 *)

Write(a, n, v) == [op |-> "store", a |-> a, n |-> n, v |-> v]
LoadOf(a, lanes, v) == [op |-> "load", a |-> a, n |-> lanes, v |-> v]
Load(a, v) == LoadOf(a, {1, 2, 3, 4}, v)
ReportStep == [op |-> "report"]
Idling == [op |-> "idle"]
Diagnose == [op |-> "diagnose"]

(* Every address bit goes into it.  The offset is below 2^16.              *)
Pattern(a) ==
    LET lo == (a ^^ 42405) + a \div 8 + (Base % 8) * 8192
    IN Word(((Base ^^ 42405) + Base \div 8 + lo \div 65536) % 65536, lo % 65536)

(* Written entirely and then read entirely.                                *)
EachInTurn(as) == FlattenSeq([i \in DOMAIN as |-> << Write(as[i], 4, Pattern(as[i])),
                                                    Load(as[i], Pattern(as[i])) >>])
WriteThenRead(as) == [i \in DOMAIN as |-> Write(as[i], 4, Pattern(as[i]))]
                     \o [i \in DOMAIN as |-> Load(as[i], Pattern(as[i]))]

OneBit(i) == IF i < 16 THEN Word(0, 2 ^ i) ELSE Word(2 ^ (i - 16), 0)
WalkingOnes(a) == FlattenSeq([i \in 1 .. 32 |->
                     << Write(a, 4, OneBit(i - 1)), Load(a, OneBit(i - 1)) >>])

RowAddrs == [i \in 1 .. 2 ^ (LineCount - RowShift) |-> (i - 1) * 2 ^ RowShift]
SweepAddrs(n) == [i \in 1 .. (n * 2 ^ RowShift) \div 4 |-> WordAt(i - 1)]

ByteLanes(a) == <<
    Write(a, 4, Word(\h1122, \h3344)),
    Write(a, 1, \h99),     Load(a, Word(\h1122, \h3399)),
    Write(a + 1, 1, \h88), Load(a, Word(\h1122, \h8899)),
    Write(a + 2, 1, \h77), Load(a, Word(\h1177, \h8899)),
    Write(a + 3, 1, \h66), Load(a, Word(\h6677, \h8899)), ReportStep >>

HalfLanes(a) == <<
    Write(a, 4, Word(\hAAAA, \h5555)),
    Write(a, 2, \h1234),     Load(a, Word(\hAAAA, \h1234)),
    Write(a + 2, 2, \h5678), Load(a, Word(\h5678, \h1234)), ReportStep >>

SingleWord == << Write(0, 4, Word(\hDEAD, \hBEEF)), Load(0, Word(\hDEAD, \hBEEF)), ReportStep >>
EveryRow == Append(WriteThenRead(RowAddrs), ReportStep)
Sweep(n) == WriteThenRead(SweepAddrs(n)) \o << Diagnose, ReportStep >>
Idle == << Write(IdleAt, 4, Word(\h5AA5, \h5AA5)), Idling,
           Load(IdleAt, Word(\h5AA5, \h5AA5)), ReportStep >>

SdramCheck == SingleWord \o WalkingOnes(WordAt(1)) \o << ReportStep >> \o EveryRow
              \o Sweep(SweepRows) \o ByteLanes(LanesAt) \o HalfLanes(LanesAt) \o Idle

(* The rodata table is the image's own words, loaded with the program.     *)
TableAddrs == [i \in 1 .. (2 ^ RowShift) \div 4 |-> Part \div 2 + WordAt(i - 1)]
Table == Append([i \in DOMAIN TableAddrs |-> Load(TableAddrs[i], Word(0, WordAt(i - 1)))],
                ReportStep)
SdramTest == Table \o Append(WriteThenRead(SweepAddrs(SweepRows)), ReportStep)
             \o ByteLanes(0) \o HalfLanes(0)

(* Each comparison is a check() of its own.                                *)
Checks(steps) == FlattenSeq([i \in DOMAIN steps |->
                    IF steps[i].op = "load" THEN << steps[i], ReportStep >> ELSE << steps[i] >>])
DdrCheck == LET top == Part - 4 IN Checks(<<
    Write(0, 4, Word(\hDEAD, \hBEEF)),  Load(0, Word(\hDEAD, \hBEEF)),
    Write(4, 4, Word(\h1234, \h5678)),  Load(4, Word(\h1234, \h5678)),
    Load(0, Word(\hDEAD, \hBEEF)),
    Write(16, 4, Word(\hCAFE, \hF00D)), Load(16, Word(\hCAFE, \hF00D)),
    Load(0, Word(\hDEAD, \hBEEF)),      Load(4, Word(\h1234, \h5678)),
    Write(0, 1, \h42),                  LoadOf(0, {1}, Word(0, \h42)),
    LoadOf(0, {2, 3, 4}, Word(\hDEAD, \hBE00)),
    Write(64, 4, Word(\h1122, \h3344)),
    Write(Part \div 2 + 64, 4, Word(\h5566, \h7788)),
    Write(top, 4, Word(\h99AA, \hBBCC)),
    Load(Part \div 2 + 64, Word(\h5566, \h7788)),
    Load(64, Word(\h1122, \h3344)),     Load(top, Word(\h99AA, \hBBCC)),
    Write(144, 4, Word(\hFFFF, \hFFFF)),
    Write(144, 1, \h5A),                Load(144, Word(\hFFFF, \hFF5A)),
    Write(145, 1, \hA5),                Load(144, Word(\hFFFF, \hA55A)),
    Write(144, 4, Word(\h0102, \h0304)), Load(144, Word(\h0102, \h0304)) >>)

(* main.c stores each word's own address; its tests share one region.      *)
MainTests ==
    LET as == SweepAddrs(SweepRows)
        all(v) == << Write(0, 4, Word(v, v)), Load(0, Word(v, v)) >>
        bytes == [i \in 1 .. 4 |-> Write(64 + i - 1, 1, \hA0 + i - 1)]
        back == [i \in 1 .. 4 |-> LoadOf(64, {i}, Word(\hA3A2, \hA1A0))]
    IN  WalkingOnes(0) \o all(\hFFFF) \o all(0) \o << ReportStep >>
        \o [i \in DOMAIN as |-> Write(as[i], 4, Word(Base, as[i]))]
        \o [i \in DOMAIN as |-> Load(as[i], Word(Base, as[i]))] \o << ReportStep >>
        \o bytes \o << Load(64, Word(\hA3A2, \hA1A0)) >> \o back
        \o << Write(80, 2, \h1234), Write(82, 2, \h5678), Load(80, Word(\h5678, \h1234)),
              LoadOf(80, {1, 2}, Word(0, \h1234)), LoadOf(80, {3, 4}, Word(\h5678, 0)),
              ReportStep >>

MemPrograms == [sdramcheck |-> SdramCheck, sdramtest |-> SdramTest,
             ddrcheck |-> DdrCheck, main |-> MainTests]
Length == [p \in DOMAIN MemPrograms |-> Len(MemPrograms[p])]
LeavesEarly == {"sdramtest", "main"}      \* break and return 0 on the first mismatch

-----------------------------------------------------------------------------
(* A memory with one fault.                                                *)

Fault(k, i, v) == [k |-> k, i |-> i, v |-> v]
Healthy == Fault("none", 0, 0)
AddrLines == 2 .. LineCount - 1
StuckAddr(lines) == {Fault("address", i, v) : i \in lines, v \in 0 .. 1}
StuckData(p) == {Fault(k, i, v) : k \in {"written", "read"}, v \in 0 .. 1,
                                  i \in IF p = "main" THEN RamBits ELSE DqLines}
BadLane == {Fault("mask", i, v) : i \in 0 .. 3, v \in 0 .. 1}
LateEdge == {Fault("edge", i, 0) : i \in DqLines}    \* a read takes the other beat's bit
NoRefresh == {Fault("refresh", 0, 0)}
(* Two row lines, or two data lines of a byte, swapped between the         *)
(* controller and the part: writes and reads go through the same swap.     *)
RowLines == RowShift .. LineCount - 1
Swaps(kind, lines) ==
    {Fault(kind, p[1], p[2]) : p \in {q \in lines \X lines : q[1] < q[2]}}
SwappedAddr(lines) == Swaps("swapaddress", lines)
SwappedData == Swaps("swapdata", DqLines \intersect 0 .. 7)

(* What each program says it is there to find (sdramcheck.c, at pattern()  *)
(* and at the walking ones; sdramtest.c, at pattern()); of main.c and      *)
(* ddrcheck.c, which say less, what their accesses tell apart.  main.c     *)
(* looks at the bytes only after the last store, so it cannot see an       *)
(* enable stuck on in the lane stored last.                                *)
SweptLines == {i \in AddrLines : 2 ^ i < SweepRows * 2 ^ RowShift}
Claims == [
    sdramcheck |-> StuckAddr(AddrLines) \union StuckData("sdramcheck") \union BadLane
                   \union NoRefresh \union SwappedAddr(RowLines) \union SwappedData,
    sdramtest |-> StuckAddr(SweptLines) \union BadLane
                  \union SwappedAddr(SweptLines \intersect RowLines),
    ddrcheck |-> StuckAddr({4, LineCount - 1}) \union BadLane,
    main |-> StuckAddr(SweptLines) \union StuckData("main")
             \union (BadLane \ {Fault("mask", 3, 1)})]

Swap(n, i, j) == IF Bit(n, i) = Bit(n, j) THEN n
                 ELSE IF Bit(n, i) = 1 THEN n - 2 ^ i + 2 ^ j ELSE n + 2 ^ i - 2 ^ j
Force(n, i, v) == n + (v - Bit(n, i)) * 2 ^ i

Cell(a) == LET w == a - (a % 4)
           IN CASE fault.k = "address" -> Force(w, fault.i, fault.v)
                [] fault.k = "swapaddress" -> Swap(w, fault.i, fault.v)
                [] OTHER -> w

(* The lanes one data line drives: both beats of a burst, one lane of RAM. *)
Driven == IF test = "main" THEN {fault.i \div 8 + 1}
          ELSE {fault.i \div 8 + 1, fault.i \div 8 + 3}
OnLines(bits) ==
    [l \in 1 .. 4 |->
        CASE l \in Driven /\ fault.k = "swapdata" -> Swap(bits[l], fault.i, fault.v)
          [] l \in Driven /\ fault.k \in {"written", "read"}
                -> Force(bits[l], fault.i % 8, fault.v)
          [] OTHER -> bits[l]]

Lanes(s) == {(s.a % 4) + i : i \in 1 .. s.n}
Masked(s) == CASE fault.k = "mask" /\ fault.v = 0 -> Lanes(s) \ {fault.i + 1}
               [] fault.k = "mask" /\ fault.v = 1 -> Lanes(s) \union {fault.i + 1}
               [] OTHER -> Lanes(s)

(* A narrow store has its value on every lane of the bus.                  *)
OnBus(s) == CASE s.n = 4 -> s.v
              [] s.n = 2 -> Word(s.v, s.v)
              [] OTHER -> << s.v, s.v, s.v, s.v >>
StoredAs(s) == LET w == IF fault.k = "read" THEN OnBus(s) ELSE OnLines(OnBus(s))
              IN [l \in 1 .. 4 |-> IF l \in Masked(s) THEN w[l] ELSE cells[Cell(s.a)][l]]

(* What a load may return.  A late edge may take a bit of the other beat.  *)
OtherBeat(w, l) == Force(w[l], fault.i % 8, Bit(w[((l + 1) % 4) + 1], fault.i % 8))
Loaded(a) ==
    LET w == cells[Cell(a)]
    IN IF fault.k = "edge"
       THEN {w} \union {[l \in 1 .. 4 |-> IF l \in Driven THEN OtherBeat(w, l) ELSE w[l]]}
       ELSE {IF fault.k = "written" THEN w ELSE OnLines(w)}

-----------------------------------------------------------------------------
(* A board has its program, the table with it, written over the same lines.*)
Contents(p, junk) ==
    [a \in Words |->
        LET here == {i \in DOMAIN TableAddrs : p = "sdramtest" /\ Cell(TableAddrs[i]) = a}
        IN IF here = {} THEN Word(junk, junk) ELSE Word(0, WordAt(Max(here) - 1))]

Faults(p) == Claims[p] \union LateEdge \union SwappedAddr(RowLines) \union SwappedData
             \union {Healthy}

MemInit ==
    /\ test \in DOMAIN MemPrograms
    /\ fault \in Faults(test)
    /\ \E junk \in {0, 65535} : cells = Contents(test, junk)
    /\ place = 1 /\ ok = TRUE /\ failures = 0
    /\ first = Absent /\ blame = Absent /\ verdict = Absent

Step == MemPrograms[test][place]
Running == place <= Length[test]
NextReport == CHOOSE n \in place .. Length[test] :
                 /\ MemPrograms[test][n].op = "report"
                 /\ \A k \in place .. n - 1 : MemPrograms[test][k].op # "report"

DoStore ==
    /\ Running /\ Step.op = "store"
    /\ cells' = [cells EXCEPT ![Cell(Step.a)] = StoredAs(Step)]
    /\ place' = place + 1
    /\ UNCHANGED <<test, fault, ok, failures, first, blame, verdict>>

(* The sweep of sdramcheck keeps its first wrong address.                  *)
InSweep == \E n \in place .. Length[test] : /\ MemPrograms[test][n].op = "diagnose"
                                        /\ \A k \in place .. n : MemPrograms[test][k].op # "report"
DoLoad ==
    /\ Running /\ Step.op = "load"
    /\ \E back \in Loaded(Step.a) :
          LET same == \A l \in Step.n : back[l] = Step.v[l]
          IN /\ ok' = (ok /\ same)
             /\ first' = IF ~same /\ first = Absent /\ InSweep THEN Step.a ELSE first
             /\ place' = IF ~same /\ test \in LeavesEarly THEN NextReport ELSE place + 1
    /\ UNCHANGED <<test, fault, cells, failures, blame, verdict>>

(* 65 reads of the address: all the same, or not.                          *)
ReReadsVary == \E r0, r1 \in Loaded(first) : r0 # r1
DoDiagnose ==
    /\ Running /\ Step.op = "diagnose"
    /\ \/ first = Absent /\ blame' = Absent
       \/ first # Absent /\ ReReadsVary /\ blame' = "read"
       \/ first # Absent /\ blame' = "write"
    /\ place' = place + 1
    /\ UNCHANGED <<test, fault, cells, ok, failures, first, verdict>>

(* The volatile spin: with refresh stopped, cells run down.                *)
DoIdle ==
    /\ Running /\ Step.op = "idle"
    /\ cells' = IF fault.k = "refresh" THEN [a \in Words |-> Word(0, 0)] ELSE cells
    /\ place' = place + 1
    /\ UNCHANGED <<test, fault, ok, failures, first, blame, verdict>>

DoReport ==
    /\ Running /\ Step.op = "report"
    /\ failures' = IF ok THEN failures ELSE failures + 1
    /\ ok' = TRUE
    /\ place' = place + 1
    /\ UNCHANGED <<test, fault, cells, first, blame, verdict>>

Finish ==
    /\ ~Running /\ verdict = Absent
    /\ verdict' = IF failures = 0 THEN "PASS" ELSE "FAIL"
    /\ UNCHANGED <<test, fault, place, cells, ok, failures, first, blame>>

MemNext == DoStore \/ DoLoad \/ DoDiagnose \/ DoIdle \/ DoReport \/ Finish
MemSpec == MemInit /\ [][MemNext]_memVars

-----------------------------------------------------------------------------
MemTypeOK ==
    /\ test \in DOMAIN MemPrograms /\ fault \in Faults(test)
    /\ place \in 1 .. Length[test] + 1 /\ ok \in BOOLEAN
    /\ \A a \in Words : \A l \in 1 .. 4 : cells[a][l] \in 0 .. 255
    /\ failures \in Nat /\ first \in Words \union {Absent}
    /\ blame \in {Absent, "read", "write"} /\ verdict \in {Absent, "PASS", "FAIL"}

(* A memory without a fault passes every program.                          *)
HealthyPasses == verdict # Absent /\ fault = Healthy => verdict = "PASS"

(* A fault of a kind the program says it is there to find fails it, unless *)
(* it is a swap: the programs say they find those too, and each passes.    *)
IsSwap == fault.k \in {"swapaddress", "swapdata"}
FaultsAreFound ==
    verdict # Absent /\ fault \in Claims[test] => (verdict = "FAIL" <=> ~IsSwap)

(* The read path is blamed only where reads really are unsteady.  The      *)
(* other half of what the sweep prints is not so: it blames the write path *)
(* for any wrong read that is steady, a stuck read line's included.        *)
BlameIsDeserved == blame = "read" => fault.k = "edge"

(* A program's verdict is right of every memory that is sound or has a     *)
(* fault it is there to find, swaps apart, which all pass; and where the   *)
(* read path is blamed it is to blame.                                     *)
VerdictIsRight == MemTypeOK /\ HealthyPasses /\ FaultsAreFound /\ BlameIsDeserved

(* What the programs' comments say of swaps, and is not so: two address    *)
(* lines swapped give a value that belongs to a different address          *)
(* (sdramcheck.c and sdramtest.c, at pattern()), and a swapped data line   *)
(* fails the walking ones (sdramcheck.c).                                  *)
SwapsAreFound ==
    verdict # Absent /\ fault \in Claims[test] /\ IsSwap => verdict = "FAIL"
=============================================================================
