------------------------------ MODULE PagedHart ------------------------------
(* A hart running a program under Sv32: rtl/cpu_core.v's fetch and execute   *)
(* stages, the two rtl/mmu.v it translates with, the walkers' bus master     *)
(* rtl/soc/wb_ptw.v, and the trap handlers of the programs.                  *)
(*                                                                           *)
(* main() runs with translation off; the hart then enters supervisor mode    *)
(* and fetches ahead of execution through its own TLB, down predicted paths, *)
(* while execution translates data through the other.                        *)
EXTENDS PagedPrograms

CONSTANTS Programs, TlbSize

Memory == {"lw", "sw", "amo", "lr", "sc"}

(* An instruction that accesses or jumps names a page, and a program sets    *)
(* only the variables that tell its handlers what to do.                     *)
IsInstruction(i) ==
  /\ i.op \in Memory \cup {"call", "branch"} => i.p \in Nat
  /\ i.op = "set" => i.field \in {"far", "sfar", "ecall"}

ASSUME TlbAssumption == TlbSize \in Nat \ {0}
ASSUME ProgramsAssumption ==
  \A p \in Programs :
    /\ Len(p.main) \in Nat
    /\ \A f \in DOMAIN p.text : \A k \in DOMAIN p.text[f] : IsInstruction(p.text[f][k])

VARIABLES prog,    \* the program
          step,    \* how much of main() has run
          pc, q,   \* the fetch address; the instructions fetched, oldest first
          mem,     \* the words written
          old,     \* of a word overwritten since the last fence, its values
          mmu,     \* "I" and "D"
          bus,     \* the read wb_ptw has outstanding
          h        \* registers, trap state and the program's variables

vars == <<prog, step, pc, q, mem, old, mmu, bus, h>>
Sides == {"I", "D"}
Idle == [on |-> FALSE, who |-> "D", adr |-> <<0, 0>>]

Word(a) == IF a \in DOMAIN mem THEN mem[a] ELSE Junk
Held(a) == (IF a \in DOMAIN old THEN old[a] ELSE {}) \cup {Word(a)}

\* No walk: the registers are those of the last one, which nothing reads.
Resting == [st |-> "idle", va |-> [p |-> 0, i |-> 0], kind |-> "load",
            w1 |-> Zero, w2 |-> Zero, crossed |-> FALSE]
ColdMmu == [walk |-> Resting, tlb |-> [k \in 1..TlbSize |-> <<>>], ptr |-> 1]

Boot == [rd |-> D(0), ra |-> [p |-> 0, i |-> 0], resv |-> 0,
         arm |-> 0, count |-> 0, n |-> 0, cause |-> 0, tval |-> <<0, 0>>,
         far |-> FALSE, mrec |-> [cause |-> 0, tval |-> <<0, 0>>],
         sfar |-> FALSE, scount |-> 0, sn |-> 0, mn |-> 0,
         srec |-> [cause |-> 0, tval |-> <<0, 0>>],
         ecall |-> {}, fails |-> 0, verdict |-> "running"]

Init ==
  /\ prog \in Programs
  /\ step = 1
  /\ pc = [p |-> CODE, i |-> 1]
  /\ q = <<>>
  /\ mem = <<>>
  /\ old = <<>>
  /\ mmu = [m \in Sides |-> ColdMmu]
  /\ bus = Idle
  /\ h = Boot

Paged == step > Len(prog.main)

(* main(): physical writes; then satp, sfence.vma and mret.  No walk runs,   *)
(* since nothing is translated in machine mode.                              *)
Main ==
  /\ ~Paged
  /\ step' = step + 1
  /\ mem' = prog.main[step] @@ mem
  /\ UNCHANGED <<prog, pc, q, old, mmu, bus, h>>

(* ---- the MMUs ------------------------------------------------------------ *)
Matches(e, p) == e # <<>> /\ IF e.super THEN V1(e.p) = V1(p) ELSE e.p = p

\* The lowest-numbered entry that matches.
HitIndex(m, p) == LET hits == {k \in 1..TlbSize : Matches(mmu[m].tlb[k], p)}
                  IN IF hits = {} THEN 0 ELSE Min(hits)
Hits(m, p) == mmu[m].walk.st = "idle" /\ HitIndex(m, p) # 0

Hit(m, p, kind) == LET e == mmu[m].tlb[HitIndex(m, p)]
                   IN [fault |-> ~PermOk(e.pte.f, kind), pa |-> Maps(e.pte, e.super, p)]

Walk(m) == mmu[m].walk
Concluded(m) == Walk(m).st = "done"
Conclusion(m) == Walked(Walk(m).w1, Walk(m).w2, Walk(m).va.p, Walk(m).kind)

\* A miss: the address and the access are latched and the walk begins.
Miss(m, va, kind) ==
  /\ Walk(m).st = "idle"
  /\ HitIndex(m, va.p) = 0
  /\ mmu' = [mmu EXCEPT ![m].walk = [Resting EXCEPT !.st = "L1", !.va = va, !.kind = kind]]

\* The end of a walk: its leaf is installed, round robin, unless it faulted.
Install(m) ==
  LET c == Conclusion(m)
      e == [p |-> Walk(m).va.p, super |-> c.super, pte |-> c.pte, crossed |-> Walk(m).crossed]
  IN IF c.fault THEN [mmu[m] EXCEPT !.walk = Resting]
     ELSE [walk |-> Resting, tlb |-> [mmu[m].tlb EXCEPT ![mmu[m].ptr] = e],
           ptr |-> (mmu[m].ptr % TlbSize) + 1]

\* Mutant: the fence leaves a walk running.
FlushedWalksOn(m) == [ColdMmu EXCEPT !.ptr = mmu[m].ptr, !.walk = mmu[m].walk]
\* SFENCE.VMA: every entry goes, and a walk in progress is abandoned.
Flushed(m) == [ColdMmu EXCEPT !.ptr = mmu[m].ptr]

(* ---- wb_ptw: one read at a time, the data walker first ------------------- *)
Asks(m) == Walk(m).st \in {"L1", "L2"}
Wanted(m) == IF Walk(m).st = "L1" THEN L1Addr(prog.root, Walk(m).va.p)
             ELSE L2Addr(Walk(m).w1, Walk(m).va.p)

PtwStart ==
  /\ ~bus.on
  /\ \E m \in Sides : Asks(m) /\ (m = "I" => ~Asks("D")) /\ bus' = [on |-> TRUE, who |-> m, adr |-> Wanted(m)]
  /\ UNCHANGED <<prog, step, pc, q, mem, old, mmu, h>>

(* The answer goes to the walker that owns the transaction, if it is asking  *)
(* for anything: the grant does not say for which address.                   *)
Granted(m, w) ==
  LET a == IF bus.adr = Wanted(m) THEN Walk(m).crossed ELSE TRUE
  IN IF Walk(m).st = "L1" THEN [Walk(m) EXCEPT !.st = "L2", !.w1 = w, !.crossed = a]
     ELSE [Walk(m) EXCEPT !.st = "done", !.w2 = w, !.crossed = a]

PtwAck ==
  /\ bus.on
  /\ bus' = Idle
  /\ mmu' = IF Asks(bus.who) THEN [mmu EXCEPT ![bus.who].walk = Granted(bus.who, Word(bus.adr))] ELSE mmu
  /\ UNCHANGED <<prog, step, pc, q, mem, old, h>>

(* ---- fetch --------------------------------------------------------------- *)
Succ(at) == [at EXCEPT !.i = @ + 1]
Text(ppn, i) == IF ppn \in DOMAIN prog.text /\ i \in DOMAIN prog.text[ppn]
                THEN prog.text[ppn][i] ELSE Do("illegal")

\* Where the predictor may send the fetch: past a jump, or to its target.
Predicted(i, at) ==
  {Succ(at)} \cup (IF i.op \in {"call", "branch"} THEN {[p |-> i.p, i |-> 1]} ELSE {})
             \cup (IF i.op = "ret" THEN {h.ra} ELSE {})
Room == Len(q) < 3              \* in decode, in execute, and a store in MEM

\* The word at place n of the frame t answers goes in the queue, as pc's.
Take(t, n) ==
  LET i == IF t.fault THEN Do("illegal") ELSE Text(t.pa, n) IN
  \E next \in Predicted(i, pc) :
     /\ q' = Append(q, [pc |-> pc, from |-> <<t.pa, n>>, fault |-> t.fault, next |-> next, i |-> i])
     /\ pc' = next

\* Mutant: the answer of a walk is taken for whatever the pc is now.
AnswersAnyPc == TRUE

\* itlb_answer_stale: a walk answers for the address it started with.
AnswersPc == Walk("I").va = pc

FetchMiss ==
  /\ Paged /\ Miss("I", pc, "fetch")
  /\ UNCHANGED <<prog, step, pc, q, mem, old, bus, h>>
FetchHit ==
  /\ Paged /\ Room /\ Hits("I", pc.p)
  /\ Take(Hit("I", pc.p, "fetch"), pc.i)
  /\ UNCHANGED <<prog, step, mem, old, mmu, bus, h>>
FetchWalked ==
  /\ Concluded("I")
  /\ mmu' = [mmu EXCEPT !["I"] = Install("I")]
  /\ IF Room /\ AnswersPc THEN Take(Conclusion("I"), Walk("I").va.i) ELSE UNCHANGED <<pc, q>>
  /\ UNCHANGED <<prog, step, mem, old, bus, h>>

(* ---- traps --------------------------------------------------------------- *)
At == Head(q)

Resume(to) == q' = <<>> /\ pc' = to
Advance ==
  /\ q' = Tail(q)
  /\ pc' = pc

\* m_front expects a fetch fault; trap_vector is armed.  A kernel's handlers
\* always step over a fault of its data, and leave a page they cannot fetch.
Expected(cause) == cause = 12 /\ (h.far \/ ~prog.shipped)
Armed(cause) == h.arm > 0 \/ (~prog.shipped /\ cause \in {13, 15})

(* The handlers, each run to its return: s_front records a delegated trap;   *)
(* m_front a fetch fault it was told to expect; trap_vector steps over an    *)
(* armed trap and reports any other, which ends the program.                 *)
Trap(cause, tval) ==
  LET rec == [cause |-> cause, tval |-> tval] IN
  IF cause \in h.ecall THEN
    /\ h' = [h EXCEPT !.srec = rec, !.scount = @ + 1]
    /\ Resume(IF h.sfar THEN h.ra ELSE Succ(At.pc))
  ELSE IF Expected(cause) THEN
    /\ h' = [h EXCEPT !.mrec = rec, !.far = FALSE]
    /\ Resume(h.ra)
  ELSE IF Armed(cause) THEN
    /\ h' = IF prog.shipped
            THEN [h EXCEPT !.cause = cause, !.tval = tval, !.arm = @ - 1, !.count = @ + 1]
            ELSE h
    /\ Resume(Succ(At.pc))
  ELSE h' = [h EXCEPT !.verdict = "FAIL"] /\ Resume(At.pc)

(* ---- execute ------------------------------------------------------------- *)
Executes == q # <<>> /\ h.verdict = "running"
Quiet == UNCHANGED <<prog, step, mem, old, mmu, bus>>

\* Mutant: an atomic is checked as the load it begins with.
KindByRead(i) == IF i.op = "sw" THEN "store" ELSE "load"

\* An LR only reads; every other atomic needs permission to write.
Kind(i) == IF i.op \in {"lw", "lr"} THEN "load" ELSE "store"

\* The value an access leaves in rd and, if it writes, in memory.
Loaded(i, a) == IF i.op = "sc" THEN (IF h.resv = a[1] THEN D(0) ELSE D(1)) ELSE Word(a)
Stored(i, a) == CASE i.op = "sw" -> i.v
                  [] i.op = "amo" -> D(Word(a).d + i.v.d)
                  [] i.op = "sc" -> i.v
Stores(i, a) == i.op \in {"sw", "amo"} \/ (i.op = "sc" /\ h.resv = a[1])

With(f, a, v) == [x \in DOMAIN f \cup {a} |-> IF x = a THEN v ELSE f[x]]

Store(a, v) ==
  /\ mem' = With(mem, a, v)
  /\ old' = With(old, a, Held(a))

\* The access itself, at the frame pa, unless PMP denies it.
Perform(i, pa) ==
  LET a == <<pa, i.w>> IN
  IF pa \in prog.denied
  THEN Trap(IF Kind(i) = "store" THEN 7 ELSE 5, <<i.p, i.off>>) /\ UNCHANGED <<mem, old>>
  ELSE /\ IF Stores(i, a) THEN Store(a, Stored(i, a)) ELSE UNCHANGED <<mem, old>>
       /\ h' = [h EXCEPT !.rd   = IF i.op = "sw" THEN @ ELSE Loaded(i, a),
                         !.resv = CASE i.op = "lr" -> pa [] i.op = "sc" -> 0 [] OTHER -> @]
       /\ Advance

Answered(i, t) ==
  IF t.fault THEN Trap(IF Kind(i) = "store" THEN 15 ELSE 13, <<i.p, i.off>>) /\ UNCHANGED <<mem, old>>
  ELSE Perform(i, t.pa)

IsAccess == Executes /\ ~At.fault /\ At.i.op \in Memory

\* Alignment is judged first, on the virtual address.
DataMisaligned ==
  /\ IsAccess /\ At.i.off # 0
  /\ Trap(IF At.i.op = "lw" THEN 4 ELSE 6, <<At.i.p, At.i.off>>)
  /\ Quiet
DataMiss ==
  /\ IsAccess /\ At.i.off = 0 /\ Miss("D", [p |-> At.i.p, i |-> 0], Kind(At.i))
  /\ UNCHANGED <<prog, step, pc, q, mem, old, bus, h>>
DataHit ==
  /\ IsAccess /\ At.i.off = 0 /\ Hits("D", At.i.p)
  /\ Answered(At.i, Hit("D", At.i.p, Kind(At.i)))
  /\ UNCHANGED <<prog, step, mmu, bus>>
DataWalked ==
  /\ Concluded("D")
  /\ Answered(At.i, Conclusion("D"))
  /\ mmu' = [mmu EXCEPT !["D"] = Install("D")]
  /\ UNCHANGED <<prog, step, bus>>

FetchFaulted ==
  /\ Executes /\ At.fault
  /\ Trap(12, <<At.pc.p, 0>>)
  /\ Quiet

Fence ==
  /\ Executes /\ ~At.fault /\ At.i.op = "sfence"
  /\ mmu' = [m \in Sides |-> Flushed(m)]
  /\ old' = <<>>
  /\ Advance
  /\ UNCHANGED <<prog, step, mem, bus, h>>

\* A jump: the fetch is sent to its target unless it already went there.
Jump(to) == IF At.next = to THEN Advance ELSE Resume(to)

CallsPage ==
  /\ Executes /\ ~At.fault /\ At.i.op = "call"
  /\ h' = [h EXCEPT !.ra = Succ(At.pc)]
  /\ Jump([p |-> At.i.p, i |-> 1])
  /\ Quiet
NotTaken ==
  /\ Executes /\ ~At.fault /\ At.i.op = "branch"
  /\ Jump(Succ(At.pc))
  /\ Quiet /\ UNCHANGED h
Returns ==
  /\ Executes /\ ~At.fault /\ At.i.op = "ret"
  /\ Jump(h.ra)
  /\ Quiet /\ UNCHANGED h

\* What a check compares.
Checks(i) ==
  LET rec == [cause |-> h.cause, tval |-> h.tval] IN
  CASE i.what = "true"   -> TRUE
    [] i.what = "rd"     -> h.rd = i.v
    [] i.what = "trap"   -> rec = i.v /\ h.arm = 0 /\ h.count = h.n + 1
    [] i.what = "mfetch" -> h.mrec = i.v /\ ~h.far
    [] i.what = "strap"  -> h.srec = i.v /\ h.scount = h.sn + 1 /\ h.count = h.mn

Software ==
  /\ Executes /\ ~At.fault
  /\ At.i.op \in {"auipc", "arm", "note", "mark", "set", "report", "verdict"}
  /\ h' = CASE At.i.op = "auipc"   -> [h EXCEPT !.rd = D(At.pc.p)]
            [] At.i.op = "arm"     -> [h EXCEPT !.arm = 1, !.n = h.count]
            [] At.i.op = "note"    -> [h EXCEPT !.sn = h.scount]
            [] At.i.op = "mark"    -> [h EXCEPT !.mn = h.count]
            [] At.i.op = "set"     -> [h EXCEPT ![At.i.field] = At.i.v]
            [] At.i.op = "report"  -> [h EXCEPT !.fails = IF Checks(At.i) THEN @ ELSE @ + 1]
            [] At.i.op = "verdict" -> [h EXCEPT !.verdict = IF h.fails = 0 THEN "PASS" ELSE "FAIL"]
  /\ Advance
  /\ Quiet

Illegal ==
  /\ Executes /\ ~At.fault /\ At.i.op = "illegal"
  /\ Trap(2, <<At.pc.p, 0>>)
  /\ Quiet

\* The loop a program ends in; a verdict ends what is modelled of it.
Spin ==
  /\ IF Executes THEN ~At.fault /\ At.i.op = "spin" ELSE h.verdict # "running"
  /\ UNCHANGED vars

Execute == \/ DataMisaligned \/ DataMiss \/ DataHit \/ DataWalked \/ FetchFaulted
           \/ Fence \/ CallsPage \/ NotTaken \/ Returns \/ Software \/ Illegal

Next == \/ Main \/ PtwStart \/ PtwAck \/ FetchMiss \/ FetchHit \/ FetchWalked
        \/ Execute \/ Spin

Spec == Init /\ [][Next]_vars

(* Clocked logic does not stop: main(), the walkers' master, fetch and       *)
(* execution of a shipped program each go on while they can.                 *)
FairSpec ==
  /\ Spec
  /\ WF_vars(prog.shipped /\ Main)
  /\ WF_vars(prog.shipped /\ PtwStart) /\ WF_vars(prog.shipped /\ PtwAck)
  /\ WF_vars(prog.shipped /\ (FetchMiss \/ FetchHit \/ FetchWalked))
  /\ WF_vars(prog.shipped /\ Execute)

(* ---- properties ---------------------------------------------------------- *)
Walks == [st : {"idle", "L1", "L2", "done"}, va : [p : Nat, i : Nat],
          kind : {"fetch", "load", "store"}]

\* Every variable keeps its shape; the TLBs keep their size and their pointer.
PagedTypeOK ==
  /\ step \in 1..(Len(prog.main) + 1)
  /\ pc.p \in Nat /\ pc.i \in Nat
  /\ Len(q) <= 3
  /\ \A m \in Sides : /\ [st |-> Walk(m).st, va |-> Walk(m).va, kind |-> Walk(m).kind] \in Walks
                      /\ Len(mmu[m].tlb) = TlbSize
                      /\ mmu[m].ptr \in 1..TlbSize
  /\ bus.on \in BOOLEAN /\ bus.who \in Sides
  /\ h.verdict \in {"running", "PASS", "FAIL"}

\* An entry (or a walk's two words) that memory held since the last fence.
Explained(p, w1, w2) ==
  w1 \in Held(L1Addr(prog.root, p)) /\ (~Concludes(w1) => w2 \in Held(L2Addr(w1, p)))

\* An entry some words the tables held would have installed.
EntryExplained(e) ==
  \E w1 \in Held(L1Addr(prog.root, e.p)) :
     IF e.super THEN AsPte(w1) = e.pte
     ELSE ~Concludes(w1) /\ \E w2 \in Held(L2Addr(w1, e.p)) : AsPte(w2) = e.pte

Entries(m) == {mmu[m].tlb[k] : k \in {j \in 1..TlbSize : mmu[m].tlb[j] # <<>>}}

(* "Software must SFENCE.VMA after changing a PTE": between a fence and the  *)
(* next, no TLB entry and no concluded walk holds anything but words the     *)
(* tables held since that fence, whatever was in flight when it ran.  Walks  *)
(* that were granted another walk's read are left out: EntriesAreOfTables is *)
(* about them.                                                               *)
AnswersAreFresh ==
  \A m \in Sides :
     /\ Concluded(m) /\ ~Walk(m).crossed => Explained(Walk(m).va.p, Walk(m).w1, Walk(m).w2)
     /\ \A e \in Entries(m) : e.crossed \/ EntryExplained(e)

(* A fence "abandons" a walk "rather than installing an entry derived from   *)
(* page tables the fence has just declared stale" (docs/architecture.md).    *)
(* wb_ptw keeps the abandoned read, and its answer is granted to the next    *)
(* walk, for another address: what that walk installs no table ever held.    *)
EntriesAreOfTables == \A m \in Sides : \A e \in Entries(m) : EntryExplained(e)

\* The frame the harness finds for p in the tables as they are.
HarnessFrame(p) ==
  LET w1 == Word(L1Addr(prog.root, p))
  IN HarnessWalk(w1, Word(L2Addr(w1, p)), p)

(* +checkdecode stays silent on a program that keeps its tables: the         *)
(* instruction at each stage is the one at its own pc, though the fetch was  *)
(* sent elsewhere while a walk for another address was in flight.            *)
DecodeIsOfItsPc ==
  prog.keeps =>
    \A k \in 1..Len(q) : ~q[k].fault =>
       q[k].from = <<HarnessFrame(q[k].pc.p), q[k].pc.i>>

(* +checkmmu stays silent on such a program: the frame a hit or a concluded  *)
(* walk answers is the one the harness's own walk of the tables finds.       *)
CheckMmuQuiet ==
  prog.keeps =>
    /\ \A m \in Sides : Concluded(m) /\ ~Conclusion(m).fault =>
         HarnessFrame(Walk(m).va.p) = Conclusion(m).pa
    /\ Paged => \A k \in 1..Len(q) :
         (~q[k].fault /\ q[k].i.op \in Memory /\ HitIndex("D", q[k].i.p) # 0) =>
            HarnessFrame(q[k].i.p) = Hit("D", q[k].i.p, "load").pa

(* The tables in DDR3 are not cleared: no walk of a program decides on a     *)
(* word nothing wrote.                                                       *)
NoUnwrittenEntryUsed ==
  \A m \in Sides : Concluded(m) /\ ~Walk(m).crossed =>
     Walk(m).w1 # Junk /\ (~Concludes(Walk(m).w1) => Walk(m).w2 # Junk)

(* What a translation answers comes from the tables as they have been since  *)
(* the last fence.                                                           *)
TranslationsHold == PagedTypeOK /\ AnswersAreFresh

(* The harness's two checks raise no false alarm, and no walk they follow    *)
(* decides on a word that nothing wrote.                                     *)
ChecksStayQuiet == DecodeIsOfItsPc /\ CheckMmuQuiet /\ NoUnwrittenEntryUsed

(* Both shipped programs end and pass, whatever the timing of their walks,   *)
(* their fetches ahead and the predictions they follow: every load returns   *)
(* what the frame holds, and every trap has the cause and address the check  *)
(* expects (mmutest.c s_mode_main, ddrmmutest.c part13_checks).              *)
ShippedProgramsPass == []<>(prog.shipped => h.verdict = "PASS")
=============================================================================
