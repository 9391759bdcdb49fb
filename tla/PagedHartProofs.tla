-------------------------- MODULE PagedHartProofs --------------------------
(***************************************************************************)
(* What a hart translates with, for every program, table, size of TLB and  *)
(* number of entries in a table.                                           *)
(*                                                                         *)
(* The inductive invariant has two parts.  ShapeInv is the types, and that *)
(* a walk for data is of the access that waits at the head of the queue,   *)
(* which is why its end may complete that access.  FreshInv follows the    *)
(* words from memory into a walk and from the walk into the TLB: a word    *)
(* read since the last fence is one that memory has held since, because a  *)
(* store keeps what it overwrites in Held and a fence empties the walks    *)
(* and the TLBs together with it.                                          *)
(***************************************************************************)
EXTENDS PagedHart, SequenceTheorems, TLAPS

Places == [p : Nat, i : Nat]

(* A sequence is one over what it holds.                                    *)
IsSequence(s) == s \in Seq({s[k] : k \in DOMAIN s})

(* The queue is a sequence of instructions, each fetched for a pc.          *)
QueueShape ==
  /\ IsSequence(q)
  /\ \A k \in DOMAIN q : q[k].pc \in Places /\ IsInstruction(q[k].i)

MmuShape(m) ==
  /\ DOMAIN mmu[m] = {"walk", "tlb", "ptr"}
  /\ DOMAIN Walk(m) = {"st", "va", "kind", "w1", "w2", "crossed"}
  /\ Walk(m).st \in {"idle", "L1", "L2", "done"}
  /\ Walk(m).va \in Places
  /\ Walk(m).kind \in {"fetch", "load", "store"}
  /\ mmu[m].tlb \in [1..TlbSize -> {mmu[m].tlb[k] : k \in 1..TlbSize}]
  /\ mmu[m].ptr \in 1..TlbSize

HartShape ==
  /\ {"ra", "verdict"} \subseteq DOMAIN h
  /\ h.ra \in Places
  /\ h.verdict \in {"running", "PASS", "FAIL"}

(* A walk for data is of the access at the head of the queue.               *)
WalkIsOfHead ==
  Walk("D").st # "idle" =>
    /\ q # <<>> /\ ~At.fault /\ At.i.op \in Memory /\ At.i.off = 0
    /\ Walk("D").va.p = At.i.p

(* Before main() has built the tables nothing is translated.                *)
NothingYet ==
  ~Paged => q = <<>> /\ ~bus.on /\ \A m \in Sides : mmu[m] = ColdMmu

ShapeInv ==
  /\ prog \in Programs
  /\ step \in 1..(Len(prog.main) + 1)
  /\ pc \in Places
  /\ QueueShape
  /\ Len(q) <= 3
  /\ DOMAIN mmu = Sides
  /\ \A m \in Sides : MmuShape(m)
  /\ bus.on \in BOOLEAN /\ bus.who \in Sides
  /\ HartShape
  /\ WalkIsOfHead
  /\ NothingYet

(* What a walk has read so far, unless it was given another's answer, its   *)
(* tables have held since the last fence.                                   *)
FreshWalk(w) ==
  ~w.crossed =>
    /\ w.st \in {"L2", "done"} => w.w1 \in Held(L1Addr(prog.root, w.va.p))
    /\ w.st = "done" /\ ~Concludes(w.w1) => w.w2 \in Held(L2Addr(w.w1, w.va.p))

FreshEntry(e) == e = <<>> \/ e.crossed \/ EntryExplained(e)

FreshInv ==
  \A m \in Sides :
    /\ FreshWalk(Walk(m))
    /\ \A k \in 1..TlbSize : FreshEntry(mmu[m].tlb[k])
-----------------------------------------------------------------------------
(* Sequences and programs. *)

(* Any sequence is one over what it holds.                                  *)
LEMMA SeqOfItself ==
  ASSUME NEW S, NEW s \in Seq(S)
  PROVE  IsSequence(s)
<1> DEFINE R == {s[k] : k \in DOMAIN s}
<1>1. Len(s) \in Nat /\ DOMAIN s = 1..Len(s) /\ s \in [1..Len(s) -> S]
  BY LenProperties
<1>2. s \in [1..Len(s) -> R]
  BY <1>1
<1> QED
  BY <1>1, <1>2, SeqDef DEF IsSequence

(* What is fetched is an instruction: the program's, or an illegal one.     *)
LEMMA TextIsInstruction ==
  ASSUME prog \in Programs, NEW ppn, NEW n
  PROVE  IsInstruction(Text(ppn, n))
BY ProgramsAssumption DEF Text, IsInstruction, Do, Memory

LEMMA SuccIsPlace ==
  ASSUME NEW at \in Places
  PROVE  Succ(at) \in Places
BY DEF Succ, Places

(* The queue's own shape after it gains an instruction.                     *)
LEMMA AppendKeepsShape ==
  ASSUME QueueShape, NEW e, e.pc \in Places, IsInstruction(e.i), q' = Append(q, e)
  PROVE  QueueShape' /\ (q # <<>> => Head(q') = Head(q)) /\ Len(q') = Len(q) + 1
<1> DEFINE S == {q[k] : k \in DOMAIN q} \cup {e}
<1>1. q \in Seq(S)
  BY SeqDef DEF QueueShape, IsSequence
<1>2. e \in S
  OBVIOUS
<1> HIDE DEF S
<1>3. /\ q' \in Seq(S) /\ Len(q') = Len(q) + 1
      /\ \A k \in 1..Len(q) : q'[k] = q[k]
      /\ q'[Len(q) + 1] = e
  BY <1>1, <1>2, AppendProperties
<1>4. DOMAIN q = 1..Len(q) /\ DOMAIN q' = 1..Len(q') /\ Len(q) \in Nat
  BY <1>1, <1>3, LenProperties
<1>5. IsSequence(q')
  BY <1>3, SeqOfItself
<1>6. \A k \in DOMAIN q' : q'[k].pc \in Places /\ IsInstruction(q'[k].i)
  <2> SUFFICES ASSUME NEW k \in DOMAIN q'
               PROVE  q'[k].pc \in Places /\ IsInstruction(q'[k].i)
    OBVIOUS
  <2>1. k \in 1..Len(q) \/ k = Len(q) + 1
    BY <1>3, <1>4
  <2> QED
    BY <2>1, <1>3, <1>4 DEF QueueShape
<1>7. q # <<>> => Head(q') = Head(q)
  <2> SUFFICES ASSUME q # <<>> PROVE Head(q') = Head(q)
    OBVIOUS
  <2>1. Len(q) >= 1
    BY <1>1, EmptySeq, LenProperties
  <2> QED
    BY <2>1, <1>1, <1>3
<1> QED
  BY <1>3, <1>5, <1>6, <1>7 DEF QueueShape

(* And after its head has left it.                                          *)
LEMMA TailKeepsShape ==
  ASSUME QueueShape, q # <<>>, Len(q) <= 3, q' = Tail(q)
  PROVE  QueueShape' /\ Len(q') <= 3
<1> DEFINE S == {q[k] : k \in DOMAIN q}
<1>1. q \in Seq(S)
  BY DEF QueueShape, IsSequence
<1> HIDE DEF S
<1>2. /\ q' \in Seq(S) /\ Len(q') = Len(q) - 1
      /\ \A k \in 1..Len(q') : q'[k] = q[k + 1]
  BY <1>1, HeadTailProperties
<1>3. DOMAIN q = 1..Len(q) /\ DOMAIN q' = 1..Len(q') /\ Len(q) \in Nat
  BY <1>1, <1>2, LenProperties
<1>4. IsSequence(q')
  <2>1. q' \in Seq(S)
    BY <1>2
  <2> QED
    BY <2>1, SeqOfItself
<1>5. \A k \in DOMAIN q' : q'[k].pc \in Places /\ IsInstruction(q'[k].i)
  BY <1>2, <1>3 DEF QueueShape
<1> QED
  BY <1>2, <1>3, <1>4, <1>5 DEF QueueShape

LEMMA EmptyQueueShape ==
  ASSUME q' = <<>>
  PROVE  QueueShape' /\ Len(q') <= 3
<1>1. q' \in Seq({}) /\ Len(q') = 0
  BY EmptySeq
<1>2. DOMAIN q' = {}
  BY <1>1, LenProperties
<1>3. IsSequence(q')
  BY <1>1, SeqOfItself
<1> QED
  BY <1>1, <1>2, <1>3 DEF QueueShape

(* What is at the head of the queue.                                        *)
LEMMA HeadIsInstruction ==
  ASSUME QueueShape, q # <<>>
  PROVE  At.pc \in Places /\ IsInstruction(At.i)
<1>1. Len(q) >= 1 /\ DOMAIN q = 1..Len(q) /\ Len(q) \in Nat
  BY EmptySeq, LenProperties DEF QueueShape, IsSequence
<1>2. At = q[1]
  BY DEF At
<1> QED
  BY <1>1, <1>2 DEF QueueShape
-----------------------------------------------------------------------------
(* The shape of the state. *)

LEMMA InitShape ==
  ASSUME Init
  PROVE  ShapeInv
<1> USE DEF Init
<1>1. QueueShape /\ Len(q) <= 3
  <2>1. q \in Seq({}) /\ Len(q) = 0 /\ DOMAIN q = {}
    BY EmptySeq, LenProperties
  <2>2. IsSequence(q)
    BY <2>1, SeqOfItself
  <2> QED
    BY <2>1, <2>2 DEF QueueShape
<1>2. \A m \in Sides : MmuShape(m)
  BY TlbAssumption DEF MmuShape, Walk, ColdMmu, Resting, Places
<1>3. HartShape
  BY DEF HartShape, Boot, Places
<1>4. WalkIsOfHead
  BY DEF WalkIsOfHead, Walk, ColdMmu, Resting, Sides
<1>5. NothingYet
  BY DEF NothingYet, Idle
<1>6. step \in 1..(Len(prog.main) + 1)
  BY ProgramsAssumption
<1>7. pc \in Places
  BY N0Assumption DEF Places, CODE, Page, RAM
<1> QED
  BY <1>1, <1>2, <1>3, <1>4, <1>5, <1>6, <1>7 DEF ShapeInv, Idle, Sides

(* What main() writes changes no shape.                                     *)
LEMMA MainShape ==
  ASSUME ShapeInv, Main
  PROVE  ShapeInv'
<1> USE DEF ShapeInv, Main
<1>1. step' \in 1..(Len(prog'.main) + 1)
  BY ProgramsAssumption DEF Paged
<1>2. QueueShape' /\ HartShape' /\ WalkIsOfHead'
  BY DEF QueueShape, HartShape, WalkIsOfHead, Walk, At
<1>3. \A m \in Sides : MmuShape(m)'
  BY DEF MmuShape, Walk
<1>4. NothingYet'
  BY DEF NothingYet, Paged
<1> QED
  BY <1>1, <1>2, <1>3, <1>4

(* The entry that the end of a walk installs.                               *)
NewEntry(m) ==
  [p |-> Walk(m).va.p, super |-> Conclusion(m).super, pte |-> Conclusion(m).pte,
   crossed |-> Walk(m).crossed]

(* A step with the MMUs as they were.                                       *)
LEMMA MmuShapeKept ==
  ASSUME ShapeInv, UNCHANGED mmu
  PROVE  DOMAIN mmu' = Sides /\ \A m \in Sides : MmuShape(m)'
BY DEF ShapeInv, MmuShape, Walk

(* A step that gives one MMU a walk, and no entry.                          *)
LEMMA WalkShape ==
  ASSUME ShapeInv, NEW m \in Sides, NEW w, mmu' = [mmu EXCEPT ![m].walk = w],
         DOMAIN w = {"st", "va", "kind", "w1", "w2", "crossed"},
         w.st \in {"idle", "L1", "L2", "done"}, w.va \in Places,
         w.kind \in {"fetch", "load", "store"}
  PROVE  /\ DOMAIN mmu' = Sides
         /\ \A n \in Sides : MmuShape(n)'
         /\ Walk(m)' = w
         /\ \A n \in Sides \ {m} : mmu'[n] = mmu[n]
         /\ \A n \in Sides : mmu'[n].tlb = mmu[n].tlb
<1>1. DOMAIN mmu' = Sides /\ \A n \in Sides \ {m} : mmu'[n] = mmu[n]
  BY DEF ShapeInv
<1>2. mmu'[m] = [mmu[m] EXCEPT !.walk = w]
  BY DEF ShapeInv
<1>3. /\ DOMAIN mmu'[m] = {"walk", "tlb", "ptr"} /\ mmu'[m].walk = w
      /\ mmu'[m].tlb = mmu[m].tlb /\ mmu'[m].ptr = mmu[m].ptr
  BY <1>2 DEF ShapeInv, MmuShape
<1>4. MmuShape(m)'
  BY <1>3 DEF ShapeInv, MmuShape, Walk
<1>5. ASSUME NEW n \in Sides \ {m} PROVE MmuShape(n)'
  <2>1. mmu'[n] = mmu[n] /\ MmuShape(n)
    BY <1>1 DEF ShapeInv
  <2> QED
    BY <2>1 DEF MmuShape, Walk
<1> QED
  BY <1>1, <1>3, <1>4, <1>5 DEF Walk

(* The end of a walk, with its entry or without.                            *)
LEMMA InstallShape ==
  ASSUME ShapeInv, NEW m \in Sides, mmu' = [mmu EXCEPT ![m] = Install(m)]
  PROVE  /\ DOMAIN mmu' = Sides
         /\ \A n \in Sides : MmuShape(n)'
         /\ Walk(m)' = Resting
         /\ \A n \in Sides \ {m} : mmu'[n] = mmu[n]
         /\ \A k \in 1..TlbSize : \/ mmu'[m].tlb[k] = mmu[m].tlb[k]
                                  \/ mmu'[m].tlb[k] = NewEntry(m)
<1>1. /\ DOMAIN mmu' = Sides /\ \A n \in Sides \ {m} : mmu'[n] = mmu[n]
      /\ mmu'[m] = Install(m)
  BY DEF ShapeInv
<1>2. MmuShape(m)
  BY DEF ShapeInv
<1>3. \A n \in Sides \ {m} : MmuShape(n)'
  BY <1>1 DEF ShapeInv, MmuShape, Walk
<1>4. CASE Conclusion(m).fault
  <2>1. mmu'[m] = [mmu[m] EXCEPT !.walk = Resting]
    BY <1>1, <1>4 DEF Install
  <2>2. /\ DOMAIN mmu'[m] = {"walk", "tlb", "ptr"} /\ mmu'[m].walk = Resting
        /\ mmu'[m].tlb = mmu[m].tlb /\ mmu'[m].ptr = mmu[m].ptr
    BY <1>2, <2>1 DEF MmuShape
  <2>3. MmuShape(m)'
    BY <1>2, <2>2 DEF MmuShape, Walk, Resting, Places
  <2> QED
    BY <1>1, <1>3, <2>2, <2>3 DEF Walk
<1>5. CASE ~Conclusion(m).fault
  <2> DEFINE e == NewEntry(m)
  <2>1. mmu'[m] = [walk |-> Resting, tlb |-> [mmu[m].tlb EXCEPT ![mmu[m].ptr] = e],
                   ptr |-> (mmu[m].ptr % TlbSize) + 1]
    BY <1>1, <1>5 DEF Install, NewEntry
  <2> HIDE DEF e
  <2>2. /\ DOMAIN mmu'[m] = {"walk", "tlb", "ptr"} /\ mmu'[m].walk = Resting
        /\ mmu'[m].tlb = [mmu[m].tlb EXCEPT ![mmu[m].ptr] = e]
        /\ mmu'[m].ptr = (mmu[m].ptr % TlbSize) + 1
    BY <2>1
  <2>3. \A k \in 1..TlbSize : mmu'[m].tlb[k] = mmu[m].tlb[k] \/ mmu'[m].tlb[k] = e
    BY <1>2, <2>2 DEF MmuShape
  <2>4. mmu'[m].tlb \in [1..TlbSize -> {mmu'[m].tlb[k] : k \in 1..TlbSize}]
    BY <1>2, <2>2 DEF MmuShape
  <2>5. mmu'[m].ptr \in 1..TlbSize
    <3>1. mmu[m].ptr \in Nat /\ TlbSize \in Nat \ {0}
      BY <1>2, TlbAssumption DEF MmuShape
    <3>2. mmu[m].ptr % TlbSize \in 0..(TlbSize - 1)
      BY <3>1
    <3> QED
      BY <2>2, <3>1, <3>2
  <2>6. MmuShape(m)'
    BY <2>2, <2>4, <2>5 DEF MmuShape, Walk, Resting, Places
  <2> QED
    BY <1>1, <1>3, <2>2, <2>3, <2>6 DEF Walk, e
<1> QED
  BY <1>4, <1>5

(* A fence keeps the replacement pointers and nothing else.                 *)
LEMMA FenceShape ==
  ASSUME ShapeInv, mmu' = [m \in Sides |-> Flushed(m)]
  PROVE  /\ DOMAIN mmu' = Sides
         /\ \A m \in Sides : MmuShape(m)'
         /\ \A m \in Sides : Walk(m)' = Resting
         /\ \A m \in Sides : \A k \in 1..TlbSize : mmu'[m].tlb[k] = <<>>
<1>1. DOMAIN mmu' = Sides
  OBVIOUS
<1> SUFFICES ASSUME NEW m \in Sides
             PROVE  /\ MmuShape(m)' /\ Walk(m)' = Resting
                    /\ \A k \in 1..TlbSize : mmu'[m].tlb[k] = <<>>
  BY <1>1
<1>2. mmu'[m] = [ColdMmu EXCEPT !.ptr = mmu[m].ptr]
  BY DEF Flushed
<1>3. /\ DOMAIN mmu'[m] = {"walk", "tlb", "ptr"} /\ mmu'[m].walk = Resting
      /\ mmu'[m].tlb = [k \in 1..TlbSize |-> <<>>] /\ mmu'[m].ptr = mmu[m].ptr
  BY <1>2 DEF ColdMmu
<1>4. MmuShape(m)'
  <2>1. mmu'[m].tlb \in [1..TlbSize -> {mmu'[m].tlb[k] : k \in 1..TlbSize}]
    BY <1>3
  <2>2. mmu'[m].ptr \in 1..TlbSize
    BY <1>3 DEF ShapeInv, MmuShape
  <2> QED
    BY <1>3, <2>1, <2>2 DEF MmuShape, Walk, Resting, Places
<1> QED
  BY <1>3, <1>4 DEF Walk

(* A read on the bus begins, and ends.                                      *)
LEMMA PtwStartShape ==
  ASSUME ShapeInv, PtwStart
  PROVE  ShapeInv'
<1> USE DEF ShapeInv, PtwStart
<1>1. \A m \in Sides : mmu[m] = ColdMmu => ~Asks(m)
  BY DEF Asks, Walk, ColdMmu, Resting
<1>2. NothingYet'
  BY <1>1 DEF NothingYet, Paged
<1>3. QueueShape' /\ HartShape' /\ WalkIsOfHead'
  BY DEF QueueShape, HartShape, WalkIsOfHead, Walk, At
<1>4. bus'.on \in BOOLEAN /\ bus'.who \in Sides
  OBVIOUS
<1> QED
  BY <1>2, <1>3, <1>4, MmuShapeKept

LEMMA PtwAckShape ==
  ASSUME ShapeInv, PtwAck, NEW m \in Sides, bus.who = m
  PROVE  /\ ShapeInv'
         /\ \/ mmu' = mmu
            \/ /\ Asks(m)
               /\ Walk(m)' = Granted(m, Word(bus.adr))
               /\ \A n \in Sides \ {m} : mmu'[n] = mmu[n]
               /\ \A n \in Sides : mmu'[n].tlb = mmu[n].tlb
<1> USE DEF ShapeInv, PtwAck
<1>1. NothingYet'
  BY DEF NothingYet, Paged
<1>2. QueueShape' /\ HartShape'
  BY DEF QueueShape, HartShape
<1>3. bus'.on \in BOOLEAN /\ bus'.who \in Sides
  BY DEF Idle, Sides
<1>4. CASE ~Asks(m)
  <2>1. mmu' = mmu
    BY <1>4
  <2>2. WalkIsOfHead'
    BY <2>1 DEF WalkIsOfHead, Walk, At
  <2> QED
    BY <1>1, <1>2, <1>3, <2>1, <2>2, MmuShapeKept
<1>5. CASE Asks(m)
  <2> DEFINE w == Granted(m, Word(bus.adr))
  <2>1. mmu' = [mmu EXCEPT ![m].walk = w]
    BY <1>5
  <2>2. /\ DOMAIN w = {"st", "va", "kind", "w1", "w2", "crossed"}
        /\ w.st \in {"L2", "done"} /\ w.va = Walk(m).va /\ w.kind = Walk(m).kind
    BY DEF Granted, MmuShape
  <2> HIDE DEF w
  <2>3. w.va \in Places /\ w.kind \in {"fetch", "load", "store"}
    BY <2>2 DEF MmuShape
  <2>4. w.st \in {"idle", "L1", "L2", "done"}
    BY <2>2
  <2>5. /\ DOMAIN mmu' = Sides
        /\ \A n \in Sides : MmuShape(n)'
        /\ Walk(m)' = w
        /\ \A n \in Sides \ {m} : mmu'[n] = mmu[n]
        /\ \A n \in Sides : mmu'[n].tlb = mmu[n].tlb
    BY <2>1, <2>2, <2>3, <2>4, WalkShape
  <2>6. mmu'["D"].walk.st # "idle" =>
           Walk("D").st # "idle" /\ mmu'["D"].walk.va = Walk("D").va
    <3>1. CASE m = "D"
      BY <3>1, <1>5, <2>2, <2>5 DEF Asks, Walk
    <3>2. CASE m # "D"
      BY <3>2, <2>5 DEF Walk, Sides
    <3> QED
      BY <3>1, <3>2
  <2>7. WalkIsOfHead'
    BY <2>6 DEF WalkIsOfHead, At, Walk
  <2> QED
    BY <1>1, <1>2, <1>3, <1>5, <2>5, <2>7 DEF w
<1> QED
  BY <1>4, <1>5

(* A miss gives an MMU a walk for the address it was asked for.             *)
LEMMA MissShape ==
  ASSUME ShapeInv, NEW m \in Sides, NEW va \in Places,
         NEW kind \in {"fetch", "load", "store"}, Miss(m, va, kind)
  PROVE  /\ DOMAIN mmu' = Sides
         /\ \A n \in Sides : MmuShape(n)'
         /\ Walk(m)'.st = "L1" /\ Walk(m)'.va = va /\ Walk(m)'.crossed = FALSE
         /\ Walk(m).st = "idle"
         /\ \A n \in Sides \ {m} : mmu'[n] = mmu[n]
         /\ \A n \in Sides : mmu'[n].tlb = mmu[n].tlb
<1> DEFINE w == [Resting EXCEPT !.st = "L1", !.va = va, !.kind = kind]
<1>1. mmu' = [mmu EXCEPT ![m].walk = w] /\ Walk(m).st = "idle"
  BY DEF Miss
<1>2. /\ DOMAIN w = {"st", "va", "kind", "w1", "w2", "crossed"}
      /\ w.st = "L1" /\ w.va = va /\ w.kind = kind /\ w.crossed = FALSE
  BY DEF Resting
<1> HIDE DEF w
<1>3. w.st \in {"idle", "L1", "L2", "done"} /\ w.va \in Places
      /\ w.kind \in {"fetch", "load", "store"}
  BY <1>2
<1>4. /\ DOMAIN mmu' = Sides
      /\ \A n \in Sides : MmuShape(n)'
      /\ Walk(m)' = w
      /\ \A n \in Sides \ {m} : mmu'[n] = mmu[n]
      /\ \A n \in Sides : mmu'[n].tlb = mmu[n].tlb
  BY <1>1, <1>2, <1>3, WalkShape
<1> QED
  BY <1>1, <1>2, <1>4

(* The fetch side: it appends to the queue, and its walk is its own.        *)
LEMMA TakeShape ==
  ASSUME ShapeInv, Room, NEW t, NEW n, Take(t, n)
  PROVE  /\ QueueShape' /\ Len(q') <= 3 /\ pc' \in Places
         /\ q' # <<>> /\ (q # <<>> => Head(q') = Head(q))
<1> DEFINE i == IF t.fault THEN Do("illegal") ELSE Text(t.pa, n)
<1>1. IsInstruction(i)
  BY TextIsInstruction DEF ShapeInv, IsInstruction, Do, Memory
<1>2. PICK next \in Predicted(i, pc) :
         /\ q' = Append(q, [pc |-> pc, from |-> <<t.pa, n>>, fault |-> t.fault, next |-> next, i |-> i])
         /\ pc' = next
  BY DEF Take
<1> HIDE DEF i
<1>3. next \in Places
  <2>1. Succ(pc) \in Places
    BY SuccIsPlace DEF ShapeInv
  <2>2. i.op \in {"call", "branch"} => [p |-> i.p, i |-> 1] \in Places
    BY <1>1 DEF IsInstruction, Places
  <2>3. h.ra \in Places
    BY DEF ShapeInv, HartShape
  <2> QED
    BY <1>2, <2>1, <2>2, <2>3 DEF Predicted
<1> DEFINE e == [pc |-> pc, from |-> <<t.pa, n>>, fault |-> t.fault, next |-> next, i |-> i]
<1>4. e.pc \in Places /\ IsInstruction(e.i) /\ q' = Append(q, e)
  BY <1>1, <1>2 DEF ShapeInv
<1> HIDE DEF e
<1>5. QueueShape' /\ (q # <<>> => Head(q') = Head(q)) /\ Len(q') = Len(q) + 1
  BY <1>4, AppendKeepsShape DEF ShapeInv
<1>6. Len(q) \in Nat
  BY LenProperties DEF ShapeInv, QueueShape, IsSequence
<1>7. q' # <<>>
  BY <1>5, <1>6, EmptySeq
<1> QED
  BY <1>2, <1>3, <1>5, <1>6, <1>7 DEF Room

LEMMA FetchShape ==
  ASSUME ShapeInv, FetchMiss \/ FetchHit \/ FetchWalked
  PROVE  ShapeInv'
<1>1. Paged
  <2>1. mmu["I"] = ColdMmu => ~Concluded("I")
    BY DEF Concluded, Walk, ColdMmu, Resting
  <2> QED
    BY <2>1 DEF ShapeInv, NothingYet, FetchMiss, FetchHit, FetchWalked, Sides
<1>2. UNCHANGED <<prog, step, bus, h>>
  BY DEF FetchMiss, FetchHit, FetchWalked
<1>3. NothingYet' /\ HartShape'
  BY <1>1, <1>2 DEF NothingYet, Paged, ShapeInv, HartShape
<1>4. \/ UNCHANGED <<q, pc>>
      \/ /\ QueueShape' /\ Len(q') <= 3 /\ pc' \in Places
         /\ q' # <<>> /\ (q # <<>> => Head(q') = Head(q))
  BY TakeShape DEF FetchMiss, FetchHit, FetchWalked
<1>5. QueueShape' /\ Len(q') <= 3 /\ pc' \in Places
  BY <1>4 DEF ShapeInv, QueueShape
<1>6. /\ DOMAIN mmu' = Sides
      /\ \A m \in Sides : MmuShape(m)'
      /\ mmu'["D"] = mmu["D"]
  <2>1. CASE FetchMiss
    <3>1. "I" \in Sides /\ pc \in Places /\ Miss("I", pc, "fetch")
      BY <2>1 DEF FetchMiss, Sides, ShapeInv
    <3> QED
      BY <3>1, MissShape DEF Sides
  <2>2. CASE FetchHit
    BY <2>2, MmuShapeKept DEF FetchHit
  <2>3. CASE FetchWalked
    <3>1. "I" \in Sides /\ mmu' = [mmu EXCEPT !["I"] = Install("I")]
      BY <2>3 DEF FetchWalked, Sides
    <3> QED
      BY <3>1, InstallShape DEF Sides
  <2> QED
    BY <2>1, <2>2, <2>3
<1>7. WalkIsOfHead'
  BY <1>4, <1>6 DEF ShapeInv, WalkIsOfHead, At, Walk
<1> QED
  BY <1>2, <1>3, <1>5, <1>6, <1>7 DEF ShapeInv

(* What a trap leaves behind, whoever handles it.                           *)
LEMMA TrapShape ==
  ASSUME ShapeInv, q # <<>>, NEW cause, NEW tval, Trap(cause, tval)
  PROVE  QueueShape' /\ Len(q') <= 3 /\ pc' \in Places /\ HartShape'
<1>1. At.pc \in Places /\ Succ(At.pc) \in Places /\ h.ra \in Places
  BY HeadIsInstruction, SuccIsPlace DEF ShapeInv, HartShape
<1>2. q' = <<>> /\ pc' \in Places
  BY <1>1 DEF Trap, Resume
<1>3. HartShape'
  BY DEF ShapeInv, HartShape, Trap
<1> QED
  BY <1>2, <1>3, EmptyQueueShape

(* What the execution of an instruction without a trap leaves behind.       *)
LEMMA JumpShape ==
  ASSUME ShapeInv, q # <<>>, NEW to \in Places, Advance \/ Resume(to)
  PROVE  QueueShape' /\ Len(q') <= 3 /\ pc' \in Places
<1>1. pc' \in Places
  BY DEF Advance, Resume, ShapeInv
<1>2. q' = Tail(q) \/ q' = <<>>
  BY DEF Advance, Resume
<1> QED
  BY <1>1, <1>2, TailKeepsShape, EmptyQueueShape DEF ShapeInv

(* An access that is answered leaves the queue or traps, and changes memory *)
(* by a store alone.                                                        *)
LEMMA AnsweredShape ==
  ASSUME ShapeInv, q # <<>>, NEW i, NEW t, Answered(i, t)
  PROVE  /\ QueueShape' /\ Len(q') <= 3 /\ pc' \in Places /\ HartShape'
         /\ UNCHANGED <<mem, old>> \/ Store(<<t.pa, i.w>>, Stored(i, <<t.pa, i.w>>))
<1>1. CASE (\E cause, tval : Trap(cause, tval)) /\ UNCHANGED <<mem, old>>
  BY <1>1, TrapShape
<1>2. CASE /\ IF Stores(i, <<t.pa, i.w>>)
              THEN Store(<<t.pa, i.w>>, Stored(i, <<t.pa, i.w>>)) ELSE UNCHANGED <<mem, old>>
           /\ h' = [h EXCEPT !.rd   = IF i.op = "sw" THEN @ ELSE Loaded(i, <<t.pa, i.w>>),
                             !.resv = CASE i.op = "lr" -> t.pa [] i.op = "sc" -> 0 [] OTHER -> @]
           /\ Advance
  <2>1. HartShape'
    BY <1>2 DEF ShapeInv, HartShape
  <2>2. pc \in Places
    BY DEF ShapeInv
  <2>3. QueueShape' /\ Len(q') <= 3 /\ pc' \in Places
    BY <1>2, <2>2, JumpShape
  <2> QED
    BY <1>2, <2>1, <2>3
<1>3. CASE t.fault
  BY <1>3, <1>1 DEF Answered
<1>4. CASE ~t.fault /\ t.pa \in prog.denied
  BY <1>4, <1>1 DEF Answered, Perform
<1>5. CASE ~t.fault /\ t.pa \notin prog.denied
  BY <1>5, <1>2 DEF Answered, Perform
<1> QED
  BY <1>3, <1>4, <1>5

(* What executes is the head of the queue; while its walk is under way, it  *)
(* is an access that no other action takes.                                 *)
LEMMA ExecuteShape ==
  ASSUME ShapeInv, Execute
  PROVE  ShapeInv'
<1>1. q # <<>> /\ Paged
  <2>1. q # <<>> \/ Concluded("D")
    BY DEF Execute, DataMisaligned, DataMiss, DataHit, DataWalked, FetchFaulted, Fence, CallsPage,
           NotTaken, Returns, Software, Illegal, IsAccess, Executes
  <2>2. q # <<>>
    BY <2>1 DEF ShapeInv, WalkIsOfHead, Concluded
  <2> QED
    BY <2>2 DEF ShapeInv, NothingYet
<1>2. UNCHANGED <<prog, step, bus>>
  BY DEF Execute, DataMisaligned, DataMiss, DataHit, DataWalked, FetchFaulted, Fence, CallsPage,
         NotTaken, Returns, Software, Illegal, Quiet
<1>3. NothingYet'
  BY <1>1, <1>2 DEF NothingYet, Paged
<1>4. At.pc \in Places /\ Succ(At.pc) \in Places /\ h.ra \in Places /\ IsInstruction(At.i)
      /\ pc \in Places
  BY <1>1, HeadIsInstruction, SuccIsPlace DEF ShapeInv, HartShape
<1> DEFINE Runs == QueueShape' /\ Len(q') <= 3 /\ pc' \in Places /\ HartShape'
           Translates == DOMAIN mmu' = Sides /\ \A m \in Sides : MmuShape(m)'
<1>5. Runs /\ Translates /\ WalkIsOfHead' => ShapeInv'
  BY <1>2, <1>3 DEF ShapeInv
<1>6. ASSUME Runs, UNCHANGED mmu, Walk("D").st = "idle"
      PROVE  ShapeInv'
  <2>1. Translates
    BY <1>6, MmuShapeKept
  <2>2. WalkIsOfHead'
    BY <1>6 DEF WalkIsOfHead, Walk
  <2> QED
    BY <1>5, <1>6, <2>1, <2>2
<1>7. ASSUME At.fault \/ At.i.op \notin Memory \/ At.i.off # 0
      PROVE  Walk("D").st = "idle"
  BY <1>7 DEF ShapeInv, WalkIsOfHead
<1> HIDE DEF Runs, Translates
<1>8. CASE DataMisaligned
  <2>1. Runs
    BY <1>1, <1>8, TrapShape DEF DataMisaligned, Runs
  <2> QED
    BY <1>6, <1>7, <1>8, <2>1 DEF DataMisaligned, Quiet
<1>9. CASE DataMiss
  <2>1. [p |-> At.i.p, i |-> 0] \in Places /\ Kind(At.i) \in {"fetch", "load", "store"}
        /\ "D" \in Sides /\ Miss("D", [p |-> At.i.p, i |-> 0], Kind(At.i))
    BY <1>4, <1>9 DEF DataMiss, IsAccess, IsInstruction, Places, Kind, Sides
  <2>2. /\ Translates
        /\ Walk("D")'.va = [p |-> At.i.p, i |-> 0]
    BY <2>1, MissShape DEF Translates
  <2>3. UNCHANGED <<q, pc, h>>
    BY <1>9 DEF DataMiss
  <2>4. Runs
    BY <2>3 DEF Runs, ShapeInv, QueueShape, HartShape
  <2>5. WalkIsOfHead'
    <3>1. q # <<>> /\ ~At.fault /\ At.i.op \in Memory /\ At.i.off = 0
      BY <1>1, <1>9 DEF DataMiss, IsAccess
    <3>2. Walk("D")'.va.p = At.i.p
      BY <2>2
    <3> QED
      BY <2>3, <3>1, <3>2 DEF WalkIsOfHead, At
  <2> QED
    BY <1>5, <2>2, <2>4, <2>5
<1>10. CASE DataHit
  <2>1. Runs
    BY <1>1, <1>10, AnsweredShape DEF DataHit, Runs
  <2> QED
    BY <1>6, <1>10, <2>1 DEF DataHit, Hits, Walk
<1>11. CASE DataWalked
  <2>1. Runs
    BY <1>1, <1>11, AnsweredShape DEF DataWalked, Runs
  <2>2. "D" \in Sides /\ mmu' = [mmu EXCEPT !["D"] = Install("D")]
    BY <1>11 DEF DataWalked, Sides
  <2>3. Translates /\ Walk("D")' = Resting
    BY <2>2, InstallShape DEF Translates
  <2>4. WalkIsOfHead'
    BY <2>3 DEF WalkIsOfHead, Resting
  <2> QED
    BY <1>5, <2>1, <2>3, <2>4
<1>12. CASE FetchFaulted
  <2>1. Runs
    BY <1>1, <1>12, TrapShape DEF FetchFaulted, Runs
  <2> QED
    BY <1>6, <1>7, <1>12, <2>1 DEF FetchFaulted, Quiet
<1>13. CASE Fence
  <2>1. Runs
    <3>1. HartShape'
      BY <1>13 DEF Fence, ShapeInv, HartShape
    <3> QED
      BY <1>1, <1>4, <1>13, <3>1, JumpShape DEF Fence, Runs
  <2>2. Translates /\ Walk("D")' = Resting
    BY <1>13, FenceShape DEF Fence, Translates, Sides
  <2>3. WalkIsOfHead'
    BY <2>2 DEF WalkIsOfHead, Resting
  <2> QED
    BY <1>5, <2>1, <2>2, <2>3
<1>14. CASE CallsPage
  <2>1. [p |-> At.i.p, i |-> 1] \in Places
    BY <1>4, <1>14 DEF CallsPage, IsInstruction, Places
  <2>2. HartShape'
    BY <1>4, <1>14 DEF CallsPage, ShapeInv, HartShape
  <2>3. Runs
    BY <1>1, <1>14, <2>1, <2>2, JumpShape DEF CallsPage, Jump, Runs
  <2> QED
    BY <1>6, <1>7, <1>14, <2>3 DEF CallsPage, Quiet, Memory
<1>15. CASE NotTaken \/ Returns
  <2>1. HartShape'
    BY <1>15 DEF NotTaken, Returns, ShapeInv, HartShape
  <2>2. Runs
    BY <1>1, <1>4, <1>15, <2>1, JumpShape DEF NotTaken, Returns, Jump, Runs
  <2> QED
    BY <1>6, <1>7, <1>15, <2>2 DEF NotTaken, Returns, Quiet, Memory
<1>16. CASE Software
  <2>1. HartShape'
    BY <1>4, <1>16 DEF Software, ShapeInv, HartShape, IsInstruction
  <2>2. Runs
    BY <1>1, <1>4, <1>16, <2>1, JumpShape DEF Software, Runs
  <2> QED
    BY <1>6, <1>7, <1>16, <2>2 DEF Software, Quiet, Memory
<1>17. CASE Illegal
  <2>1. Runs
    BY <1>1, <1>17, TrapShape DEF Illegal, Runs
  <2> QED
    BY <1>6, <1>7, <1>17, <2>1 DEF Illegal, Quiet, Memory
<1> QED
  BY <1>8, <1>9, <1>10, <1>11, <1>12, <1>13, <1>14, <1>15, <1>16, <1>17 DEF Execute

LEMMA QuietShape ==
  ASSUME ShapeInv, UNCHANGED vars
  PROVE  ShapeInv'
<1> USE DEF vars
<1>1. QueueShape' /\ HartShape' /\ WalkIsOfHead' /\ NothingYet'
  BY DEF ShapeInv, QueueShape, HartShape, WalkIsOfHead, Walk, At, NothingYet, Paged
<1> QED
  BY <1>1, MmuShapeKept DEF ShapeInv

LEMMA ShapeIsKept ==
  ASSUME ShapeInv, [Next]_vars
  PROVE  ShapeInv'
<1>1. ASSUME PtwAck PROVE ShapeInv'
  BY <1>1, PtwAckShape DEF ShapeInv
<1> QED
  BY <1>1, MainShape, PtwStartShape, FetchShape, ExecuteShape, QuietShape DEF Next, Spin

LEMMA ShapeIsType ==
  ASSUME ShapeInv
  PROVE  PagedTypeOK
<1>1. ASSUME NEW m \in Sides
      PROVE  /\ [st |-> Walk(m).st, va |-> Walk(m).va, kind |-> Walk(m).kind] \in Walks
             /\ Len(mmu[m].tlb) = TlbSize
             /\ mmu[m].ptr \in 1..TlbSize
  <2>1. MmuShape(m)
    BY DEF ShapeInv
  <2>2. [st |-> Walk(m).st, va |-> Walk(m).va, kind |-> Walk(m).kind] \in Walks
    BY <2>1 DEF MmuShape, Walks, Places
  <2>3. Len(mmu[m].tlb) = TlbSize
    <3> DEFINE s == mmu[m].tlb
               R == {s[k] : k \in 1..TlbSize}
    <3>1. s \in [1..TlbSize -> R] /\ TlbSize \in Nat
      BY <2>1, TlbAssumption DEF MmuShape
    <3> HIDE DEF s, R
    <3>2. s \in Seq(R)
      BY <3>1, SeqDef
    <3>3. DOMAIN s = 1..Len(s) /\ Len(s) \in Nat /\ DOMAIN s = 1..TlbSize
      BY <3>1, <3>2, LenProperties
    <3>4. Len(s) = TlbSize
      BY <3>1, <3>3
    <3> QED
      BY <3>4 DEF s
  <2> QED
    BY <2>1, <2>2, <2>3 DEF MmuShape
<1> QED
  BY <1>1 DEF ShapeInv, HartShape, Places, PagedTypeOK
-----------------------------------------------------------------------------
(* What memory has held since the last fence. *)

(* A store keeps what it overwrites.                                        *)
LEMMA HeldGrows ==
  ASSUME UNCHANGED <<mem, old>> \/ (\E b, v : Store(b, v)), NEW a
  PROVE  Held(a) \subseteq Held(a)'
<1>1. CASE UNCHANGED <<mem, old>>
  BY <1>1 DEF Held, Word
<1>2. ASSUME NEW b, NEW v, Store(b, v) PROVE Held(a) \subseteq Held(a)'
  <2>1. /\ DOMAIN old' = DOMAIN old \cup {b} /\ old'[b] = Held(b)
        /\ \A c \in DOMAIN old \ {b} : old'[c] = old[c]
    BY <1>2 DEF Store, With
  <2>2. CASE a = b
    BY <2>1, <2>2 DEF Held
  <2>3. CASE a # b
    <3>1. Word(a)' = Word(a)
      BY <1>2, <2>3 DEF Store, With, Word
    <3> QED
      BY <2>1, <2>3, <3>1 DEF Held
  <2> QED
    BY <2>2, <2>3
<1> QED
  BY <1>1, <1>2

(* What explained an entry or a walk still does.                            *)
LEMMA FreshStays ==
  ASSUME UNCHANGED <<mem, old>> \/ (\E b, v : Store(b, v)), UNCHANGED prog, NEW x
  PROVE  /\ FreshWalk(x) => FreshWalk(x)'
         /\ FreshEntry(x) => FreshEntry(x)'
<1>1. \A a : Held(a) \subseteq Held(a)'
  BY HeldGrows
<1>2. FreshWalk(x) => FreshWalk(x)'
  BY <1>1 DEF FreshWalk
<1>3. EntryExplained(x) => EntryExplained(x)'
  BY <1>1 DEF EntryExplained
<1> QED
  BY <1>2, <1>3 DEF FreshEntry

(* The entry that a walk installs is one its tables held.                   *)
LEMMA NewEntryIsFresh ==
  ASSUME NEW m, Concluded(m), FreshWalk(Walk(m))
  PROVE  FreshEntry(NewEntry(m))
<1> DEFINE w == Walk(m)
           e == NewEntry(m)
<1>1. /\ e.p = w.va.p /\ e.super = Concludes(w.w1) /\ e.crossed = w.crossed
      /\ e.pte = AsPte(IF Concludes(w.w1) THEN w.w1 ELSE w.w2)
  BY DEF NewEntry, Conclusion, Walked
<1>2. CASE ~w.crossed
  <2>1. w.w1 \in Held(L1Addr(prog.root, w.va.p))
    BY <1>2 DEF FreshWalk, Concluded
  <2>2. ~Concludes(w.w1) => w.w2 \in Held(L2Addr(w.w1, w.va.p))
    BY <1>2 DEF FreshWalk, Concluded
  <2> HIDE DEF w, e
  <2>3. EntryExplained(e)
    BY <1>1, <2>1, <2>2 DEF EntryExplained
  <2> QED
    BY <2>3 DEF FreshEntry, e
<1>3. CASE w.crossed
  BY <1>1, <1>3 DEF FreshEntry
<1> QED
  BY <1>2, <1>3

LEMMA InitFresh ==
  ASSUME Init
  PROVE  FreshInv
BY DEF Init, FreshInv, FreshWalk, FreshEntry, Walk, ColdMmu, Resting

(* An MMU that reads nothing in a step keeps what is known of it: its walk  *)
(* is as it was, over or new, and its entries are old ones or the walk's.   *)
LEMMA FreshKept ==
  ASSUME FreshInv, UNCHANGED prog, UNCHANGED <<mem, old>> \/ (\E b, v : Store(b, v)),
         NEW m \in Sides,
         Walk(m)' = Walk(m) \/ Walk(m)'.st \in {"idle", "L1"},
         \A k \in 1..TlbSize : \/ mmu'[m].tlb[k] = mmu[m].tlb[k]
                               \/ Concluded(m) /\ mmu'[m].tlb[k] = NewEntry(m)
  PROVE  /\ FreshWalk(Walk(m))'
         /\ \A k \in 1..TlbSize : FreshEntry(mmu[m].tlb[k])'
<1>1. FreshWalk(Walk(m)) /\ \A k \in 1..TlbSize : FreshEntry(mmu[m].tlb[k])
  BY DEF FreshInv
<1>2. FreshWalk(Walk(m))'
  <2>1. CASE Walk(m)' = Walk(m)
    <3>1. PICK w : w = Walk(m)
      OBVIOUS
    <3>2. FreshWalk(w)'
      BY <1>1, <3>1, FreshStays
    <3>3. Walk(m)' = w
      BY <2>1, <3>1
    <3> QED
      BY <3>2, <3>3 DEF FreshWalk
  <2>2. CASE Walk(m)'.st \in {"idle", "L1"}
    BY <2>2 DEF FreshWalk
  <2> QED
    BY <2>1, <2>2
<1>3. ASSUME NEW k \in 1..TlbSize PROVE FreshEntry(mmu[m].tlb[k])'
  <2>1. PICK e : e = mmu'[m].tlb[k]
    OBVIOUS
  <2>2. FreshEntry(e)
    BY <1>1, <2>1, NewEntryIsFresh
  <2>3. FreshEntry(e)'
    BY <2>2, FreshStays
  <2> QED
    BY <2>1, <2>3 DEF FreshEntry
<1> QED
  BY <1>2, <1>3

(* A word that is read is one that memory holds at that moment.             *)
LEMMA GrantIsFresh ==
  ASSUME ShapeInv, FreshInv, NEW m \in Sides, Asks(m),
         NEW w, w = Granted(m, Word(bus.adr))
  PROVE  FreshWalk(w)
<1>1. FreshWalk(Walk(m)) /\ MmuShape(m)
  BY DEF ShapeInv, FreshInv
<1>2. Word(bus.adr) \in Held(bus.adr)
  BY DEF Held
<1>3. CASE Walk(m).st = "L1"
  <2>1. /\ w.st = "L2" /\ w.w1 = Word(bus.adr) /\ w.va = Walk(m).va
        /\ ~w.crossed => bus.adr = Wanted(m)
    BY <1>1, <1>3 DEF Granted, MmuShape
  <2>2. Wanted(m) = L1Addr(prog.root, Walk(m).va.p)
    BY <1>3 DEF Wanted
  <2> QED
    BY <1>2, <2>1, <2>2 DEF FreshWalk
<1>4. CASE Walk(m).st = "L2"
  <2>1. /\ w.st = "done" /\ w.w2 = Word(bus.adr) /\ w.w1 = Walk(m).w1 /\ w.va = Walk(m).va
        /\ ~w.crossed => bus.adr = Wanted(m) /\ ~Walk(m).crossed
    BY <1>1, <1>4 DEF Granted, MmuShape
  <2>2. Wanted(m) = L2Addr(Walk(m).w1, Walk(m).va.p)
    BY <1>4 DEF Wanted
  <2> QED
    BY <1>1, <1>2, <1>4, <2>1, <2>2 DEF FreshWalk
<1> QED
  BY <1>3, <1>4 DEF Asks

LEMMA PtwAckFresh ==
  ASSUME ShapeInv, FreshInv, PtwAck
  PROVE  FreshInv'
<1>1. UNCHANGED <<prog, mem, old>>
  BY DEF PtwAck
<1>2. PICK m \in Sides : m = bus.who
  BY DEF ShapeInv
<1>3. CASE mmu' = mmu
  <2>1. \A n \in Sides : Walk(n)' = Walk(n) /\ \A k \in 1..TlbSize : mmu'[n].tlb[k] = mmu[n].tlb[k]
    BY <1>3 DEF Walk
  <2> QED
    BY <1>1, <2>1, FreshKept DEF FreshInv
<1>4. CASE /\ Asks(m)
           /\ Walk(m)' = Granted(m, Word(bus.adr))
           /\ \A n \in Sides \ {m} : mmu'[n] = mmu[n]
           /\ \A n \in Sides : mmu'[n].tlb = mmu[n].tlb
  <2>1. PICK w : w = Granted(m, Word(bus.adr))
    OBVIOUS
  <2>2. FreshWalk(w)'
    BY <1>1, <1>4, <2>1, GrantIsFresh, FreshStays
  <2>3. FreshWalk(Walk(m))'
    BY <1>4, <2>1, <2>2 DEF FreshWalk
  <2>4. \A k \in 1..TlbSize : FreshEntry(mmu[m].tlb[k])'
    <3> SUFFICES ASSUME NEW k \in 1..TlbSize PROVE FreshEntry(mmu[m].tlb[k])'
      OBVIOUS
    <3>1. PICK e : e = mmu[m].tlb[k]
      OBVIOUS
    <3>2. FreshEntry(e)' /\ mmu'[m].tlb[k] = e
      BY <1>1, <1>4, <3>1, FreshStays DEF FreshInv
    <3> QED
      BY <3>2 DEF FreshEntry
  <2>5. ASSUME NEW n \in Sides \ {m}
        PROVE  FreshWalk(Walk(n))' /\ \A k \in 1..TlbSize : FreshEntry(mmu[n].tlb[k])'
    <3>1. Walk(n)' = Walk(n) /\ \A k \in 1..TlbSize : mmu'[n].tlb[k] = mmu[n].tlb[k]
      BY <1>4 DEF Walk
    <3> QED
      BY <1>1, <3>1, FreshKept
  <2> QED
    BY <2>3, <2>4, <2>5 DEF FreshInv
<1> QED
  BY <1>2, <1>3, <1>4, PtwAckShape

LEMMA FenceFresh ==
  ASSUME ShapeInv, Fence
  PROVE  FreshInv'
<1>1. \A m \in Sides : Walk(m)' = Resting /\ \A k \in 1..TlbSize : mmu'[m].tlb[k] = <<>>
  BY FenceShape DEF Fence
<1>2. ASSUME NEW m \in Sides
      PROVE  FreshWalk(Walk(m))' /\ \A k \in 1..TlbSize : FreshEntry(mmu[m].tlb[k])'
  BY <1>1 DEF FreshWalk, FreshEntry, Resting
<1> QED
  BY <1>2 DEF FreshInv

LEMMA MainFresh ==
  ASSUME ShapeInv, Main
  PROVE  FreshInv'
<1>1. \A m \in Sides : mmu'[m] = ColdMmu
  BY DEF Main, ShapeInv, NothingYet
<1>2. \A m \in Sides : Walk(m)' = Resting /\ \A k \in 1..TlbSize : mmu'[m].tlb[k] = <<>>
  <2>1. ColdMmu.walk = Resting /\ \A k \in 1..TlbSize : ColdMmu.tlb[k] = <<>>
    BY DEF ColdMmu
  <2> QED
    BY <1>1, <2>1 DEF Walk
<1>3. ASSUME NEW m \in Sides
      PROVE  FreshWalk(Walk(m))' /\ \A k \in 1..TlbSize : FreshEntry(mmu[m].tlb[k])'
  BY <1>2 DEF FreshWalk, FreshEntry, Resting
<1> QED
  BY <1>3 DEF FreshInv

(* The other steps: of each, what it does to memory and to each MMU.        *)
LEMMA FreshIsKept ==
  ASSUME ShapeInv, FreshInv, [Next]_vars
  PROVE  FreshInv'
<1> DEFINE Grows == UNCHANGED <<mem, old>> \/ (\E b, v : Store(b, v))
           Kept(m) ==
             /\ Walk(m)' = Walk(m) \/ Walk(m)'.st \in {"idle", "L1"}
             /\ \A k \in 1..TlbSize : \/ mmu'[m].tlb[k] = mmu[m].tlb[k]
                                      \/ Concluded(m) /\ mmu'[m].tlb[k] = NewEntry(m)
<1>1. ASSUME Grows, UNCHANGED prog, \A m \in Sides : Kept(m)
      PROVE  FreshInv'
  BY <1>1, FreshKept DEF FreshInv
<1>2. ASSUME UNCHANGED mmu PROVE \A m \in Sides : Kept(m)
  BY <1>2 DEF Walk
<1>3. ASSUME NEW m \in Sides, NEW va \in Places, NEW kind \in {"fetch", "load", "store"},
             Miss(m, va, kind)
      PROVE  \A n \in Sides : Kept(n)
  <2>1. /\ Walk(m)'.st = "L1"
        /\ \A n \in Sides \ {m} : mmu'[n] = mmu[n]
        /\ \A n \in Sides : mmu'[n].tlb = mmu[n].tlb
    BY <1>3, MissShape
  <2> QED
    BY <2>1 DEF Walk
<1>4. ASSUME NEW m \in Sides, Concluded(m), mmu' = [mmu EXCEPT ![m] = Install(m)]
      PROVE  \A n \in Sides : Kept(n)
  <2>1. /\ Walk(m)' = Resting
        /\ \A n \in Sides \ {m} : mmu'[n] = mmu[n]
        /\ \A k \in 1..TlbSize : \/ mmu'[m].tlb[k] = mmu[m].tlb[k]
                                 \/ mmu'[m].tlb[k] = NewEntry(m)
    BY <1>4, InstallShape
  <2>2. Walk(m)'.st = "idle"
    BY <2>1 DEF Resting
  <2> QED
    BY <1>4, <2>1, <2>2 DEF Walk
<1> HIDE DEF Grows, Kept
<1>5. "I" \in Sides /\ "D" \in Sides
  BY DEF Sides
<1>6. CASE FetchMiss
  BY <1>1, <1>3, <1>5, <1>6 DEF FetchMiss, ShapeInv, Grows
<1>7. CASE FetchHit \/ PtwStart \/ UNCHANGED vars \/ Spin
  BY <1>1, <1>2, <1>7 DEF FetchHit, PtwStart, vars, Spin, Grows
<1>8. CASE FetchWalked
  BY <1>1, <1>4, <1>5, <1>8 DEF FetchWalked, Grows
<1>9. CASE Execute
  <2>1. CASE DataMisaligned \/ FetchFaulted \/ CallsPage \/ NotTaken \/ Returns \/ Software
             \/ Illegal
    BY <1>1, <1>2, <2>1
       DEF DataMisaligned, FetchFaulted, CallsPage, NotTaken, Returns, Software, Illegal, Quiet, Grows
  <2>2. CASE DataMiss
    <3>1. q # <<>> /\ At.i.op \in Memory
      BY <2>2 DEF DataMiss, IsAccess, Executes
    <3>2. [p |-> At.i.p, i |-> 0] \in Places /\ Kind(At.i) \in {"fetch", "load", "store"}
      BY <3>1, HeadIsInstruction DEF ShapeInv, IsInstruction, Places, Kind
    <3> QED
      BY <1>1, <1>3, <1>5, <2>2, <3>2 DEF DataMiss, Grows
  <2>3. CASE DataHit
    <3>1. q # <<>>
      BY <2>3 DEF DataHit, IsAccess, Executes
    <3>2. Grows
      BY <2>3, <3>1, AnsweredShape DEF DataHit, Grows
    <3> QED
      BY <1>1, <1>2, <2>3, <3>2 DEF DataHit
  <2>4. CASE DataWalked
    <3>1. q # <<>>
      BY <2>4 DEF DataWalked, Concluded, ShapeInv, WalkIsOfHead
    <3>2. Grows
      BY <2>4, <3>1, AnsweredShape DEF DataWalked, Grows
    <3> QED
      BY <1>1, <1>4, <1>5, <2>4, <3>2 DEF DataWalked
  <2> QED
    BY <1>9, <2>1, <2>2, <2>3, <2>4, FenceFresh DEF Execute
<1> QED
  BY <1>6, <1>7, <1>8, <1>9, MainFresh, PtwAckFresh DEF Next
-----------------------------------------------------------------------------
LEMMA FreshIsAnswer ==
  ASSUME ShapeInv, FreshInv
  PROVE  AnswersAreFresh
<1> SUFFICES ASSUME NEW m \in Sides
             PROVE  /\ Concluded(m) /\ ~Walk(m).crossed =>
                          Explained(Walk(m).va.p, Walk(m).w1, Walk(m).w2)
                    /\ \A e \in Entries(m) : e.crossed \/ EntryExplained(e)
  BY DEF AnswersAreFresh
<1>1. Concluded(m) /\ ~Walk(m).crossed => Explained(Walk(m).va.p, Walk(m).w1, Walk(m).w2)
  BY DEF FreshInv, FreshWalk, Concluded, Explained
<1>2. \A e \in Entries(m) : e.crossed \/ EntryExplained(e)
  BY DEF FreshInv, FreshEntry, Entries
<1> QED
  BY <1>1, <1>2

THEOREM PagedInvariance == Spec => [](ShapeInv /\ FreshInv)
<1>1. Init => ShapeInv /\ FreshInv
  BY InitShape, InitFresh
<1>2. ShapeInv /\ FreshInv /\ [Next]_vars => (ShapeInv /\ FreshInv)'
  BY ShapeIsKept, FreshIsKept
<1> QED
  BY <1>1, <1>2, PTL DEF Spec

(* Between a fence and the next, no TLB entry and no concluded walk holds   *)
(* anything but words the tables held since that fence, whatever was in     *)
(* flight when it ran; but for walks granted another walk's read, which is  *)
(* the finding about wb_ptw.v (mmu.v, the flush; cpu_core.v, SFENCE.VMA).   *)
THEOREM TranslationsAreFresh == Spec => []TranslationsHold
<1>1. ShapeInv /\ FreshInv => TranslationsHold
  BY ShapeIsType, FreshIsAnswer DEF TranslationsHold
<1> QED
  BY <1>1, PagedInvariance, PTL
=============================================================================
