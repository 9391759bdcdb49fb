-------------------------------- MODULE Sv32 --------------------------------
(* Sv32 address translation as rtl/mmu.v does it, and as the simulation      *)
(* harness does it to check the hardware (verilator_soc.cpp, struct Sv32).   *)
(*                                                                           *)
(* An address is a page number p, which is V1(p) * N0 + V0(p): N0 entries    *)
(* per table stand for the 1024 of Sv32.  A page-table entry is a page       *)
(* number and the set of its flag bits; a word of memory that no program     *)
(* wrote as an entry is any other record.                                    *)
EXTENDS Integers, FiniteSets

CONSTANT N0
ASSUME N0Assumption == N0 \in Nat \ {0}

V1(p) == p \div N0
V0(p) == p % N0

Pte(ppn, flags) == [ppn |-> ppn, f |-> flags]
Zero == Pte(0, {})
Junk == [junk |-> TRUE]
IsPte(w) == "f" \in DOMAIN w

\* The entry a word is when a walker takes it for one.
AsPte(w) == IF IsPte(w) THEN w ELSE Zero

L1Addr(root, p) == <<root, V1(p)>>
L2Addr(pte1, p) == <<AsPte(pte1).ppn, V0(p)>>

Leaf(f) == "V" \in f /\ ("R" \in f \/ ("X" \in f /\ "W" \notin f))
Reserved(f) == "V" \in f /\ "R" \notin f /\ "W" \in f

\* l1_conclusive: the first entry alone decides the walk.
Concludes(pte1) == LET f == AsPte(pte1).f IN "V" \notin f \/ Reserved(f) \/ Leaf(f)

(* perm_ok for a supervisor access with SUM and MXR clear, which is all the  *)
(* programs modelled here make: no user page, no hardware setting of A and D.*)
PermOk(f, kind) ==
  /\ "A" \in f
  /\ "U" \notin f
  /\ CASE kind = "fetch" -> "X" \in f
       [] kind = "store" -> "W" \in f /\ "D" \in f
       [] kind = "load"  -> "R" \in f

\* The page an entry maps p to: a megapage keeps the low part of p.
Maps(pte, super, p) == IF super THEN V1(pte.ppn) * N0 + V0(p) ELSE pte.ppn

\* What a walk that has read both words concludes (walk_fault, walk_pa).
Walked(w1, w2, p, kind) ==
  LET super == Concludes(w1)
      pte   == AsPte(IF super THEN w1 ELSE w2)
  IN [fault |-> \/ ~Leaf(pte.f)
                \/ super /\ V0(pte.ppn) # 0
                \/ ~PermOk(pte.f, kind),
      super |-> super,
      pte   |-> pte,
      pa    |-> Maps(pte, super, p)]

(* The harness's own walk, for +checkmmu and +checkdecode: no permissions,   *)
(* and no answer (-1) where a table is not in the memory it can see.         *)
HarnessWalk(w1, w2, p) ==
  CASE ~IsPte(w1) \/ "V" \notin AsPte(w1).f -> -1
    [] "R" \in AsPte(w1).f \/ "X" \in AsPte(w1).f -> V1(w1.ppn) * N0 + V0(p)
    [] OTHER -> IF IsPte(w2) /\ "V" \in AsPte(w2).f THEN w2.ppn ELSE -1
=============================================================================
