------------------------------ MODULE NatSets ------------------------------
(***************************************************************************)
(* Sets of natural numbers have a least element, and those with a bound a  *)
(* greatest: what is behind every CHOOSE of a first master or of a newest  *)
(* version.  The least element is also what takes the place of induction:  *)
(* of a property that fails for some number, there is a least such number. *)
(* So is shown here that a function defined by recursion exists, and what  *)
(* the powers of two are.                                                  *)
(***************************************************************************)
EXTENDS Naturals, FiniteSetTheorems, WellFoundedInduction, TLAPS

(* A nonempty set of naturals has a least element: of the sets of what is   *)
(* below one of its elements, which are finite, take one that has no other  *)
(* inside it.  (Code: the first master that asks, wb_interconnect.v.)       *)
LEMMA LeastOfNats ==
  ASSUME NEW S \in SUBSET Nat, S # {}
  PROVE  \E m \in S : \A n \in S : m <= n
<1> DEFINE Below(v) == {k \in S : k < v}
           T == {Below(v) : v \in S}
<1>1. T \subseteq FiniteSubsetsOf(Nat)
  <2>1. ASSUME NEW v \in S PROVE Below(v) \in FiniteSubsetsOf(Nat)
    <3>1. Below(v) \in SUBSET Nat
      OBVIOUS
    <3>2. v \in Nat /\ \A k \in Below(v) : k <= v
      OBVIOUS
    <3> HIDE DEF Below
    <3>3. IsFiniteSet(Below(v))
      BY <3>1, <3>2, FS_BoundedSetOfNaturals
    <3> QED
      BY <3>1, <3>3 DEF FiniteSubsetsOf
  <2> QED
    BY <2>1
<1>2. IsWellFoundedOn(StrictSubsetOrdering(Nat), FiniteSubsetsOf(Nat))
  BY FS_StrictSubsetOrderingWellFounded
<1>3. PICK X \in T : \A Y \in T : ~ (<<Y, X>> \in StrictSubsetOrdering(Nat))
  <2> HIDE DEF T
  <2>1. T # {}
    BY DEF T
  <2> QED
    BY <1>1, <1>2, <2>1, WFMin
<1>4. PICK m \in S : X = Below(m)
  BY <1>3
<1>5. ASSUME NEW n \in S PROVE m <= n
  <2>1. SUFFICES ASSUME n < m PROVE FALSE
    BY <1>4
  <2>2. Below(n) \subseteq Below(m) /\ Below(n) # Below(m)
    <3>1. n \in Below(m) /\ n \notin Below(n)
      BY <2>1
    <3>2. \A k \in Below(n) : k < m
      BY <2>1
    <3> QED
      BY <3>1, <3>2
  <2>3. <<Below(n), Below(m)>> \in StrictSubsetOrdering(Nat)
    BY <2>2 DEF StrictSubsetOrdering
  <2> QED
    BY <1>3, <1>4, <2>3
<1> QED
  BY <1>5

(* A nonempty set of naturals with a bound has a greatest element.  (The    *)
(* newest version a hart has been told of, HartData's KnownAfter.)          *)
LEMMA GreatestOfNats ==
  ASSUME NEW S \in SUBSET Nat, S # {}, NEW b \in Nat, \A n \in S : n <= b
  PROVE  \E m \in S : \A n \in S : n <= m
<1> DEFINE Down == {b - n : n \in S}
<1>1. Down \in SUBSET Nat /\ Down # {}
  OBVIOUS
<1>2. PICK d \in Down : \A e \in Down : d <= e
  <2> HIDE DEF Down
  <2> QED
    BY <1>1, LeastOfNats
<1>3. PICK m \in S : d = b - m
  BY <1>2
<1>4. \A n \in S : b - m <= b - n
  BY <1>2, <1>3
<1> QED
  BY <1>4

(* f[0 .. k] starts with a, and each of its values follows by G from its    *)
(* place and the value before.                                              *)
Follows(f, S, a, G, k) ==
  /\ f \in [0 .. k -> S]
  /\ f[0] = a
  /\ \A n \in 1 .. k : f[n] = G[<<n, f[n - 1]>>]

(* What a recursive definition over the naturals defines exists: a function *)
(* of any length that follows.  (The encoder's loop, plic.v; the packets of *)
(* a FIFO that are for one output, noc_router.v.)                           *)
LEMMA RecursionExists ==
  ASSUME NEW S, NEW a \in S, NEW G \in [Nat \X S -> S], NEW k \in Nat
  PROVE  \E f : Follows(f, S, a, G, k)
<1> DEFINE Without == {m \in Nat : ~ \E f : Follows(f, S, a, G, m)}
<1>1. SUFFICES ASSUME Without # {}
               PROVE  FALSE
  OBVIOUS
<1>2. PICK m \in Without : \A j \in Without : m <= j
  <2>1. Without \in SUBSET Nat
    OBVIOUS
  <2> HIDE DEF Without
  <2> QED
    BY <1>1, <2>1, LeastOfNats
<1>3. CASE m = 0
  <2> DEFINE f == [n \in 0 .. 0 |-> a]
  <2>1. Follows(f, S, a, G, 0)
    BY DEF Follows
  <2> QED
    BY <1>2, <1>3, <2>1
<1>4. CASE m # 0
  <2>1. m \in Nat /\ m - 1 \in Nat /\ m - 1 \notin Without
    BY <1>2, <1>4
  <2>2. PICK f : Follows(f, S, a, G, m - 1)
    BY <2>1
  <2> DEFINE last == G[<<m, f[m - 1]>>]
             g == [n \in 0 .. m |-> IF n = m THEN last ELSE f[n]]
  <2>3. last \in S
    <3>1. f[m - 1] \in S
      BY <2>1, <2>2 DEF Follows
    <3> QED
      BY <2>1, <3>1
  <2>4. \A n \in 0 .. m : n # m => n \in 0 .. m - 1 /\ g[n] = f[n] /\ f[n] \in S
    BY <2>1, <2>2 DEF Follows
  <2>5. g \in [0 .. m -> S]
    BY <2>1, <2>3, <2>4
  <2>6. g[0] = a
    BY <1>4, <2>1, <2>2, <2>4 DEF Follows
  <2>7. ASSUME NEW n \in 1 .. m
        PROVE  g[n] = G[<<n, g[n - 1]>>]
    <3>1. n - 1 \in 0 .. m /\ n - 1 # m /\ g[n - 1] = f[n - 1]
      BY <2>1, <2>4
    <3>2. CASE n = m
      BY <2>1, <3>1, <3>2
    <3>3. CASE n # m
      <4>1. n \in 1 .. m - 1 /\ n \in 0 .. m
        BY <2>1, <3>3
      <4>2. f[n] = G[<<n, f[n - 1]>>]
        BY <2>2, <4>1 DEF Follows
      <4> QED
        BY <2>4, <3>1, <3>3, <4>1, <4>2
    <3> QED
      BY <3>2, <3>3
  <2>8. Follows(g, S, a, G, m)
    <3> HIDE DEF g
    <3> QED
      BY <2>5, <2>6, <2>7 DEF Follows
  <2> QED
    BY <1>2, <2>8
<1> QED
  BY <1>3, <1>4

(* What a register of one bit more can hold: 2 ^ n is how many sets there   *)
(* are of n bits, and each of them is with the next bit and without it.     *)
(* (The weight of the bit that the TAP shifts in, jtag_tap.v.)              *)
LEMMA PowersDouble ==
  ASSUME NEW n \in Nat
  PROVE  2 ^ n \in Nat \ {0} /\ 2 ^ (n + 1) = 2 * (2 ^ n)
<1> DEFINE A == SUBSET (1 .. n)
           B == {X \cup {n + 1} : X \in A}
<1>1. /\ IsFiniteSet(1 .. n) /\ Cardinality(1 .. n) = n
      /\ IsFiniteSet(1 .. n + 1) /\ Cardinality(1 .. n + 1) = n + 1
  <2>1. n + 1 \in Int /\ n \in Int /\ 1 \in Int
    OBVIOUS
  <2>2. IsFiniteSet(1 .. n) /\ Cardinality(1 .. n) = IF 1 > n THEN 0 ELSE n - 1 + 1
    BY <2>1, FS_Interval
  <2>3. /\ IsFiniteSet(1 .. n + 1)
        /\ Cardinality(1 .. n + 1) = IF 1 > n + 1 THEN 0 ELSE n + 1 - 1 + 1
    BY <2>1, FS_Interval
  <2> QED
    BY <2>2, <2>3
<1>2. IsFiniteSet(A) /\ Cardinality(A) = 2 ^ n
  BY <1>1, FS_SUBSET
<1>3. Cardinality(SUBSET (1 .. n + 1)) = 2 ^ (n + 1)
  BY <1>1, FS_SUBSET
<1>4. \A X \in A : n + 1 \notin X
  OBVIOUS
<1>5. SUBSET (1 .. n + 1) = A \cup B
  <2>1. ASSUME NEW Y \in SUBSET (1 .. n + 1)
        PROVE  Y \in A \cup B
    <3>1. CASE n + 1 \in Y
      <4>1. Y \ {n + 1} \in A /\ Y = (Y \ {n + 1}) \cup {n + 1}
        BY <3>1
      <4> QED
        BY <4>1
    <3>2. CASE n + 1 \notin Y
      BY <3>2
    <3> QED
      BY <3>1, <3>2
  <2>2. \A X \in A : X \subseteq 1 .. n + 1 /\ X \cup {n + 1} \subseteq 1 .. n + 1
    <3>1. 1 .. n \subseteq 1 .. n + 1 /\ n + 1 \in 1 .. n + 1
      OBVIOUS
    <3> QED
      BY <3>1
  <2>3. A \subseteq SUBSET (1 .. n + 1) /\ B \subseteq SUBSET (1 .. n + 1)
    BY <2>2
  <2> QED
    BY <2>1, <2>3
<1>6. IsFiniteSet(B) /\ Cardinality(B) = Cardinality(A)
  <2> DEFINE f == [X \in A |-> X \cup {n + 1}]
  <2>1. f \in [A -> B] /\ \A Y \in B : \E X \in A : f[X] = Y
    OBVIOUS
  <2>2. \A X, Y \in A : f[X] = f[Y] => X = Y
    BY <1>4
  <2>3. f \in Bijection(A, B)
    <3> HIDE DEF A, B, f
    <3> QED
      BY <2>1, <2>2 DEF Bijection, Injection, IsInjective, Surjection
  <2> QED
    BY <1>2, <2>3, FS_Bijection DEF ExistsBijection
<1>7. A \cap B = {}
  BY <1>4
<1>8. Cardinality(A) \in Nat \ {0}
  <2>1. Cardinality(A) \in Nat
    BY <1>2, FS_CardinalityType
  <2>2. {} \in A
    OBVIOUS
  <2> QED
    BY <1>2, <2>1, <2>2, FS_EmptySet
<1>9. Cardinality(A \cup B) = Cardinality(A) + Cardinality(B) - Cardinality(A \cap B)
  <2> HIDE DEF A, B
  <2> QED
    BY <1>2, <1>6, FS_Union
<1>10. Cardinality(A \cap B) = 0
  BY <1>7, FS_EmptySet
<1> DEFINE a == 2 ^ n
           b == 2 ^ (n + 1)
<1>11. a \in Nat \ {0} /\ b = a + a - 0
  BY <1>2, <1>3, <1>5, <1>6, <1>8, <1>9, <1>10
<1> HIDE DEF a, b
<1>12. a \in Nat \ {0} /\ b = 2 * a
  BY <1>11
<1> QED
  BY <1>12 DEF a, b
=============================================================================
