--------------------------- MODULE HartDataProofs ---------------------------
(***************************************************************************)
(* What one clock edge does to the harts of HartData, whichever fabric     *)
(* answers them: the lemmas that BusHartsProofs and XbarHartsProofs share. *)
(*                                                                         *)
(* The fabric is the parameters of the edge.  What is asked of it is       *)
(* AcksAreDue (it acks only a request that is up) and, for the caches,     *)
(* AcksAreNewest: there is a version for every word, newest, that no ack   *)
(* in the cycle differs from.                                              *)
(***************************************************************************)
EXTENDS HartData, NatSets

Accesses == [kind : AllKinds, adr : Words]

HartTypes ==
  /\ HartTypeOK
  /\ build \in Builds
  /\ acc \in [Harts -> Accesses \cup {None}]
  /\ old \in [Harts -> Nat]
  /\ lrVer \in [Harts -> Nat]
  /\ line \in [Harts -> [Entries -> [adr : Words \cup {None}, ver : Nat]]]
  /\ valid \in [Harts -> SUBSET Entries]

HitsAreLoads == \A h \in Harts : pend[h] /\ hit[h] => acc[h].kind = "load"

HartInv == HartTypes /\ HitsAreLoads

(* A valid line is where its word belongs; a poisoned access has no valid   *)
(* line to update.                                                          *)
LinesArePlaced ==
  \A h \in Harts :
    /\ ~Caching => valid[h] = {}
    /\ poison[h] => OnBus(h) /\ Idx(h) \notin valid[h]
    /\ \A x \in valid[h] : IdxOf[line[h][x].adr] = x

(* What a fabric's acks are, and what they carry.                           *)
AcksAreDue(ack) ==
  \A h \in Harts : ack[h] \in Nat \cup {None} /\ (ack[h] # None => OnBus(h))

AcksAreNewest(ack, newest) ==
  /\ newest \in [Words -> Nat]
  /\ \A h \in Harts : ack[h] # None => ack[h] = newest[acc[h].adr]

(* What the harts know and what a latched hit will tell is no newer.        *)
KnownUpTo(newest) ==
  /\ known \in [Words -> Nat]
  /\ floor \in [Harts -> Nat]
  /\ \A a \in Words : known[a] <= newest[a]
  /\ \A h \in Harts : acc[h] # None => floor[h] <= known[acc[h].adr]

HitsUpTo(newest) ==
  \A h \in Harts : pend[h] /\ hit[h] =>
    /\ Line(h).adr = acc[h].adr
    /\ Line(h).ver <= newest[acc[h].adr]
    /\ floor[h] <= Line(h).ver

(* One clock edge, with what it leaves open.                                *)
HartStep(ack, snooped, next, trap) ==
  /\ next \in Issues(ack)
  /\ trap \in SUBSET FreeHarts(ack)
  /\ HartClock(ack, snooped, next, trap)
-----------------------------------------------------------------------------
(* Sets of harts can be counted. *)
LEMMA HartsAreFinite ==
  ASSUME NEW S \in SUBSET Harts
  PROVE  IsFiniteSet(S) /\ Cardinality(S) \in Nat
<1>1. IsFiniteSet(Harts)
  BY BoundsAssumption, FS_Interval DEF Harts
<1>2. IsFiniteSet(S)
  BY <1>1, FS_Subset
<1> QED
  BY <1>2, FS_CardinalityType

(* An access is one of the program's, and has a word and a cache entry.     *)
LEMMA AccessFacts ==
  ASSUME HartInv, NEW h \in Harts, acc[h] # None
  PROVE  /\ acc[h] \in Accesses /\ acc[h] \in Access
         /\ acc[h].adr \in Words
         /\ Idx(h) \in Entries
         /\ Line(h) \in [adr : Words \cup {None}, ver : Nat]
         /\ Line(h).ver \in Nat
<1>1. acc[h] \in Accesses /\ acc[h] \in Access /\ acc[h].adr \in Words
  BY DEF HartInv, HartTypes, HartTypeOK, Accesses
<1>2. Idx(h) \in Entries
  BY <1>1 DEF Idx, Entries
<1>3. line[h] \in [Entries -> [adr : Words \cup {None}, ver : Nat]]
  BY DEF HartInv, HartTypes
<1>4. Line(h) \in [adr : Words \cup {None}, ver : Nat]
  BY <1>2, <1>3 DEF Line
<1> QED
  BY <1>1, <1>2, <1>4

(* An access that writes completes just when it is acked; a load may also   *)
(* by a hit; an access on the bus that is not acked stays as it is.         *)
LEMMA CompletionFacts ==
  ASSUME HartInv, NEW ack, AcksAreDue(ack), NEW h \in Harts
  PROVE  /\ HitDeliver(h) =>
              acc[h] # None /\ acc[h].kind = "load" /\ ~DmemWe(h) /\ ~wr[h]
         /\ DmemWe(h) => (Completes(h, ack) <=> ack[h] # None)
         /\ Completes(h, ack) =>
              acc[h] # None /\ (HitDeliver(h) \/ ack[h] # None)
         /\ OnBus(h) /\ ack[h] = None => ~Free(h, ack)
         /\ Start(h) => ~Free(h, ack)
         /\ acc[h] # None /\ IsAmo(acc[h]) =>
              /\ ~HitDeliver(h)
              /\ Rvalid(h, ack) => ack[h] # None /\ ~wr[h]
         /\ wr[h] => acc[h] # None /\ acc[h].kind \in {"sc", "amo"} /\ DmemWe(h)
<1>1. /\ acc[h] \in Accesses \cup {None}
      /\ wr[h] \in BOOLEAN /\ pend[h] \in BOOLEAN /\ hit[h] \in BOOLEAN
      /\ pend[h] \/ wr[h] => acc[h] # None
      /\ wr[h] => acc[h].kind \in {"sc", "amo"}
      /\ pend[h] /\ hit[h] => acc[h].kind = "load"
  BY DEF HartInv, HartTypes, HartTypeOK, HitsAreLoads
<1>2. ack[h] # None => OnBus(h)
  BY DEF AcksAreDue
<1> QED
  BY <1>1, <1>2
     DEF HitDeliver, OnBus, DmemWe, IsStore, IsAmo, Completes, Stall, DbusWait, Start,
         AmoDone, AmoWrites, Rvalid, ReadAck, Free

(* A request on the bus that is not acked is still there after the edge.    *)
LEMMA WaitingStays ==
  ASSUME HartInv, NEW ack, AcksAreDue(ack), NEW snooped, NEW next, NEW trap,
         HartStep(ack, snooped, next, trap),
         NEW h \in Harts, OnBus(h), ack[h] = None
  PROVE  /\ acc'[h] = acc[h]
         /\ wr'[h] = wr[h]
         /\ old'[h] = old[h]
         /\ OnBus(h)'
         /\ DmemWe(h)' = DmemWe(h)
<1>1. acc'[h] = acc[h]
  BY CompletionFacts DEF HartStep, HartClock
<1>2. pend[h] /\ ~hit[h] /\ ~HitDeliver(h) /\ ~Start(h)
  BY DEF OnBus, HitDeliver, Start
<1>3. ~Rvalid(h, ack)
  BY <1>2 DEF Rvalid, ReadAck
<1>4. wr'[h] = wr[h]
  <2>1. wr'[h] = (wr[h] \/ (IsAmo(acc[h]) /\ Rvalid(h, ack) /\ AmoWrites(h)))
    BY CompletionFacts DEF HartStep, HartClock
  <2>2. wr[h] \in BOOLEAN
    BY DEF HartInv, HartTypes, HartTypeOK
  <2> QED
    BY <1>3, <2>1, <2>2
<1>5. old'[h] = old[h]
  BY <1>3 DEF HartStep, HartClock
<1>6. pend'[h] /\ ~hit'[h]
  BY <1>2 DEF HartStep, HartClock
<1>7. OnBus(h)'
  BY <1>6 DEF OnBus
<1>8. DmemWe(h)' = DmemWe(h)
  BY <1>1, <1>4 DEF DmemWe, IsStore
<1> QED
  BY <1>1, <1>4, <1>5, <1>7, <1>8

(* A hart that enters a write phase was acked of a read phase; one that is  *)
(* in it keeps its access.                                                  *)
LEMMA PhaseEntry ==
  ASSUME HartInv, NEW ack, AcksAreDue(ack), NEW snooped, NEW next, NEW trap,
         HartStep(ack, snooped, next, trap),
         NEW h \in Harts, wr'[h]
  PROVE  /\ ~Free(h, ack)
         /\ acc'[h] = acc[h] /\ acc[h] \in Accesses /\ acc[h].kind \in {"sc", "amo"}
         /\ ~wr[h] => /\ ack[h] # None /\ ~HitDeliver(h) /\ ~DmemWe(h)
                      /\ old'[h] = ack[h]
                      /\ acc[h].kind = "sc" => ScMatch(h)
         /\ wr[h] => ack[h] = None /\ old'[h] = old[h]
<1>1. ~Free(h, ack) /\ acc'[h] = acc[h]
  BY DEF HartStep, HartClock
<1>2. acc[h] # None /\ acc[h] \in Accesses
  BY <1>1, AccessFacts DEF Free
<1>3. CASE wr[h]
  <2>1. ack[h] = None
    BY <1>1, <1>3, CompletionFacts DEF Free
  <2>2. old'[h] = old[h]
    BY <1>3 DEF HartStep, HartClock
  <2> QED
    BY <1>1, <1>2, <1>3, <2>1, <2>2, CompletionFacts
<1>4. CASE ~wr[h]
  <2>1. IsAmo(acc[h]) /\ Rvalid(h, ack) /\ AmoWrites(h)
    BY <1>1, <1>4 DEF HartStep, HartClock
  <2>2. ack[h] # None /\ ~HitDeliver(h)
    BY <1>2, <2>1, CompletionFacts
  <2>3. ~DmemWe(h)
    BY <2>1, <2>2 DEF Rvalid, ReadAck
  <2>4. acc[h].kind = "amo" \/ (acc[h].kind = "sc" /\ ScMatch(h))
    BY <2>1 DEF AmoWrites
  <2>5. old'[h] = ack[h]
    BY <1>2, <1>4, <2>1, <2>2 DEF HartStep, HartClock, Rdata
  <2> QED
    BY <1>1, <1>2, <1>4, <2>2, <2>3, <2>4, <2>5
<1> QED
  BY <1>3, <1>4

(* Only a load is answered by the cache.                                    *)
LEMMA HitsAfter ==
  ASSUME HartInv, NEW ack, AcksAreDue(ack), NEW snooped, NEW next, NEW trap,
         HartStep(ack, snooped, next, trap)
  PROVE  HitsAreLoads'
<1> SUFFICES ASSUME NEW h \in Harts, pend'[h], hit'[h] PROVE acc'[h].kind = "load"
  BY DEF HitsAreLoads
<1>1. CASE Start(h)
  <2>1. acc'[h] = acc[h]
    BY <1>1, CompletionFacts DEF HartStep, HartClock
  <2> QED
    BY <1>1, <2>1 DEF HartStep, HartClock
<1>2. CASE ~Start(h)
  <2>1. pend[h] /\ ~HitDeliver(h) /\ hit[h]
    BY <1>2 DEF HartStep, HartClock
  <2> QED
    BY <2>1 DEF HitDeliver
<1> QED
  BY <1>1, <1>2

(* What a read returns is a version.                                        *)
LEMMA RdataType ==
  ASSUME HartInv, NEW ack, AcksAreDue(ack), NEW h \in Harts, acc[h] # None,
         HitDeliver(h) \/ ack[h] # None
  PROVE  Rdata(h, ack) \in Nat
BY AccessFacts DEF Rdata, AcksAreDue

(* An edge writes at most the access's own entry, with an acked version of  *)
(* its word.                                                                *)
LEMMA EntryAfter ==
  ASSUME HartInv, NEW ack, AcksAreDue(ack), NEW snooped, NEW next, NEW trap,
         HartStep(ack, snooped, next, trap),
         NEW h \in Harts
  PROVE  /\ line'[h] \in [Entries -> [adr : Words \cup {None}, ver : Nat]]
         /\ \A x \in Entries :
              line'[h][x] = IF Updates(h, ack) /\ x = Idx(h) THEN NewLine(h, ack) ELSE line[h][x]
         /\ Updates(h, ack) =>
              /\ acc[h] # None /\ ack[h] # None /\ OnBus(h) /\ Caching
              /\ Idx(h) \in Entries
              /\ NewLine(h, ack).adr = acc[h].adr
<1>1. line[h] \in [Entries -> [adr : Words \cup {None}, ver : Nat]]
  BY DEF HartInv, HartTypes
<1>2. line'[h] = IF Updates(h, ack)
                 THEN [line[h] EXCEPT ![Idx(h)] = NewLine(h, ack)] ELSE line[h]
  BY DEF HartStep, HartClock
<1>3. ASSUME Updates(h, ack)
      PROVE  /\ acc[h] # None /\ ack[h] # None /\ OnBus(h) /\ Caching
             /\ Idx(h) \in Entries
             /\ NewLine(h, ack) \in [adr : Words \cup {None}, ver : Nat]
             /\ NewLine(h, ack).adr = acc[h].adr
  <2>1. acc[h] # None /\ ack[h] # None /\ OnBus(h) /\ Caching
    BY <1>3 DEF Updates, Fill, Update, ReadAck, WriteAck
  <2>2. ack[h] \in Nat
    BY <2>1 DEF AcksAreDue
  <2> QED
    BY <2>1, <2>2, AccessFacts DEF NewLine
<1>4. CASE Updates(h, ack)
  <2> HIDE DEF NewLine
  <2>1. line'[h] = [line[h] EXCEPT ![Idx(h)] = NewLine(h, ack)]
    BY <1>2, <1>4
  <2>2. /\ line'[h] \in [Entries -> [adr : Words \cup {None}, ver : Nat]]
        /\ \A x \in Entries :
             line'[h][x] = IF x = Idx(h) THEN NewLine(h, ack) ELSE line[h][x]
    BY <1>1, <1>3, <1>4, <2>1
  <2> QED
    BY <1>3, <1>4, <2>2
<1>5. CASE ~Updates(h, ack)
  <2>1. line'[h] = line[h]
    BY <1>2, <1>5
  <2> QED
    BY <1>1, <1>5, <2>1
<1> QED
  BY <1>4, <1>5

(* The harts' registers keep their types.                                   *)
LEMMA HartTypesAfter ==
  ASSUME HartInv, NEW ack, AcksAreDue(ack), NEW snooped, NEW next, NEW trap,
         HartStep(ack, snooped, next, trap)
  PROVE  HartTypes' /\ build' = build /\ Caching' = Caching /\ Access' = Access
<1>1. /\ build \in Builds
      /\ acc \in [Harts -> Access \cup {None}]
      /\ old \in [Harts -> Nat]
      /\ lrVer \in [Harts -> Nat]
      /\ valid \in [Harts -> SUBSET Entries]
      /\ \A h \in Harts : \A x \in valid[h] : line[h][x].adr # None
      /\ pend \in [Harts -> BOOLEAN] /\ hit \in [Harts -> BOOLEAN]
      /\ wr \in [Harts -> BOOLEAN] /\ poison \in [Harts -> BOOLEAN]
      /\ resv \in [Harts -> Words \cup {None}]
      /\ begun \in 0 .. MaxWrites
      /\ \A h \in Harts : pend[h] \/ wr[h] => acc[h] # None
  BY DEF HartInv, HartTypes, HartTypeOK
<1>2. build' = build /\ Access' = Access /\ Caching' = Caching
  BY DEF HartStep, HartClock, Access, Caching
<1>3. Access \subseteq Accesses
  BY <1>1, AccessAssumption DEF Access, Accesses
<1>4. acc' \in [Harts -> Access \cup {None}]
  <2>1. next \in [Harts -> Access \cup {None}]
    BY DEF HartStep, Issues
  <2> QED
    BY <1>1, <2>1 DEF HartStep, HartClock
<1>5. acc' \in [Harts -> Accesses \cup {None}]
  BY <1>3, <1>4
<1>6. ASSUME NEW h \in Harts, acc[h] # None, IsAmo(acc[h]), Rvalid(h, ack)
      PROVE  Rdata(h, ack) \in Nat
  BY <1>6, RdataType DEF Rvalid, ReadAck
<1>7. old' \in [Harts -> Nat]
  BY <1>1, <1>6 DEF HartStep, HartClock
<1>8. ASSUME NEW h \in Harts, Completes(h, ack) PROVE Rdata(h, ack) \in Nat
  BY <1>8, CompletionFacts, RdataType
<1>9. lrVer' \in [Harts -> Nat]
  BY <1>1, <1>8 DEF HartStep, HartClock
<1>10. line' \in [Harts -> [Entries -> [adr : Words \cup {None}, ver : Nat]]]
  BY EntryAfter DEF HartStep, HartClock
<1>11. \A h \in Harts :
         valid'[h] \subseteq valid[h] \cup (IF Updates(h, ack) THEN {Idx(h)} ELSE {})
  BY DEF HartStep, HartClock
<1>12. \A h \in Harts : valid'[h] \in SUBSET Entries
  BY <1>1, <1>11, EntryAfter
<1>13. valid' \in [Harts -> SUBSET Entries]
  BY <1>12 DEF HartStep, HartClock
<1>14. ASSUME NEW h \in Harts, NEW x \in valid'[h] PROVE x \in Entries /\ line'[h][x].adr # None
  <2>1. CASE Updates(h, ack) /\ x = Idx(h)
    BY <1>12, <2>1, EntryAfter, AccessFacts, NoWordAssumption
  <2>2. CASE ~(Updates(h, ack) /\ x = Idx(h))
    <3>1. x \in valid[h] /\ x \in Entries
      BY <1>11, <1>12, <2>2
    <3> QED
      BY <1>1, <2>2, <3>1, EntryAfter
  <2> QED
    BY <2>1, <2>2
<1>15. wr' \in [Harts -> BOOLEAN]
  BY <1>1 DEF HartStep, HartClock, IsAmo, Rvalid, ReadAck, HitDeliver, OnBus, AmoWrites, ScMatch
<1>16. pend' \in [Harts -> BOOLEAN] /\ hit' \in [Harts -> BOOLEAN] /\ poison' \in [Harts -> BOOLEAN]
  <2>1. Caching \in BOOLEAN
    BY <1>1, AccessAssumption DEF Caching
  <2> QED
    BY <1>1, <2>1 DEF HartStep, HartClock, HitDeliver, OnBus, Present, PoisonAfter
<1>17. \A h \in Harts : ResvAfter(h, ack, trap) \in Words \cup {None}
  BY <1>1, AccessFacts DEF ResvAfter
<1>18. resv' \in [Harts -> Words \cup {None}]
  BY <1>17 DEF HartStep, HartClock
<1>19. ASSUME NEW h \in Harts PROVE pend'[h] \/ wr'[h] => acc'[h] # None
  <2>1. wr'[h] => ~Free(h, ack)
    BY DEF HartStep, HartClock
  <2>2. pend'[h] => ~Free(h, ack)
    <3>1. Start(h) \/ (pend[h] /\ ~HitDeliver(h) /\ ack[h] = None) \/ ~pend'[h]
      BY DEF HartStep, HartClock
    <3> QED
      BY <1>1, <3>1, CompletionFacts DEF HitDeliver, OnBus
  <2> QED
    BY <2>1, <2>2 DEF HartStep, HartClock, Free
<1>20. \A h \in Harts : wr'[h] => acc'[h].kind \in {"sc", "amo"}
  BY PhaseEntry
<1>21. begun' \in 0 .. MaxWrites
  <2>1. Cardinality({h \in Harts : Begins(h, next)}) \in Nat
    BY HartsAreFinite
  <2>2. begun' = begun + Cardinality({h \in Harts : Begins(h, next)})
    BY DEF HartStep, HartClock
  <2>3. begun + Cardinality({h \in Harts : Begins(h, next)}) <= MaxWrites
    BY DEF HartStep, Issues
  <2> QED
    BY <1>1, <2>1, <2>2, <2>3, BoundsAssumption
<1>22. HartTypeOK'
  BY <1>2, <1>4, <1>13, <1>14, <1>15, <1>16, <1>18, <1>19, <1>20, <1>21 DEF HartTypeOK
<1> QED
  BY <1>1, <1>2, <1>5, <1>7, <1>9, <1>10, <1>13, <1>22 DEF HartTypes

(* So the harts' invariant is kept by an edge, *)
LEMMA HartInvAfter ==
  ASSUME HartInv, NEW ack, AcksAreDue(ack), NEW snooped, NEW next, NEW trap,
         HartStep(ack, snooped, next, trap)
  PROVE  HartInv'
BY HitsAfter, HartTypesAfter DEF HartInv

(* it holds at reset, *)
LEMMA InitHartInv ==
  ASSUME HartInit
  PROVE  HartInv
<1> USE DEF HartInit
<1>1. HartTypeOK
  BY BoundsAssumption DEF HartTypeOK
<1>2. line \in [Harts -> [Entries -> [adr : Words \cup {None}, ver : Nat]]]
  OBVIOUS
<1>3. valid \in [Harts -> SUBSET Entries]
  OBVIOUS
<1> QED
  BY <1>1, <1>2, <1>3 DEF HartInv, HartTypes, HitsAreLoads

(* and nothing changes it when nothing steps.                               *)
LEMMA QuietHartInv ==
  ASSUME HartInv, UNCHANGED hartVars
  PROVE  HartInv'
<1> USE DEF hartVars
<1>1. Access' = Access
  BY DEF Access
<1>2. HartTypeOK'
  BY <1>1 DEF HartInv, HartTypes, HartTypeOK
<1> QED
  BY <1>2 DEF HartInv, HartTypes, HitsAreLoads
-----------------------------------------------------------------------------
(* The caches. *)

(* What a completing access tells its hart: the newest version, or that of  *)
(* a line no newer, and never older than what any hart was told when the    *)
(* access began.                                                            *)
LEMMA OutcomeFacts ==
  ASSUME HartInv, NEW ack, AcksAreDue(ack), NEW newest, AcksAreNewest(ack, newest),
         HitsUpTo(newest), KnownUpTo(newest), NEW h \in Harts, Completes(h, ack)
  PROVE  /\ acc[h].adr \in Words
         /\ Outcome(h, ack).ver \in Nat
         /\ Outcome(h, ack).ver <= newest[acc[h].adr]
         /\ floor[h] <= Outcome(h, ack).ver
         /\ ack[h] # None => Outcome(h, ack).ver = newest[acc[h].adr]
<1>1. acc[h] # None /\ acc[h].adr \in Words
  BY AccessFacts DEF Completes
<1>2. /\ newest[acc[h].adr] \in Nat /\ known[acc[h].adr] \in Nat /\ floor[h] \in Nat
      /\ known[acc[h].adr] <= newest[acc[h].adr]
      /\ floor[h] <= known[acc[h].adr]
  BY <1>1 DEF AcksAreNewest, KnownUpTo
<1>3. Outcome(h, ack).ver = IF DmemWe(h) THEN ack[h] ELSE Rdata(h, ack)
  BY DEF Outcome
<1>4. CASE ack[h] # None
  <2>1. ~HitDeliver(h)
    BY <1>4 DEF AcksAreDue, OnBus, HitDeliver
  <2>2. Outcome(h, ack).ver = newest[acc[h].adr]
    BY <1>3, <1>4, <2>1 DEF Rdata, AcksAreNewest
  <2> QED
    BY <1>1, <1>2, <2>2
<1>5. CASE ack[h] = None
  <2>1. HitDeliver(h) /\ ~DmemWe(h)
    BY <1>5, CompletionFacts
  <2>2. Outcome(h, ack).ver = Line(h).ver
    BY <1>3, <2>1 DEF Rdata
  <2>3. Line(h).ver <= newest[acc[h].adr] /\ floor[h] <= Line(h).ver
    BY <2>1 DEF HitDeliver, HitsUpTo
  <2> QED
    BY <1>1, <1>5, <2>2, <2>3, AccessFacts
<1> QED
  BY <1>4, <1>5

(* What the harts know of a word after an edge: at least what they knew,    *)
(* and no more than was newest before it.                                   *)
LEMMA KnownAfterFacts ==
  ASSUME HartInv, NEW ack, AcksAreDue(ack), NEW newest, AcksAreNewest(ack, newest),
         HitsUpTo(newest), KnownUpTo(newest), NEW a \in Words
  PROVE  /\ KnownAfter(a, ack) \in Nat
         /\ known[a] <= KnownAfter(a, ack)
         /\ KnownAfter(a, ack) <= newest[a]
<1> DEFINE told == {Outcome(h, ack).ver : h \in {k \in Harts :
                      Completes(k, ack) /\ acc[k].adr = a}}
           S == told \cup {known[a]}
<1>1. \A v \in told : v \in Nat /\ v <= newest[a]
  BY OutcomeFacts
<1>2. known[a] \in Nat /\ known[a] <= newest[a]
  BY DEF KnownUpTo
<1> HIDE DEF told
<1>3. S \in SUBSET Nat /\ S # {} /\ known[a] \in S /\ \A v \in S : v <= newest[a]
  BY <1>1, <1>2
<1>4. KnownAfter(a, ack) = CHOOSE v \in S : \A u \in S : u <= v
  BY DEF KnownAfter, told
<1> HIDE DEF S
<1>5. \E m \in S : \A n \in S : n <= m
  <2>1. newest[a] \in Nat
    BY DEF AcksAreNewest
  <2> QED
    BY <1>3, <2>1, GreatestOfNats
<1>6. KnownAfter(a, ack) \in S /\ \A u \in S : u <= KnownAfter(a, ack)
  BY <1>4, <1>5
<1> QED
  BY <1>3, <1>6

(* So what is known stays within what was newest, and no read is stale.     *)
LEMMA KnownAfterEdge ==
  ASSUME HartInv, NEW ack, AcksAreDue(ack), NEW snooped, NEW next, NEW trap,
         HartStep(ack, snooped, next, trap),
         NEW newest, AcksAreNewest(ack, newest), HitsUpTo(newest), KnownUpTo(newest)
  PROVE  /\ known' \in [Words -> Nat]
         /\ floor' \in [Harts -> Nat]
         /\ \A a \in Words : known'[a] <= newest[a]
         /\ \A h \in Harts : acc'[h] # None => floor'[h] <= known'[acc'[h].adr]
         /\ ReadsAreFresh'
<1>1. \A a \in Words : known'[a] = KnownAfter(a, ack)
  BY DEF HartStep, HartClock
<1>2. known' \in [Words -> Nat] /\ \A a \in Words : known'[a] <= newest[a]
  BY <1>1, KnownAfterFacts DEF HartStep, HartClock
<1>3. ASSUME NEW h \in Harts
      PROVE  floor'[h] \in Nat /\ (acc'[h] # None => floor'[h] <= known'[acc'[h].adr])
  <2>1. CASE Free(h, ack) /\ next[h] # None
    <3>1. acc'[h] = next[h] /\ floor'[h] = known'[next[h].adr]
      BY <2>1 DEF HartStep, HartClock
    <3>2. next[h] \in Accesses
      <4>1. next[h] \in Access
        BY <2>1 DEF HartStep, Issues
      <4> QED
        BY <4>1, AccessAssumption DEF Access, Accesses, HartInv, HartTypes
    <3> QED
      BY <1>2, <3>1, <3>2 DEF Accesses
  <2>2. CASE Free(h, ack) /\ next[h] = None
    BY <2>2 DEF HartStep, HartClock, KnownUpTo
  <2>3. CASE ~Free(h, ack)
    <3>1. acc'[h] = acc[h] /\ floor'[h] = floor[h] /\ acc[h] # None
      BY <2>3 DEF HartStep, HartClock, Free
    <3>2. acc[h].adr \in Words
      BY <3>1, AccessFacts
    <3>3. floor[h] \in Nat /\ floor[h] <= known[acc[h].adr] /\ known[acc[h].adr] \in Nat
      BY <3>1, <3>2 DEF KnownUpTo
    <3> QED
      BY <1>1, <3>1, <3>2, <3>3, KnownAfterFacts
  <2> QED
    BY <2>1, <2>2, <2>3
<1>4. floor' \in [Harts -> Nat]
  BY <1>3 DEF HartStep, HartClock
<1>5. ASSUME NEW h \in Harts, done'[h] # None PROVE done'[h].ver >= done'[h].floor
  <2>1. Completes(h, ack) /\ done'[h] = Outcome(h, ack)
    BY <1>5 DEF HartStep, HartClock
  <2>2. Outcome(h, ack).floor = floor[h]
    BY DEF Outcome
  <2>3. floor[h] \in Nat
    BY DEF KnownUpTo
  <2> QED
    BY <2>1, <2>2, <2>3, OutcomeFacts
<1> QED
  BY <1>2, <1>3, <1>4, <1>5 DEF ReadsAreFresh

(* A hit that is answered in the next cycle is answered from the line that  *)
(* was looked up: nothing writes it in between.                             *)
LEMMA HitIsLookedUp ==
  ASSUME HartInv, NEW ack, AcksAreDue(ack), NEW snooped, NEW next, NEW trap,
         HartStep(ack, snooped, next, trap),
         NEW h \in Harts, pend'[h], hit'[h]
  PROVE  /\ Start(h) /\ Present(h) /\ acc[h].kind = "load"
         /\ acc'[h] = acc[h] /\ floor'[h] = floor[h] /\ Line(h)' = Line(h)
<1>1. Start(h)
  <2>1. ~Start(h) => pend[h] /\ ~HitDeliver(h) /\ hit[h]
    BY DEF HartStep, HartClock
  <2> QED
    BY <2>1 DEF HitDeliver
<1>2. acc'[h] = acc[h] /\ floor'[h] = floor[h]
  BY <1>1, CompletionFacts DEF HartStep, HartClock
<1>3. ack[h] = None
  BY <1>1 DEF AcksAreDue, Start, OnBus
<1>4. line'[h] = line[h]
  <2>1. ~Updates(h, ack)
    BY <1>3 DEF Updates, Fill, Update, ReadAck, WriteAck
  <2> QED
    BY <2>1 DEF HartStep, HartClock
<1>5. Line(h)' = Line(h)
  BY <1>2, <1>4 DEF Line, Idx
<1>6. Present(h) /\ acc[h].kind = "load"
  BY <1>1 DEF HartStep, HartClock
<1> QED
  BY <1>1, <1>2, <1>5, <1>6

(* A line that counts after an edge was just updated to the newest version, *)
(* or was kept: then no write on its word was snooped, and none of the      *)
(* hart's own was acked.                                                    *)
LEMMA LineAfter ==
  ASSUME HartInv, NEW ack, AcksAreDue(ack), NEW snooped, NEW next, NEW trap,
         HartStep(ack, snooped, next, trap),
         NEW newest, AcksAreNewest(ack, newest), LinesArePlaced,
         NEW h \in Harts,
         \A x \in valid[h] : \E n \in {0, 1} : line[h][x].ver + n = newest[line[h][x].adr],
         NEW x \in valid'[h]
  PROVE  /\ Caching
         /\ x \in Entries
         /\ line'[h][x].adr \in Words
         /\ IdxOf[line'[h][x].adr] = x
         /\ \/ line'[h][x].ver = newest[line'[h][x].adr] /\ ack[h] # None /\ line'[h][x].adr = acc[h].adr
            \/ /\ x \in valid[h]
               /\ line'[h][x] = line[h][x]
               /\ line[h][x].adr \notin snooped[h]
               /\ ~(WriteAck(h, ack) /\ acc[h].adr = line[h][x].adr)
<1>1. /\ x \notin Dropped(h, snooped)
      /\ x \in valid[h] \/ (Updates(h, ack) /\ x = Idx(h))
  BY DEF HartStep, HartClock
<1>2. x \in Entries /\ line'[h][x].adr \in Words
  <2>1. x \in Entries /\ line'[h][x].adr # None
    BY HartTypesAfter DEF HartTypes, HartTypeOK
  <2>2. line'[h][x] \in [adr : Words \cup {None}, ver : Nat]
    BY <2>1, EntryAfter
  <2> QED
    BY <2>1, <2>2
<1>3. CASE Updates(h, ack) /\ x = Idx(h)
  <2>1. /\ acc[h] # None /\ ack[h] # None /\ Caching
        /\ line'[h][x] = NewLine(h, ack) /\ NewLine(h, ack).adr = acc[h].adr
    BY <1>2, <1>3, EntryAfter
  <2>2. acc[h].adr \in Words /\ ack[h] = newest[acc[h].adr] /\ newest[acc[h].adr] \in Nat
    BY <2>1, AccessFacts DEF AcksAreNewest
  <2>3. ASSUME WriteAck(h, ack), acc[h].kind = "byte", Line(h).ver # ack[h] - 1
        PROVE  Line(h).ver = newest[acc[h].adr]
    <3>1. Present(h)
      BY <1>3, <2>3 DEF Updates, Fill, Update, ReadAck, WriteAck
    <3>2. Line(h).adr = acc[h].adr /\ \E n \in {0, 1} : Line(h).ver + n = newest[acc[h].adr]
      BY <3>1 DEF Present, Line
    <3>3. Line(h).ver \in Nat
      BY <2>1, AccessFacts
    <3> QED
      BY <2>2, <2>3, <3>2, <3>3
  <2>4. NewLine(h, ack).ver = newest[acc[h].adr]
    BY <2>2, <2>3 DEF NewLine
  <2>5. IdxOf[acc[h].adr] = x
    BY <1>3 DEF Idx
  <2> QED
    BY <1>2, <2>1, <2>4, <2>5
<1>4. CASE ~(Updates(h, ack) /\ x = Idx(h))
  <2> DEFINE a == line[h][x].adr
  <2>1. x \in valid[h] /\ line'[h][x] = line[h][x]
    BY <1>1, <1>2, <1>4, EntryAfter
  <2>2. Caching /\ IdxOf[a] = x
    BY <2>1 DEF LinesArePlaced
  <2>3. a \notin snooped[h]
    BY <1>1, <2>2 DEF Dropped
  <2>4. ~(WriteAck(h, ack) /\ acc[h].adr = a)
    <3>1. SUFFICES ASSUME WriteAck(h, ack), acc[h].adr = a PROVE FALSE
      OBVIOUS
    <3>2. Idx(h) = x /\ Present(h)
      BY <2>1, <2>2, <3>1 DEF Present, Idx, Line
    <3>3. ~poison[h]
      BY <2>1, <3>2 DEF LinesArePlaced
    <3>4. Updates(h, ack)
      BY <2>2, <3>1, <3>2, <3>3 DEF Updates, Update, WriteAck, DmemWe
    <3> QED
      BY <1>4, <3>2, <3>4
  <2> QED
    BY <1>2, <2>1, <2>2, <2>3, <2>4
<1> QED
  BY <1>3, <1>4

(* A poisoned access is still on the bus, and what it would update is       *)
(* dropped.                                                                 *)
LEMMA PoisonAfterEdge ==
  ASSUME HartInv, NEW ack, AcksAreDue(ack), NEW snooped, NEW next, NEW trap,
         HartStep(ack, snooped, next, trap),
         LinesArePlaced, NEW h \in Harts, poison'[h]
  PROVE  OnBus(h)' /\ Idx(h)' \notin valid'[h]
<1>1. OnBus(h) /\ ack[h] = None /\ (poison[h] \/ Idx(h) \in Dropped(h, snooped))
  <2>1. poison'[h] = PoisonAfter(h, ack, snooped)
    BY DEF HartStep, HartClock
  <2>2. poison[h] => OnBus(h)
    BY DEF LinesArePlaced
  <2> QED
    BY <2>1, <2>2 DEF PoisonAfter
<1>2. OnBus(h)' /\ acc'[h] = acc[h]
  BY <1>1, WaitingStays
<1>3. Idx(h)' = Idx(h)
  BY <1>2 DEF Idx
<1>4. valid'[h] = valid[h] \ Dropped(h, snooped)
  <2>1. ~Updates(h, ack)
    BY <1>1 DEF Updates, Fill, Update, ReadAck, WriteAck
  <2> QED
    BY <2>1 DEF HartStep, HartClock
<1>5. poison[h] => Idx(h) \notin valid[h]
  BY DEF LinesArePlaced
<1> QED
  BY <1>1, <1>2, <1>3, <1>4, <1>5

(* So lines stay where their words belong.                                  *)
LEMMA PlacedAfter ==
  ASSUME HartInv, NEW ack, AcksAreDue(ack), NEW snooped, NEW next, NEW trap,
         HartStep(ack, snooped, next, trap),
         NEW newest, AcksAreNewest(ack, newest), LinesArePlaced,
         \A h \in Harts : \A x \in valid[h] :
           \E n \in {0, 1} : line[h][x].ver + n = newest[line[h][x].adr]
  PROVE  LinesArePlaced'
<1>1. Caching' = Caching
  BY DEF HartStep, HartClock, Caching
<1>2. \A h \in Harts : \A x \in valid'[h] : Caching /\ IdxOf[line'[h][x].adr] = x
  BY LineAfter
<1>3. \A h \in Harts : valid'[h] # {} => Caching
  BY <1>2
<1> QED
  BY <1>1, <1>2, <1>3, PoisonAfterEdge DEF LinesArePlaced
-----------------------------------------------------------------------------
(* The atomics. *)

(* What an access that completed at an edge leaves, and the phase that an   *)
(* atomic which wrote had to be in.                                         *)
LEMMA DoneFacts ==
  ASSUME HartInv, NEW ack, AcksAreDue(ack), NEW snooped, NEW next, NEW trap,
         HartStep(ack, snooped, next, trap),
         NEW h \in Harts, done'[h] # None
  PROVE  /\ Completes(h, ack) /\ acc[h] # None
         /\ done'[h].kind = acc[h].kind
         /\ done'[h].base = old[h]
         /\ done'[h].lrVer = lrVer[h]
         /\ done'[h].wrote <=> DmemWe(h)
         /\ done'[h].ok <=> ScMatch(h)
         /\ DmemWe(h) => done'[h].ver = ack[h]
         /\ acc[h].kind = "amo" \/ (acc[h].kind = "sc" /\ ScMatch(h)) => wr[h]
         /\ acc[h].kind = "sc" /\ ~wr[h] => ~DmemWe(h)
<1>1. Completes(h, ack) /\ done'[h] = Outcome(h, ack)
  BY DEF HartStep, HartClock
<1>2. acc[h] # None
  BY <1>1 DEF Completes
<1>3. acc[h].kind = "amo" \/ (acc[h].kind = "sc" /\ ScMatch(h)) => wr[h]
  BY <1>1 DEF Completes, Stall, IsAmo, AmoDone, AmoWrites
<1>4. acc[h].kind = "sc" /\ ~wr[h] => ~DmemWe(h)
  BY DEF DmemWe, IsStore
<1> QED
  BY <1>1, <1>2, <1>3, <1>4 DEF Outcome

(* A reservation that outlives an edge is of the LR that completed at it,   *)
(* or is kept: then no hart's write on its word was acked.                  *)
LEMMA ReservationAfter ==
  ASSUME HartInv, NEW ack, AcksAreDue(ack), NEW snooped, NEW next, NEW trap,
         HartStep(ack, snooped, next, trap),
         NEW newest, AcksAreNewest(ack, newest),
         NEW h \in Harts, resv'[h] # None
  PROVE  \/ /\ acc[h] # None /\ acc[h].kind = "lr" /\ ack[h] # None /\ ~DmemWe(h)
            /\ resv'[h] = acc[h].adr /\ lrVer'[h] = newest[acc[h].adr]
         \/ /\ resv'[h] = resv[h] /\ lrVer'[h] = lrVer[h]
            /\ \A k \in Harts : ack[k] # None /\ DmemWe(k) => acc[k].adr # resv[h]
<1>1. resv'[h] = ResvAfter(h, ack, trap)
  BY DEF HartStep, HartClock
<1>2. lrVer'[h] = IF Completes(h, ack) /\ acc[h].kind = "lr" THEN Rdata(h, ack) ELSE lrVer[h]
  BY DEF HartStep, HartClock
<1>3. CASE Completes(h, ack) /\ acc[h].kind = "lr"
  <2>1. acc[h] # None /\ resv'[h] = acc[h].adr
    BY <1>1, <1>3 DEF ResvAfter, Completes
  <2>2. ~HitDeliver(h) /\ ack[h] # None
    BY <1>3, CompletionFacts
  <2>3. ~DmemWe(h)
    BY <1>3, CompletionFacts DEF DmemWe, IsStore
  <2> QED
    BY <1>2, <1>3, <2>1, <2>2, <2>3 DEF Rdata, AcksAreNewest
<1>4. CASE ~(Completes(h, ack) /\ acc[h].kind = "lr")
  <2>1. resv'[h] = resv[h] /\ ~(Completes(h, ack) /\ DmemWe(h)) /\ ~Invalidated(h, ack)
    BY <1>1, <1>4 DEF ResvAfter, Completes, DmemWe
  <2>2. ASSUME NEW k \in Harts, ack[k] # None, DmemWe(k), acc[k].adr = resv[h]
        PROVE  FALSE
    <3>1. StoreFire(k, ack)
      BY <2>2, CompletionFacts DEF StoreFire
    <3>2. k # h
      BY <2>1, <3>1 DEF StoreFire
    <3> QED
      BY <2>1, <2>2, <3>1, <3>2 DEF Invalidated
  <2> QED
    BY <1>2, <1>4, <2>1, <2>2
<1> QED
  BY <1>3, <1>4
=============================================================================
