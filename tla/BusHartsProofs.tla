--------------------------- MODULE BusHartsProofs ---------------------------
(***************************************************************************)
(* What BusHarts promises, for every number of harts, memories, words,     *)
(* cache entries and other masters, and for every program and build.       *)
(*                                                                         *)
(* The inductive invariant is in three layers.  BusInv is of the bus: the  *)
(* transfer that holds the lock still has its request up, and a memory     *)
(* acks only that transfer.  CacheInv and AtomicInv stand on it; what they *)
(* know of memory, they know by one number: the version of a word, less    *)
(* the write on it (there is at most one) that is performed and not yet    *)
(* acked.  A clock edge turns that number into what memory held before it  *)
(* (MemoryAfter), so all that is told, kept or reserved is as new as that. *)
(***************************************************************************)
EXTENDS BusHarts, HartDataProofs

Types ==
  /\ BusTypeOK
  /\ lockB \in BOOLEAN
  /\ ackR \in [Bus!Slaves -> BOOLEAN]
  /\ aq \in [Bus!Slaves -> Nat]
  /\ mem \in [Words -> Nat]
  /\ asked \in [Bus!Slaves -> (Bus!Masters \X Requests) \cup {None}]
  /\ ext \in [Externals -> Requests \cup {None}]
  /\ extAcks \in [Externals -> 0 .. Bus!LastAck]
  /\ \A m \in Externals : ext[m] # None => ext[m] \in Asks[m]

(* The transfer that holds the lock has its request up, of a memory, and a  *)
(* burst's master has counted the acks that the bus has.                    *)
LockStands ==
  /\ lock # None =>
       /\ Port[lock] # None
       /\ DstOf[Port[lock].adr] \in Bus!Slaves
       /\ lockB = (Port[lock].burst /\ DstOf[Port[lock].adr] \in BurstSlaves)
  /\ lock = None => ~lockB
  /\ ~lockB => burstAcks = 0
  /\ \A m \in Externals : extAcks[m] = IF lockB /\ lock = m THEN burstAcks ELSE 0

(* A memory acks only for that transfer, with its word's newest version.    *)
AcksAreOfLock ==
  \A s \in Bus!Slaves : ackR[s] =>
    /\ lock # None
    /\ asked[s] = <<lock, Port[lock]>>
    /\ DstOf[Port[lock].adr] = s
    /\ aq[s] = mem[Port[lock].adr]

NothingElsewhere == \A a \in Words : DstOf[a] \notin Bus!Slaves => mem[a] = 0

(* A hart in a write phase has the bus to itself. *)
PhaseIsExclusive ==
  \A h \in Harts : wr[h] =>
    /\ lock \in {None, Bus!Data(h)}
    /\ \A k \in Harts : wr[k] => k = h

BusInv ==
  HartInv /\ Types /\ LockStands /\ AcksAreOfLock /\ NothingElsewhere /\ PhaseIsExclusive

(* Owed[a]: the writes on a that are performed and not yet acked.           *)
Owed ==
  [a \in Words |->
    IF \E s \in Bus!Slaves : ackR[s] /\ asked[s][2].we /\ asked[s][2].adr = a THEN 1 ELSE 0]

(* A valid line is as new as the acked writes on its word.                  *)
LinesAreKept ==
  \A h \in Harts : \A x \in valid[h] :
    line[h][x].ver + Owed[line[h][x].adr] = mem[line[h][x].adr]

(* A latched hit still has its line, snooped or not, and the line is no     *)
(* older than what was known when the access began.                         *)
HitsStand ==
  \A h \in Harts : pend[h] /\ hit[h] =>
    /\ Line(h).adr = acc[h].adr
    /\ Line(h).ver + Owed[acc[h].adr] <= mem[acc[h].adr]
    /\ floor[h] <= Line(h).ver

(* Nobody has been told of a write that is not acked.                       *)
KnownIsAcked ==
  /\ known \in [Words -> Nat]
  /\ floor \in [Harts -> Nat]
  /\ \A a \in Words : known[a] + Owed[a] <= mem[a]
  /\ \A h \in Harts : acc[h] # None => floor[h] <= known[acc[h].adr]

CacheInv == LinesArePlaced /\ LinesAreKept /\ HitsStand /\ KnownIsAcked /\ ReadsAreFresh

(* In a write phase no other write has come since the read phase, and an SC *)
(* still has the reservation it began with.                                 *)
ReadPhasesStand ==
  \A h \in Harts : wr[h] =>
    /\ old[h] + Owed[acc[h].adr] = mem[acc[h].adr]
    /\ acc[h].kind = "sc" => resv[h] = acc[h].adr

(* No write on a reserved word has been acked since the LR.                 *)
ReservationsStand ==
  \A h \in Harts : resv[h] # None =>
    /\ \E x \in Access : x.kind = "lr" /\ x.adr = resv[h]
    /\ lrVer[h] + Owed[resv[h]] = mem[resv[h]]

AtomicInv == ReadPhasesStand /\ ReservationsStand /\ AtomicsHold /\ FailedScWritesNothing
-----------------------------------------------------------------------------
(* The wires of a cycle. *)

(* Masters, harts and memories are numbers, and each hart has its master.   *)
LEMMA MastersAreNats ==
  /\ Bus!Masters \subseteq Nat
  /\ Harts \subseteq Nat
  /\ \A h \in Harts : Bus!Data(h) \in Bus!Masters /\ Bus!Data(h) # None
  /\ \A h \in Harts, k \in Harts : Bus!Data(h) = Bus!Data(k) => h = k
  /\ \A h \in Harts : Bus!Data(h) - 1 = h
  /\ None \notin Bus!Masters
  /\ None \notin Bus!Slaves
  /\ Bus!Slaves \subseteq Nat
BY BoundsAssumption, NoWordAssumption, MemoriesAssumption
   DEF Bus!Masters, Bus!Npu, Bus!Data, Harts, Bus!Slaves

(* What is on a master's wires: its own request, or a data access.          *)
LEMMA PortOfData ==
  ASSUME BusInv, NEW h \in Harts
  PROVE  /\ Bus!Data(h) \notin Externals
         /\ Port[Bus!Data(h)] = DataRequest(h)
         /\ OnBus(h) => DataRequest(h) = [adr |-> acc[h].adr, we |-> DmemWe(h), burst |-> FALSE]
         /\ OnBus(h) => DataRequest(h) \in Requests
         /\ DataRequest(h) # None <=> OnBus(h)
<1>1. Bus!Data(h) \notin Externals
  BY RequestsAssumption DEF BusInv, HartInv, HartTypes, Externals, Asks
<1>2. Port[Bus!Data(h)] = DataRequest(h)
  BY <1>1, MastersAreNats DEF Port
<1>3. OnBus(h) => acc[h] \in Accesses
  BY DEF BusInv, HartInv, HartTypes, HartTypeOK, OnBus
<1>4. DmemWe(h) \in BOOLEAN
  BY DEF DmemWe, IsStore, BusInv, HartInv, HartTypes, HartTypeOK
<1>5. OnBus(h) => DataRequest(h) \in Requests
  BY <1>3, <1>4 DEF DataRequest, Requests, Accesses
<1>6. DataRequest(h) # None <=> OnBus(h)
  BY <1>5, RequestsAssumption DEF DataRequest
<1> QED
  BY <1>1, <1>2, <1>5, <1>6 DEF DataRequest

(* What is on any master's wires.                                           *)
LEMMA PortType ==
  ASSUME BusInv, NEW m \in Bus!Masters
  PROVE  Port[m] \in Requests \cup {None}
<1>1. CASE m \in Externals
  BY <1>1 DEF Port, BusInv, Types
<1>2. CASE m \notin Externals /\ \E h \in Harts : m = Bus!Data(h)
  BY <1>2, PortOfData DEF DataRequest
<1>3. CASE m \notin Externals /\ ~ \E h \in Harts : m = Bus!Data(h)
  BY <1>3 DEF Port
<1> QED
  BY <1>1, <1>2, <1>3

(* Who owns the bus: the transfer under way, else a hart in a write phase,  *)
(* else the first that asks.                                                *)
LEMMA OwnerFacts ==
  ASSUME BusInv
  PROVE  /\ Cycle.sel \in Bus!Masters \cup {None}
         /\ lock # None => Cycle.sel = lock
         /\ \A h \in Harts : wr[h] => Cycle.sel = Bus!Data(h)
         /\ Cycle.cur = IF Cycle.sel = None THEN None ELSE Port[Cycle.sel]
<1> DEFINE asking == {m \in Bus!Masters : Port[m] # None}
<1>1. Cycle.sel = Bus!Selected(Port, Phase)
  BY DEF Cycle, Owner, Bus!Wires
<1>2. Cycle.cur = IF Cycle.sel = None THEN None ELSE Port[Cycle.sel]
  BY DEF Cycle, Owner, Bus!Wires
<1>3. lock \in Bus!Masters \cup {None}
  BY DEF BusInv, Types, BusTypeOK
<1>4. Phase # {} => Bus!First(Phase) \in Phase
  <2>1. Phase \in SUBSET Nat
    BY MastersAreNats DEF Phase
  <2>2. Phase # {} => \E m \in Phase : \A n \in Phase : m <= n
    BY <2>1, LeastOfNats
  <2> QED
    BY <2>2 DEF Bus!First
<1>5. asking # {} => Bus!First(asking) \in asking
  <2>1. asking \in SUBSET Nat
    BY MastersAreNats
  <2>2. asking # {} => \E m \in asking : \A n \in asking : m <= n
    <3> HIDE DEF asking
    <3> QED
      BY <2>1, LeastOfNats
  <2> QED
    BY <2>2 DEF Bus!First
<1>6. Cycle.sel = IF lock # None THEN lock
                  ELSE IF Phase # {} THEN Bus!Data(Bus!First(Phase))
                  ELSE IF asking # {} THEN Bus!First(asking)
                  ELSE None
  BY <1>1 DEF Bus!Selected
<1>7. \A h \in Phase : Bus!Data(h) \in Bus!Masters
  BY MastersAreNats DEF Phase
<1>8. ASSUME NEW h \in Harts, wr[h] PROVE Cycle.sel = Bus!Data(h)
  <2>1. h \in Phase
    BY <1>8 DEF Phase
  <2>2. Bus!First(Phase) = h
    BY <1>4, <1>8, <2>1 DEF BusInv, PhaseIsExclusive, Phase
  <2>3. lock \in {None, Bus!Data(h)}
    BY <1>8 DEF BusInv, PhaseIsExclusive
  <2> QED
    BY <1>6, <2>1, <2>2, <2>3
<1> QED
  BY <1>2, <1>3, <1>4, <1>5, <1>6, <1>7, <1>8

(* The request on the bus, and the slave it goes to.                        *)
LEMMA CurrentFacts ==
  ASSUME BusInv
  PROVE  /\ Cycle.cur \in Requests \cup {None}
         /\ Cycle.cur # None =>
              /\ Cycle.sel \in Bus!Masters
              /\ Cycle.cur = Port[Cycle.sel]
              /\ Cycle.cur.adr \in Words
              /\ Cycle.to = DstOf[Cycle.cur.adr]
              /\ Cycle.to \in 0 .. NumS
         /\ Cycle.to # None => Cycle.cur # None
         /\ Cycle.to \in Bus!Slaves => Cycle.to # None
         /\ Cycle.ack <=> Cycle.cur # None /\ (Cycle.to \in Bus!Slaves => ackR[Cycle.to])
         /\ Cycle.burst <=> Cycle.cur # None /\ Cycle.cur.burst /\ Cycle.to \in BurstSlaves
         /\ Cycle.ack \in BOOLEAN /\ Cycle.burst \in BOOLEAN
<1>1. Cycle.cur \in Requests \cup {None}
  BY OwnerFacts, PortType
<1>2. Cycle.to = IF Cycle.cur = None THEN None ELSE DstOf[Cycle.cur.adr]
  BY DEF Cycle, Owner, Bus!Wires
<1>3. Cycle.cur # None => Cycle.cur.adr \in Words
  BY <1>1 DEF Requests
<1>4. \A a \in Words : DstOf[a] \in 0 .. NumS /\ DstOf[a] # None
  BY MemoriesAssumption, NoWordAssumption
<1>5. Cycle.ack = (Cycle.to # None /\ (Cycle.to \notin Bus!Slaves \/ ackR[Cycle.to]))
  BY DEF Cycle, Owner, Bus!Wires
<1>6. Cycle.burst = (Cycle.cur # None /\ Cycle.cur.burst /\ Cycle.to \in BurstSlaves)
  BY DEF Cycle, Owner, Bus!Wires
<1>7. Cycle.cur # None => Cycle.cur.burst \in BOOLEAN
  BY <1>1 DEF Requests
<1>8. ackR \in [Bus!Slaves -> BOOLEAN]
  BY DEF BusInv, Types
<1> QED
  BY <1>1, <1>2, <1>3, <1>4, <1>5, <1>6, <1>7, <1>8, OwnerFacts, MastersAreNats

(* An ack in this cycle is the newest version of the word it is for.        *)
LEMMA AckFacts ==
  ASSUME BusInv, Cycle.ack
  PROVE  /\ Bus!Version(Cycle) = mem[Cycle.cur.adr]
         /\ Cycle.to \in Bus!Slaves =>
              lock # None /\ asked[Cycle.to] = <<Cycle.sel, Cycle.cur>>
<1>1. Cycle.cur # None /\ Cycle.cur.adr \in Words /\ Cycle.to = DstOf[Cycle.cur.adr]
  BY CurrentFacts
<1>2. CASE Cycle.to \in Bus!Slaves
  <2>1. ackR[Cycle.to]
    BY <1>2, CurrentFacts
  <2>2. /\ lock # None
        /\ asked[Cycle.to] = <<lock, Port[lock]>>
        /\ aq[Cycle.to] = mem[Port[lock].adr]
    BY <1>2, <2>1 DEF BusInv, AcksAreOfLock
  <2>3. Cycle.sel = lock /\ Cycle.cur = Port[lock]
    BY <2>2, OwnerFacts
  <2> QED
    BY <1>2, <2>2, <2>3 DEF Bus!Version
<1>3. CASE Cycle.to \notin Bus!Slaves
  <2>1. mem[Cycle.cur.adr] = 0
    BY <1>1, <1>3 DEF BusInv, NothingElsewhere
  <2> QED
    BY <1>3, <2>1 DEF Bus!Version
<1> QED
  BY <1>2, <1>3

(* A memory acks only the request that is on the bus.                       *)
LEMMA AckerIsCurrent ==
  ASSUME BusInv, NEW s \in Bus!Slaves, ackR[s]
  PROVE  Cycle.ack /\ Cycle.to = s /\ lock # None /\ asked[s] = <<Cycle.sel, Cycle.cur>>
<1>1. /\ lock # None
      /\ asked[s] = <<lock, Port[lock]>>
      /\ DstOf[Port[lock].adr] = s
  BY DEF BusInv, AcksAreOfLock
<1>2. Cycle.sel = lock /\ Cycle.cur = Port[lock] /\ Cycle.cur # None
  BY <1>1, OwnerFacts DEF BusInv, LockStands
<1> QED
  BY <1>1, <1>2, CurrentFacts
-----------------------------------------------------------------------------
(* What a cycle does to a hart. *)

(* One clock edge, with what Next leaves open.                              *)
Step(go, new, next, trap) ==
  /\ go \in Readiness
  /\ Bus!BusClock(Cycle, go)
  /\ new \in ExtIssues(Cycle)
  /\ ExtClock(Cycle, new)
  /\ HartStep(Ack(Cycle), OthersWrites(Cycle), next, trap)

(* A hart is acked when its data master owns the bus and its request is     *)
(* answered, with the newest version of the word it asked for.              *)
LEMMA HartAckFacts ==
  ASSUME BusInv, NEW h \in Harts
  PROVE  /\ Ack(Cycle)[h] \in Nat \cup {None}
         /\ Ack(Cycle)[h] # None <=> Bus!Acked(Bus!Data(h), Cycle)
         /\ Ack(Cycle)[h] # None =>
              /\ Cycle.ack
              /\ Cycle.sel = Bus!Data(h)
              /\ OnBus(h)
              /\ acc[h] \in Accesses
              /\ Cycle.cur = [adr |-> acc[h].adr, we |-> DmemWe(h), burst |-> FALSE]
              /\ Cycle.cur.adr = acc[h].adr
              /\ Cycle.cur.we <=> DmemWe(h)
              /\ Ack(Cycle)[h] = mem[acc[h].adr]
<1>1. Ack(Cycle)[h] = IF Bus!Acked(Bus!Data(h), Cycle) THEN Bus!Version(Cycle) ELSE None
  BY DEF Ack
<1>2. CASE ~Bus!Acked(Bus!Data(h), Cycle)
  BY <1>1, <1>2
<1>3. CASE Bus!Acked(Bus!Data(h), Cycle)
  <2>1. Cycle.ack /\ Cycle.sel = Bus!Data(h)
    BY <1>3 DEF Bus!Acked
  <2>2. Cycle.cur # None /\ Cycle.cur = DataRequest(h)
    BY <2>1, CurrentFacts, PortOfData
  <2>3. OnBus(h) /\ Cycle.cur = [adr |-> acc[h].adr, we |-> DmemWe(h), burst |-> FALSE]
    BY <2>2, PortOfData
  <2>4. acc[h] \in Accesses
    BY <2>3 DEF BusInv, HartInv, HartTypes, HartTypeOK, OnBus
  <2>5. Cycle.cur.adr = acc[h].adr /\ (Cycle.cur.we <=> DmemWe(h))
    BY <2>3
  <2>6. Bus!Version(Cycle) = mem[acc[h].adr]
    BY <2>1, <2>3, AckFacts
  <2>7. mem[acc[h].adr] \in Nat
    BY <2>4 DEF BusInv, Types, Accesses
  <2> QED
    BY <1>1, <1>3, <2>1, <2>3, <2>4, <2>5, <2>6, <2>7, NoWordAssumption
<1> QED
  BY <1>2, <1>3

(* So the harts' lemmas hold of them.                                       *)
LEMMA AcksAreGood ==
  ASSUME BusInv
  PROVE  HartInv /\ AcksAreDue(Ack(Cycle)) /\ AcksAreNewest(Ack(Cycle), mem)
BY HartAckFacts DEF BusInv, Types, AcksAreDue, AcksAreNewest

(* A request on the bus that is not acked is still there after the edge.    *)
LEMMA DataRequestStays ==
  ASSUME BusInv, NEW go, NEW new, NEW next, NEW trap, Step(go, new, next, trap),
         NEW h \in Harts, OnBus(h), Ack(Cycle)[h] = None
  PROVE  OnBus(h)' /\ DataRequest(h)' = DataRequest(h)
<1>1. acc'[h] = acc[h] /\ OnBus(h)' /\ DmemWe(h)' = DmemWe(h)
  BY AcksAreGood, WaitingStays DEF Step
<1> QED
  BY <1>1 DEF DataRequest

(* The same of any master: one that is not Served waits.                    *)
LEMMA RequestStays ==
  ASSUME BusInv, NEW go, NEW new, NEW next, NEW trap, Step(go, new, next, trap),
         NEW m \in Bus!Masters, Port[m] # None,
         IF m \in Externals THEN ~Served(m, Cycle) ELSE ~Bus!Acked(m, Cycle)
  PROVE  Port'[m] = Port[m]
<1>1. Asks' = Asks /\ Externals' = Externals
  BY DEF Step, HartStep, HartClock, Asks, Externals
<1>2. CASE m \in Externals
  <2>1. Port[m] = ext[m] /\ Port'[m] = ext'[m]
    BY <1>1, <1>2 DEF Port
  <2>2. ext'[m] = ext[m]
    BY <1>2, <2>1 DEF Step, ExtClock
  <2> QED
    BY <2>1, <2>2
<1>3. CASE m \notin Externals
  <2>1. PICK h \in Harts : m = Bus!Data(h)
    BY <1>3 DEF Port
  <2>2. Port[m] = DataRequest(h) /\ OnBus(h)
    BY <2>1, PortOfData
  <2>3. Ack(Cycle)[h] = None
    BY <1>3, <2>1, HartAckFacts
  <2>4. DataRequest(h)' = DataRequest(h)
    BY <2>2, <2>3, DataRequestStays
  <2>5. Port'[m] = DataRequest(h)'
    BY <1>1, <1>3, <2>1, MastersAreNats DEF Port
  <2> QED
    BY <2>2, <2>4, <2>5
<1> QED
  BY <1>2, <1>3
-----------------------------------------------------------------------------
(* The bus keeps its invariant. *)

(* A transfer starts only when it is not acked at once, at a memory.        *)
LEMMA StartFacts ==
  ASSUME BusInv
  PROVE  /\ Bus!Starts(Cycle) <=> lock = None /\ Cycle.cur # None /\ ~Cycle.ack
         /\ Bus!Starts(Cycle) => Cycle.to \in Bus!Slaves
<1>1. ASSUME lock = None, Cycle.cur # None, Cycle.ack PROVE ~Cycle.burst
  BY <1>1, AckFacts, CurrentFacts, MemoriesAssumption
<1>2. ASSUME Cycle.cur # None, ~Cycle.ack PROVE Cycle.to \in Bus!Slaves
  BY <1>2, CurrentFacts
<1> QED
  BY <1>1, <1>2 DEF Bus!Starts

(* A request that is not acked has the bus after the edge, and is still up. *)
LEMMA OwnerStays ==
  ASSUME BusInv, NEW go, NEW new, NEW next, NEW trap, Step(go, new, next, trap),
         Cycle.cur # None, ~Cycle.ack
  PROVE  lock' = Cycle.sel /\ lock' # None /\ Port'[lock'] = Cycle.cur
<1>1. Cycle.sel \in Bus!Masters /\ Cycle.cur = Port[Cycle.sel]
  BY CurrentFacts
<1>2. lock' = Cycle.sel
  BY StartFacts, OwnerFacts DEF Step, Bus!BusClock, Bus!Ends
<1>3. ~Bus!Acked(Cycle.sel, Cycle) /\ ~Served(Cycle.sel, Cycle)
  BY DEF Bus!Acked, Served
<1>4. Port'[Cycle.sel] = Port[Cycle.sel]
  BY <1>1, <1>3, RequestStays
<1> QED
  BY <1>1, <1>2, <1>4, MastersAreNats

(* A memory performs only for such a request.                               *)
LEMMA PerformsFacts ==
  ASSUME BusInv, NEW go, NEW new, NEW next, NEW trap, Step(go, new, next, trap),
         NEW s \in Bus!Slaves, Bus!Performs(s, Cycle, go)
  PROVE  /\ Cycle.cur # None /\ ~Cycle.ack /\ Cycle.to = s
         /\ lock' = Cycle.sel /\ lock' # None /\ Port'[lock'] = Cycle.cur
BY CurrentFacts, OwnerStays, MastersAreNats DEF Bus!Performs

(* The lock after an edge: a transfer that is not acked has it, one that is *)
(* acked keeps it only in a burst that has acks to come.                    *)
LEMMA LockAfter ==
  ASSUME BusInv, NEW go, NEW new, NEW next, NEW trap, Step(go, new, next, trap)
  PROVE  LockStands'
<1>1. /\ lock # None =>
           /\ Port[lock] # None
           /\ DstOf[Port[lock].adr] \in Bus!Slaves
           /\ lockB = (Port[lock].burst /\ DstOf[Port[lock].adr] \in BurstSlaves)
      /\ lock = None => ~lockB
      /\ ~lockB => burstAcks = 0
      /\ \A m \in Externals : extAcks[m] = IF lockB /\ lock = m THEN burstAcks ELSE 0
  BY DEF BusInv, LockStands
<1>2. lockB \in BOOLEAN /\ burstAcks \in 0 .. 3
  BY DEF BusInv, Types, BusTypeOK, Bus!LastAck
<1>3. Externals' = Externals
  BY DEF Step, HartStep, HartClock, Asks, Externals
<1>4. \A m \in Externals :
        extAcks'[m] = IF Served(m, Cycle) THEN 0
                      ELSE IF Bus!Acked(m, Cycle) THEN extAcks[m] + 1 ELSE extAcks[m]
  BY DEF Step, ExtClock
<1>5. lock # None =>
        Cycle.sel = lock /\ Cycle.cur # None /\ Cycle.cur = Port[lock] /\ lockB = Cycle.burst
  BY <1>1, OwnerFacts, CurrentFacts
<1>6. CASE Cycle.cur # None /\ ~Cycle.ack
  <2>1. lock' = Cycle.sel /\ lock' # None /\ Port'[lock'] = Cycle.cur
    BY <1>6, OwnerStays
  <2>2. Cycle.to \in Bus!Slaves /\ Cycle.to = DstOf[Cycle.cur.adr]
    BY <1>6, CurrentFacts
  <2>3. CASE lock = None
    <3>1. lockB' = Cycle.burst /\ burstAcks' = 0
      BY <1>6, <2>3, StartFacts DEF Step, Bus!BusClock
    <3>2. \A m \in Externals : extAcks'[m] = 0
      BY <1>1, <1>4, <1>6, <2>3 DEF Bus!Acked, Served
    <3> QED
      BY <1>3, <1>6, <2>1, <2>2, <3>1, <3>2, CurrentFacts DEF LockStands
  <2>4. CASE lock # None
    <3>1. lockB' = lockB /\ burstAcks' = burstAcks
      BY <1>6, <2>4, StartFacts DEF Step, Bus!BusClock, Bus!Ends
    <3>2. \A m \in Externals : extAcks'[m] = extAcks[m]
      BY <1>4, <1>6 DEF Bus!Acked, Served
    <3>3. lock' = lock
      BY <1>5, <2>1, <2>4
    <3> QED
      BY <1>1, <1>3, <1>5, <1>6, <2>1, <2>2, <2>4, <3>1, <3>2, <3>3, CurrentFacts DEF LockStands
  <2> QED
    BY <2>3, <2>4
<1>7. CASE Cycle.ack /\ lockB /\ burstAcks # 3
  <2>1. lock # None /\ ~Bus!Starts(Cycle) /\ ~Bus!Ends(Cycle)
    BY <1>1, <1>7, StartFacts DEF Bus!Ends, Bus!LastAck
  <2>2. lock' = lock /\ lockB' = lockB /\ burstAcks' = burstAcks + 1
    BY <1>7, <2>1 DEF Step, Bus!BusClock
  <2>3. lock \in Externals
    <3>1. Cycle.cur.burst
      BY <1>1, <1>5, <1>7, <2>1
    <3>2. \A h \in Harts : lock # Bus!Data(h)
      BY <1>5, <2>1, <3>1, PortOfData
    <3>3. lock \in Bus!Masters
      BY <2>1, OwnerFacts, <1>5
    <3> QED
      BY <1>5, <2>1, <3>2, <3>3 DEF Port
  <2>4. extAcks[lock] = burstAcks
    BY <1>1, <1>7, <2>3
  <2>5. ~Served(lock, Cycle) /\ Bus!Acked(lock, Cycle)
    BY <1>5, <1>7, <2>1, <2>4 DEF Served, Bus!Acked, Bus!LastAck
  <2>6. Port'[lock] = Port[lock]
    BY <1>5, <2>1, <2>3, <2>5, RequestStays, OwnerFacts, MastersAreNats
  <2>7. extAcks'[lock] = burstAcks'
    BY <1>4, <2>2, <2>3, <2>4, <2>5
  <2>8. \A m \in Externals : m # lock => extAcks'[m] = 0
    BY <1>1, <1>4, <1>5, <2>1 DEF Served, Bus!Acked
  <2> QED
    BY <1>1, <1>3, <1>7, <2>1, <2>2, <2>6, <2>7, <2>8 DEF LockStands
<1>8. CASE Cycle.cur = None \/ (Cycle.ack /\ ~(lockB /\ burstAcks # 3))
  <2>1. ~Bus!Starts(Cycle)
    BY <1>8, StartFacts
  <2>2. lock # None => Bus!Ends(Cycle)
    BY <1>5, <1>8 DEF Bus!Ends, Bus!LastAck
  <2>3. lock' = None /\ ~lockB' /\ burstAcks' = 0
    BY <1>1, <1>2, <2>1, <2>2 DEF Step, Bus!BusClock, Bus!Ends
  <2>4. ASSUME NEW m \in Externals PROVE extAcks'[m] = 0
    <3>1. CASE ~Bus!Acked(m, Cycle)
      <4>1. extAcks[m] = 0
        BY <1>1, <1>5, <1>8, <3>1, CurrentFacts DEF Bus!Acked
      <4> QED
        BY <1>4, <3>1, <4>1 DEF Served
    <3>2. CASE Bus!Acked(m, Cycle)
      <4>1. Cycle.ack /\ Cycle.sel = m /\ Cycle.cur # None
        BY <3>2, CurrentFacts DEF Bus!Acked
      <4>2. lock = None => ~Cycle.burst
        BY <4>1, AckFacts, CurrentFacts, MemoriesAssumption
      <4>3. lockB \/ Cycle.burst => lockB /\ lock = m
        BY <1>1, <1>5, <4>1, <4>2
      <4>4. lockB => burstAcks = 3
        BY <1>8, <4>1
      <4>5. lockB \/ Cycle.burst => extAcks[m] = 3
        BY <1>1, <4>3, <4>4
      <4>6. Served(m, Cycle)
        BY <3>2, <4>5 DEF Served, Bus!LastAck
      <4> QED
        BY <1>4, <4>6
    <3> QED
      BY <3>1, <3>2
  <2> QED
    BY <1>3, <2>3, <2>4 DEF LockStands
<1> QED
  BY <1>6, <1>7, <1>8, CurrentFacts

(* Of a word, the writes not yet acked after an edge are those performed at *)
(* it: after any edge what memory holds is what it held and one for such a  *)
(* write.                                                                   *)
LEMMA MemoryAfter ==
  ASSUME BusInv, NEW go, NEW new, NEW next, NEW trap, Step(go, new, next, trap),
         NEW a \in Words
  PROVE  /\ Owed'[a] \in {0, 1}
         /\ mem'[a] = mem[a] + Owed'[a]
         /\ Owed'[a] = 1 => Cycle.cur # None /\ ~Cycle.ack /\ Cycle.cur.we /\ Cycle.cur.adr = a
<1>1. mem[a] \in Nat /\ mem'[a] = Bus!MemAfter(a, Cycle, go)
  BY DEF BusInv, Types, Step, Bus!BusClock
<1>2. \A s \in Bus!Slaves :
        /\ ackR'[s] = Bus!Performs(s, Cycle, go)
        /\ Bus!Performs(s, Cycle, go) => asked'[s] = <<Cycle.sel, Cycle.cur>> /\ Cycle.to = s
  BY DEF Step, Bus!BusClock, Bus!Performs
<1>3. ASSUME NEW s \in Bus!Slaves, Bus!Performs(s, Cycle, go)
      PROVE  asked'[s][2] = Cycle.cur
  BY <1>2, <1>3
<1>4. CASE \E s \in Bus!Slaves : Bus!Performs(s, Cycle, go) /\ Cycle.cur.we /\ Cycle.cur.adr = a
  <2>1. PICK s \in Bus!Slaves : Bus!Performs(s, Cycle, go) /\ Cycle.cur.we /\ Cycle.cur.adr = a
    BY <1>4
  <2>2. Owed'[a] = 1
    BY <1>2, <1>3, <2>1 DEF Owed
  <2>3. Bus!MemAfter(a, Cycle, go) = mem[a] + 1
    BY <1>2, <2>1 DEF Bus!MemAfter
  <2>4. Cycle.cur # None /\ ~Cycle.ack
    BY <2>1, PerformsFacts
  <2> QED
    BY <1>1, <2>1, <2>2, <2>3, <2>4
<1>5. CASE ~ \E s \in Bus!Slaves : Bus!Performs(s, Cycle, go) /\ Cycle.cur.we /\ Cycle.cur.adr = a
  <2>1. Owed'[a] = 0
    BY <1>2, <1>3, <1>5 DEF Owed
  <2>2. Bus!MemAfter(a, Cycle, go) = mem[a]
    BY <1>5 DEF Bus!MemAfter
  <2> QED
    BY <1>1, <2>1, <2>2
<1> QED
  BY <1>4, <1>5

(* A memory that acks after an edge does it for the transfer that has the   *)
(* bus then, with the newest version of its word.                           *)
LEMMA AcksAfter ==
  ASSUME BusInv, NEW go, NEW new, NEW next, NEW trap, Step(go, new, next, trap)
  PROVE  AcksAreOfLock'
<1> SUFFICES ASSUME NEW s \in Bus!Slaves, ackR'[s]
             PROVE  /\ lock' # None
                    /\ asked'[s] = <<lock', Port'[lock']>>
                    /\ DstOf[Port'[lock'].adr] = s
                    /\ aq'[s] = mem'[Port'[lock'].adr]
  BY DEF AcksAreOfLock
<1>1. Bus!Performs(s, Cycle, go)
  BY DEF Step, Bus!BusClock
<1>2. /\ Cycle.cur # None /\ ~Cycle.ack /\ Cycle.to = s
      /\ lock' = Cycle.sel /\ lock' # None /\ Port'[lock'] = Cycle.cur
  BY <1>1, PerformsFacts
<1>3. Cycle.cur.adr \in Words /\ DstOf[Cycle.cur.adr] = s
  BY <1>2, CurrentFacts
<1>4. asked'[s] = <<Cycle.sel, Cycle.cur>>
  BY <1>1 DEF Step, Bus!BusClock
<1>5. aq'[s] = mem'[Cycle.cur.adr]
  BY <1>1, <1>3 DEF Step, Bus!BusClock
<1> QED
  BY <1>2, <1>3, <1>4, <1>5

(* A word in no memory is never written.                                    *)
LEMMA NothingAfter ==
  ASSUME BusInv, NEW go, NEW new, NEW next, NEW trap, Step(go, new, next, trap)
  PROVE  NothingElsewhere'
<1> SUFFICES ASSUME NEW a \in Words, DstOf[a] \notin Bus!Slaves PROVE mem'[a] = 0
  BY DEF NothingElsewhere
<1>1. mem[a] = 0
  BY DEF BusInv, NothingElsewhere
<1>2. Owed'[a] # 1
  BY MemoryAfter, CurrentFacts
<1> QED
  BY <1>1, <1>2, MemoryAfter

(* A hart that is in a write phase after an edge had the bus before it.     *)
LEMMA PhaseHasBus ==
  ASSUME BusInv, NEW go, NEW new, NEW next, NEW trap, Step(go, new, next, trap),
         NEW h \in Harts, wr'[h]
  PROVE  Cycle.sel = Bus!Data(h)
<1>1. ~wr[h] => Ack(Cycle)[h] # None
  BY AcksAreGood, PhaseEntry DEF Step
<1> QED
  BY <1>1, OwnerFacts, HartAckFacts

(* Two harts in a write phase would both have had the bus.                  *)
LEMMA PhaseAfter ==
  ASSUME BusInv, NEW go, NEW new, NEW next, NEW trap, Step(go, new, next, trap)
  PROVE  PhaseIsExclusive'
<1> SUFFICES ASSUME NEW h \in Harts, wr'[h]
             PROVE  lock' \in {None, Bus!Data(h)} /\ \A k \in Harts : wr'[k] => k = h
  BY DEF PhaseIsExclusive, Bus!Data
<1>1. Cycle.sel = Bus!Data(h)
  BY PhaseHasBus
<1>2. ASSUME NEW k \in Harts, wr'[k] PROVE k = h
  BY <1>1, <1>2, PhaseHasBus, MastersAreNats
<1>3. lock' \in {None, Cycle.sel}
  BY OwnerFacts DEF Step, Bus!BusClock
<1> QED
  BY <1>1, <1>2, <1>3

(* The registers of the bus keep their types.                               *)
LEMMA BusTypesAfter ==
  ASSUME BusInv, NEW go, NEW new, NEW next, NEW trap, Step(go, new, next, trap)
  PROVE  /\ lock' \in Bus!Masters \cup {None}
         /\ lockB' \in BOOLEAN
         /\ burstAcks' \in 0 .. Bus!LastAck
         /\ ackR' \in [Bus!Slaves -> BOOLEAN]
         /\ mem' \in [Words -> Nat]
         /\ aq' \in [Bus!Slaves -> Nat]
         /\ asked' \in [Bus!Slaves -> (Bus!Masters \X Requests) \cup {None}]
         /\ \A s \in Bus!Slaves : ackR'[s] => asked'[s] # None
<1>1. /\ lock \in Bus!Masters \cup {None}
      /\ lockB \in BOOLEAN
      /\ burstAcks \in 0 .. 3
      /\ ~lockB => burstAcks = 0
      /\ ackR \in [Bus!Slaves -> BOOLEAN]
      /\ mem \in [Words -> Nat]
      /\ aq \in [Bus!Slaves -> Nat]
      /\ asked \in [Bus!Slaves -> (Bus!Masters \X Requests) \cup {None}]
  BY DEF BusInv, Types, BusTypeOK, LockStands, Bus!LastAck
<1>2. lock' \in Bus!Masters \cup {None}
  BY <1>1, CurrentFacts, StartFacts DEF Step, Bus!BusClock
<1>3. lockB' \in BOOLEAN
  BY <1>1, CurrentFacts DEF Step, Bus!BusClock
<1>4. burstAcks' \in 0 .. 3
  BY <1>1 DEF Step, Bus!BusClock, Bus!Ends, Bus!LastAck
<1>5. go \in [Bus!Slaves -> BOOLEAN]
  BY DEF Step, Readiness
<1>6. ackR' \in [Bus!Slaves -> BOOLEAN]
  BY <1>1, <1>5 DEF Step, Bus!BusClock, Bus!Performs
<1>7. \A a \in Words : mem'[a] \in Nat
  BY <1>1, MemoryAfter
<1>8. mem' \in [Words -> Nat]
  BY <1>7 DEF Step, Bus!BusClock
<1>9. ASSUME NEW s \in Bus!Slaves, Bus!Performs(s, Cycle, go)
      PROVE  /\ aq'[s] \in Nat
             /\ asked'[s] \in Bus!Masters \X Requests
             /\ asked'[s] # None
  <2>1. Cycle.cur \in Requests /\ Cycle.sel \in Bus!Masters /\ Cycle.cur.adr \in Words
    BY <1>9, PerformsFacts, CurrentFacts
  <2>2. aq'[s] = mem'[Cycle.cur.adr]
    BY <1>9, <2>1 DEF Step, Bus!BusClock
  <2>3. asked'[s] = <<Cycle.sel, Cycle.cur>>
    BY <1>9 DEF Step, Bus!BusClock
  <2>4. asked'[s] # None
    BY <2>1, <2>3, RequestsAssumption
  <2> QED
    BY <1>8, <2>1, <2>2, <2>3, <2>4
<1>10. aq' \in [Bus!Slaves -> Nat]
  BY <1>1, <1>9 DEF Step, Bus!BusClock
<1>11. asked' \in [Bus!Slaves -> (Bus!Masters \X Requests) \cup {None}]
  <2>1. \A s \in Bus!Slaves : asked'[s] \in (Bus!Masters \X Requests) \cup {None}
    BY <1>1, <1>9 DEF Step, Bus!BusClock
  <2> QED
    BY <2>1 DEF Step, Bus!BusClock
<1>12. \A s \in Bus!Slaves : ackR'[s] => asked'[s] # None
  BY <1>9 DEF Step, Bus!BusClock
<1> QED
  BY <1>2, <1>3, <1>4, <1>6, <1>8, <1>10, <1>11, <1>12 DEF Bus!LastAck

(* The other masters' registers keep their types.                           *)
LEMMA ExtTypesAfter ==
  ASSUME BusInv, NEW go, NEW new, NEW next, NEW trap, Step(go, new, next, trap)
  PROVE  /\ ext' \in [Externals -> Requests \cup {None}]
         /\ extAcks' \in [Externals -> 0 .. Bus!LastAck]
         /\ \A m \in Externals : ext'[m] # None => ext'[m] \in Asks[m]
<1>1. Asks = build.asks /\ build \in Builds
  BY DEF Asks, BusInv, HartInv, HartTypes
<1>2. \A m \in Externals : Asks[m] \subseteq Requests
  BY <1>1, RequestsAssumption DEF Externals
<1>3. ASSUME NEW m \in Externals PROVE ext'[m] # None => ext'[m] \in Asks[m]
  BY DEF Step, ExtClock, ExtIssues, BusInv, Types
<1>4. \A m \in Externals : extAcks'[m] = burstAcks' \/ extAcks'[m] = 0
  <2>1. Externals' = Externals
    BY DEF Step, HartStep, HartClock, Asks, Externals
  <2> QED
    BY <2>1, LockAfter DEF LockStands
<1>5. ext' \in [Externals -> Requests \cup {None}]
  BY <1>2, <1>3 DEF Step, ExtClock
<1>6. extAcks' \in [Externals -> 0 .. Bus!LastAck]
  BY <1>4, BusTypesAfter DEF Step, ExtClock, Bus!LastAck
<1> QED
  BY <1>3, <1>5, <1>6

(* The bus's invariant after an edge.                                       *)
LEMMA BusInvAfter ==
  ASSUME BusInv, NEW go, NEW new, NEW next, NEW trap, Step(go, new, next, trap)
  PROVE  BusInv'
<1>1. LockStands' /\ AcksAreOfLock' /\ NothingElsewhere' /\ PhaseIsExclusive'
  BY LockAfter, AcksAfter, NothingAfter, PhaseAfter
<1>2. Asks' = Asks /\ Externals' = Externals
  BY DEF Step, HartStep, HartClock, Asks, Externals
<1>3. lockB' => lock' # None
  BY <1>1 DEF LockStands
<1>4. HartInv'
  BY AcksAreGood, HartInvAfter DEF Step
<1>5. BusTypeOK'
  BY <1>3, <1>4, BusTypesAfter DEF BusTypeOK, HartInv, HartTypes
<1>6. Types'
  BY <1>2, <1>5, BusTypesAfter, ExtTypesAfter DEF Types
<1> QED
  BY <1>1, <1>4, <1>6 DEF BusInv

(* Every step of Next is a clock edge.                                      *)
LEMMA NextIsStep ==
  ASSUME Next
  PROVE  \E go, new, next, trap : Step(go, new, next, trap)
<1>1. PICK go \in Readiness, new \in ExtIssues(Cycle), next \in Issues(Ack(Cycle)),
           trap \in SUBSET Trappable(Ack(Cycle)) :
        /\ Bus!BusClock(Cycle, go)
        /\ ExtClock(Cycle, new)
        /\ HartClock(Ack(Cycle), OthersWrites(Cycle), next, trap)
  BY DEF Next, Cycle
<1>2. Step(go, new, next, trap)
  BY <1>1 DEF Step, HartStep, Trappable
<1> QED
  BY <1>2

(* At reset nothing is under way.                                           *)
LEMMA InitBusInv ==
  ASSUME Init
  PROVE  BusInv
<1>1. HartInv
  BY InitHartInv DEF Init
<1> USE DEF Init, Bus!BusInit
<1>2. BusTypeOK
  BY <1>1 DEF HartInv, HartTypes, BusTypeOK, Bus!LastAck
<1>3. asked \in [Bus!Slaves -> (Bus!Masters \X Requests) \cup {None}]
  OBVIOUS
<1>4. ext \in [Externals -> Requests \cup {None}]
  OBVIOUS
<1>5. extAcks \in [Externals -> 0 .. 3]
  OBVIOUS
<1>6. Types
  BY <1>2, <1>3, <1>4, <1>5 DEF Types, Bus!LastAck
<1>7. LockStands /\ AcksAreOfLock /\ NothingElsewhere /\ PhaseIsExclusive
  BY DEF HartInit, LockStands, AcksAreOfLock, NothingElsewhere, PhaseIsExclusive
<1> QED
  BY <1>1, <1>6, <1>7 DEF BusInv

(* When nothing steps nothing changes.                                      *)
LEMMA QuietBusInv ==
  ASSUME BusInv, UNCHANGED busHartsVars
  PROVE  BusInv'
<1> USE DEF busHartsVars, hartVars, Bus!busVars
<1>1. Asks' = Asks /\ Externals' = Externals /\ Access' = Access
  BY DEF Asks, Externals, Access
<1>2. \A h \in Harts : DataRequest(h)' = DataRequest(h)
  BY DEF DataRequest, OnBus, DmemWe, IsStore
<1>3. Port' = Port
  <2>1. \A m \in Bus!Masters : (\E h \in Harts : m = Bus!Data(h)) => m - 1 \in Harts
    BY MastersAreNats
  <2> QED
    BY <1>1, <1>2, <2>1 DEF Port
<1>4. HartInv'
  BY QuietHartInv DEF BusInv
<1>5. Types'
  BY <1>1, <1>4 DEF HartInv, HartTypes, BusInv, Types, BusTypeOK
<1>6. LockStands' /\ AcksAreOfLock' /\ NothingElsewhere' /\ PhaseIsExclusive'
  BY <1>1, <1>3 DEF BusInv, LockStands, AcksAreOfLock, NothingElsewhere, PhaseIsExclusive
<1> QED
  BY <1>4, <1>5, <1>6 DEF BusInv

(* So the bus's invariant is inductive, and holds.                          *)
LEMMA BusInvIsKept ==
  ASSUME BusInv, [Next]_busHartsVars
  PROVE  BusInv'
BY QuietBusInv, NextIsStep, BusInvAfter

(* The inductive invariant of the bus. *)
LEMMA BusInvariance == Spec => []BusInv
<1>1. Init => BusInv
  BY InitBusInv
<1>2. BusInv /\ [Next]_busHartsVars => BusInv'
  BY BusInvIsKept
<1> QED
  BY <1>1, <1>2, PTL DEF Spec

(* Type correctness of the harts on the bus, for any number of harts,       *)
(* memories and other masters: the lock names a master, a burst has one,    *)
(* and a memory that acks knows who asked (wb_interconnect.v, cpu_wb.v).    *)
THEOREM BusTypeCorrect == Spec => []BusTypeOK
<1>1. BusInv => BusTypeOK
  BY DEF BusInv, Types
<1> QED
  BY <1>1, BusInvariance, PTL

(* Every ack goes to the master that asked for what it carries, while its   *)
(* request is still up, and no two harts are in a write phase at once       *)
(* (wb_interconnect.v, the latched grant and d_amo_wrphase).                *)
THEOREM TransfersAreWhole == Spec => []TransfersHold
<1>1. ASSUME BusInv PROVE AcksGoHome
  <2>1. lock # None => Cycle.cur # None
    BY <1>1, OwnerFacts DEF BusInv, LockStands
  <2>2. Cycle.to \in Bus!Slaves /\ Cycle.ack => asked[Cycle.to] = <<Cycle.sel, Cycle.cur>>
    BY <1>1, AckFacts
  <2> QED
    BY <2>1, <2>2 DEF AcksGoHome
<1>2. ASSUME BusInv PROVE OneWritePhase
  <2>1. CASE Phase = {}
    BY <2>1, FS_EmptySet DEF OneWritePhase
  <2>2. CASE Phase # {}
    <3>1. PICK h \in Harts : wr[h]
      BY <2>2 DEF Phase
    <3>2. Phase = {h}
      BY <1>2, <3>1 DEF Phase, BusInv, PhaseIsExclusive
    <3> QED
      BY <3>2, FS_Singleton DEF OneWritePhase
  <2> QED
    BY <2>1, <2>2
<1>3. BusInv => TransfersHold
  BY <1>1, <1>2 DEF TransfersHold
<1> QED
  BY <1>3, BusInvariance, PTL
-----------------------------------------------------------------------------
(* The caches. *)

(* A write performed and not acked is acked in this very cycle.             *)
LEMMA OwedIsAcked ==
  ASSUME BusInv, NEW a \in Words
  PROVE  /\ Owed[a] \in {0, 1}
         /\ Owed[a] = 1 => Cycle.ack /\ Cycle.cur.we /\ Cycle.cur.adr = a
         /\ Cycle.ack /\ Cycle.cur.we /\ Cycle.cur.adr = a /\ Cycle.to \in Bus!Slaves => Owed[a] = 1
<1>1. \A s \in Bus!Slaves : ackR[s] => Cycle.ack /\ asked[s][2] = Cycle.cur
  BY AckerIsCurrent
<1>2. Cycle.ack /\ Cycle.to \in Bus!Slaves => ackR[Cycle.to]
  BY CurrentFacts
<1> QED
  BY <1>1, <1>2 DEF Owed

(* What the harts know, and what a hit will tell, is no newer than memory.  *)
LEMMA KnownIsUpToMem ==
  ASSUME BusInv, HitsStand, KnownIsAcked
  PROVE  HitsUpTo(mem) /\ KnownUpTo(mem)
<1>1. \A a \in Words : Owed[a] \in {0, 1} /\ mem[a] \in Nat /\ known[a] \in Nat
  BY OwedIsAcked DEF BusInv, Types, KnownIsAcked
<1>2. \A a \in Words : known[a] <= mem[a]
  BY <1>1 DEF KnownIsAcked
<1>3. ASSUME NEW h \in Harts, pend[h], hit[h] PROVE Line(h).ver <= mem[acc[h].adr]
  <2>1. acc[h] # None
    BY <1>3 DEF BusInv, HartInv, HartTypes, HartTypeOK
  <2>2. acc[h].adr \in Words /\ Line(h).ver \in Nat
    BY <2>1, AccessFacts DEF BusInv
  <2> QED
    BY <1>1, <1>3, <2>2 DEF HitsStand
<1> QED
  BY <1>2, <1>3 DEF HitsUpTo, KnownUpTo, HitsStand, KnownIsAcked

(* So what is known stays within what is acked, and no read is stale.       *)
LEMMA KnownIsAckedAfter ==
  ASSUME BusInv, HitsStand, KnownIsAcked,
         NEW go, NEW new, NEW next, NEW trap, Step(go, new, next, trap)
  PROVE  KnownIsAcked' /\ ReadsAreFresh'
<1>1. /\ known' \in [Words -> Nat]
      /\ floor' \in [Harts -> Nat]
      /\ \A a \in Words : known'[a] <= mem[a]
      /\ \A h \in Harts : acc'[h] # None => floor'[h] <= known'[acc'[h].adr]
      /\ ReadsAreFresh'
  BY AcksAreGood, KnownIsUpToMem, KnownAfterEdge DEF Step
<1>2. ASSUME NEW a \in Words PROVE (known[a] + Owed[a] <= mem[a])'
  <2>1. known'[a] <= mem[a] /\ known'[a] \in Nat /\ mem[a] \in Nat
    BY <1>1 DEF BusInv, Types
  <2> QED
    BY <2>1, MemoryAfter
<1> QED
  BY <1>1, <1>2 DEF KnownIsAcked

(* A hit that is answered in the next cycle is answered from the line that  *)
(* was looked up, which was then as new as what was known.                  *)
LEMMA HitsStandAfter ==
  ASSUME BusInv, CacheInv, NEW go, NEW new, NEW next, NEW trap, Step(go, new, next, trap)
  PROVE  HitsStand'
<1> SUFFICES ASSUME NEW h \in Harts, pend'[h], hit'[h]
             PROVE  /\ Line(h)'.adr = acc'[h].adr
                    /\ Line(h)'.ver + Owed'[acc'[h].adr] <= mem'[acc'[h].adr]
                    /\ floor'[h] <= Line(h)'.ver
  BY DEF HitsStand
<1>1. /\ Start(h) /\ Present(h)
      /\ acc'[h] = acc[h] /\ floor'[h] = floor[h] /\ Line(h)' = Line(h)
  BY AcksAreGood, HitIsLookedUp DEF Step
<1>2. acc[h] # None /\ acc[h].adr \in Words /\ Line(h).ver \in Nat
  BY <1>1, AccessFacts DEF Start, BusInv
<1>3. Line(h).adr = acc[h].adr /\ Line(h).ver + Owed[acc[h].adr] = mem[acc[h].adr]
  BY <1>1 DEF Present, Line, CacheInv, LinesAreKept
<1>4. /\ mem[acc[h].adr] \in Nat /\ known[acc[h].adr] \in Nat /\ floor[h] \in Nat
      /\ Owed[acc[h].adr] \in {0, 1}
      /\ known[acc[h].adr] + Owed[acc[h].adr] <= mem[acc[h].adr]
      /\ floor[h] <= known[acc[h].adr]
  BY <1>2, OwedIsAcked DEF BusInv, Types, CacheInv, KnownIsAcked
<1>5. /\ Owed'[acc[h].adr] \in {0, 1}
      /\ mem'[acc[h].adr] = mem[acc[h].adr] + Owed'[acc[h].adr]
  BY <1>2, MemoryAfter
<1>6. Line(h).ver <= mem[acc[h].adr] /\ floor[h] <= Line(h).ver
  BY <1>2, <1>3, <1>4
<1>7. Line(h).ver + Owed'[acc[h].adr] <= mem'[acc[h].adr]
  BY <1>2, <1>4, <1>5, <1>6
<1> QED
  BY <1>1, <1>3, <1>6, <1>7

(* A line lacks at most the one write that is not acked.                    *)
LEMMA LinesAreNear ==
  ASSUME BusInv, CacheInv, NEW h \in Harts, NEW x \in valid[h]
  PROVE  /\ line[h][x].adr \in Words /\ line[h][x].ver \in Nat
         /\ \E n \in {0, 1} : line[h][x].ver + n = mem[line[h][x].adr]
<1>1. /\ x \in Entries /\ line[h][x].adr # None
      /\ line[h][x] \in [adr : Words \cup {None}, ver : Nat]
  BY DEF BusInv, HartInv, HartTypes, HartTypeOK
<1>2. Owed[line[h][x].adr] \in {0, 1}
  BY <1>1, OwedIsAcked
<1> QED
  BY <1>1, <1>2 DEF CacheInv, LinesAreKept

(* A line that counts after an edge holds what memory held before it: a     *)
(* write acked at the edge was snooped, or is this hart's own and updated   *)
(* the line.                                                                *)
LEMMA LineIsCurrentAfter ==
  ASSUME BusInv, CacheInv, NEW go, NEW new, NEW next, NEW trap, Step(go, new, next, trap),
         NEW h \in Harts, NEW x \in valid'[h]
  PROVE  line'[h][x].adr \in Words /\ line'[h][x].ver = mem[line'[h][x].adr]
<1>1. /\ line'[h][x].adr \in Words
      /\ \/ line'[h][x].ver = mem[line'[h][x].adr]
         \/ /\ x \in valid[h]
            /\ line'[h][x] = line[h][x]
            /\ line[h][x].adr \notin OthersWrites(Cycle)[h]
            /\ ~(WriteAck(h, Ack(Cycle)) /\ acc[h].adr = line[h][x].adr)
  <2>1. LinesArePlaced
    BY DEF CacheInv
  <2>2. \A y \in valid[h] : \E n \in {0, 1} : line[h][y].ver + n = mem[line[h][y].adr]
    BY LinesAreNear
  <2>3. HartStep(Ack(Cycle), OthersWrites(Cycle), next, trap)
    BY DEF Step
  <2> QED
    BY <2>1, <2>2, <2>3, AcksAreGood, LineAfter
<1>2. ASSUME x \in valid[h], line'[h][x] = line[h][x],
             line[h][x].adr \notin OthersWrites(Cycle)[h],
             ~(WriteAck(h, Ack(Cycle)) /\ acc[h].adr = line[h][x].adr)
      PROVE  line'[h][x].ver = mem[line'[h][x].adr]
  <2> DEFINE a == line[h][x].adr
  <2>1. a \in Words /\ line[h][x].ver \in Nat /\ line[h][x].ver + Owed[a] = mem[a]
    BY <1>2, LinesAreNear DEF CacheInv, LinesAreKept
  <2>2. Owed[a] # 1
    <3>1. SUFFICES ASSUME Owed[a] = 1 PROVE FALSE
      OBVIOUS
    <3>2. Cycle.ack /\ Cycle.cur.we /\ Cycle.cur.adr = a
      BY <2>1, <3>1, OwedIsAcked
    <3>3. CASE Cycle.sel # Bus!Data(h)
      <4>1. [adr |-> a, src |-> Cycle.sel] \in Bus!Snooped(Cycle)
        BY <3>2 DEF Bus!Snooped
      <4> QED
        BY <1>2, <3>3, <4>1 DEF OthersWrites
    <3>4. CASE Cycle.sel = Bus!Data(h)
      <4>1. Ack(Cycle)[h] # None
        BY <3>2, <3>4, HartAckFacts DEF Bus!Acked
      <4> QED
        BY <1>2, <3>2, <4>1, HartAckFacts DEF WriteAck
    <3> QED
      BY <3>3, <3>4
  <2>3. Owed[a] = 0
    BY <2>1, <2>2, OwedIsAcked
  <2>4. line[h][x].ver = mem[a]
    BY <2>1, <2>3
  <2> QED
    BY <1>2, <2>4
<1> QED
  BY <1>1, <1>2

(* The caches' invariant after an edge.                                     *)
LEMMA CacheInvAfter ==
  ASSUME BusInv, CacheInv, NEW go, NEW new, NEW next, NEW trap, Step(go, new, next, trap)
  PROVE  CacheInv'
<1>1. LinesArePlaced'
  <2>1. LinesArePlaced
    BY DEF CacheInv
  <2>2. \A h \in Harts : \A x \in valid[h] :
          \E n \in {0, 1} : line[h][x].ver + n = mem[line[h][x].adr]
    BY LinesAreNear
  <2>3. HartStep(Ack(Cycle), OthersWrites(Cycle), next, trap)
    BY DEF Step
  <2> QED
    BY <2>1, <2>2, <2>3, AcksAreGood, PlacedAfter
<1>2. ASSUME NEW h \in Harts, NEW x \in valid'[h]
      PROVE  line'[h][x].ver + Owed'[line'[h][x].adr] = mem'[line'[h][x].adr]
  <2>1. line'[h][x].adr \in Words /\ line'[h][x].ver = mem[line'[h][x].adr]
    BY LineIsCurrentAfter
  <2> QED
    BY <2>1, MemoryAfter
<1>3. LinesAreKept'
  BY <1>2 DEF LinesAreKept
<1>4. HitsStand'
  BY HitsStandAfter
<1>5. KnownIsAcked' /\ ReadsAreFresh'
  BY KnownIsAckedAfter DEF CacheInv
<1> QED
  BY <1>1, <1>3, <1>4, <1>5 DEF CacheInv

(* At reset the caches are empty. *)
LEMMA InitCacheInv ==
  ASSUME Init
  PROVE  CacheInv
<1>1. /\ valid = [h \in Harts |-> {}]
      /\ poison = [h \in Harts |-> FALSE]
      /\ pend = [h \in Harts |-> FALSE]
      /\ done = [h \in Harts |-> None]
      /\ acc = [h \in Harts |-> None]
      /\ known = [a \in Words |-> 0]
      /\ floor = [h \in Harts |-> 0]
      /\ mem = [a \in Words |-> 0]
      /\ ackR = [s \in Bus!Slaves |-> FALSE]
  BY DEF Init, HartInit, Bus!BusInit
<1>2. \A a \in Words : Owed[a] = 0
  BY <1>1 DEF Owed
<1> QED
  BY <1>1, <1>2 DEF CacheInv, LinesArePlaced, LinesAreKept, HitsStand, KnownIsAcked, ReadsAreFresh

(* When nothing steps nothing changes.                                      *)
LEMMA QuietCacheInv ==
  ASSUME CacheInv, UNCHANGED busHartsVars
  PROVE  CacheInv'
<1> USE DEF busHartsVars, hartVars, Bus!busVars
<1>1. Owed' = Owed
  BY DEF Owed
<1>2. \A h \in Harts : (OnBus(h)' <=> OnBus(h)) /\ Idx(h)' = Idx(h) /\ Line(h)' = Line(h)
  BY DEF OnBus, Idx, Line
<1>3. Caching' = Caching
  BY DEF Caching
<1> QED
  BY <1>1, <1>2, <1>3 DEF CacheInv, LinesArePlaced, LinesAreKept, HitsStand, KnownIsAcked, ReadsAreFresh

(* The inductive invariant of the caches, on top of the bus's.              *)
LEMMA CacheInvariance == Spec => [](BusInv /\ CacheInv)
<1>1. Init => BusInv /\ CacheInv
  BY InitBusInv, InitCacheInv
<1>2. BusInv /\ CacheInv /\ [Next]_busHartsVars => (BusInv /\ CacheInv)'
  BY QuietCacheInv, NextIsStep, CacheInvAfter, BusInvIsKept
<1> QED
  BY <1>1, <1>2, PTL DEF Spec

(* A valid cache line is the newest version of its word but for a write     *)
(* that is being acked in this very cycle, and no hart reads a version      *)
(* older than any that a hart had been told of when the access began        *)
(* (cpu_wb.v, "Snoop"), for any number of harts, entries and words, with or *)
(* without the late ack, whatever the other masters write.                  *)
THEOREM CachesStayCurrent == Spec => []CachesAreCurrent
<1>1. ASSUME BusInv, CacheInv, NEW h \in Harts, NEW x \in valid[h]
      PROVE  LET a == line[h][x].adr
             IN \/ line[h][x].ver = mem[a]
                \/ \E s \in Bus!Slaves :
                     ackR[s] /\ asked[s][2].we /\ asked[s][2].adr = a /\ line[h][x].ver = mem[a] - 1
  <2> DEFINE a == line[h][x].adr
  <2>1. /\ a \in Words /\ line[h][x].ver \in Nat /\ mem[a] \in Nat
        /\ line[h][x].ver + Owed[a] = mem[a]
    <3>1. x \in Entries /\ a # None /\ line[h][x] \in [adr : Words \cup {None}, ver : Nat]
      BY <1>1 DEF BusInv, HartInv, HartTypes, HartTypeOK, Types
    <3> QED
      BY <1>1, <3>1 DEF BusInv, Types, CacheInv, LinesAreKept
  <2>2. CASE Owed[a] = 0
    BY <2>1, <2>2
  <2>3. CASE Owed[a] # 0
    <3>1. Owed[a] = 1 /\ \E s \in Bus!Slaves : ackR[s] /\ asked[s][2].we /\ asked[s][2].adr = a
      BY <2>1, <2>3 DEF Owed
    <3>2. line[h][x].ver = mem[a] - 1
      BY <2>1, <3>1
    <3> QED
      BY <3>1, <3>2
  <2> QED
    BY <2>2, <2>3
<1>2. BusInv /\ CacheInv => CachesAreCurrent
  BY <1>1 DEF CachesAreCurrent, LinesAreCurrent, CacheInv
<1> QED
  BY <1>2, CacheInvariance, PTL
-----------------------------------------------------------------------------
(* The atomics. *)

(* The bus's owner in a cycle that acks is a hart's data master or one of   *)
(* the others, whose write is one it may ask for.                           *)
LEMMA WriterIsHartOrOther ==
  ASSUME BusInv, Cycle.ack
  PROVE  \/ \E k \in Harts : /\ Ack(Cycle)[k] # None
                              /\ acc[k].adr = Cycle.cur.adr
                              /\ DmemWe(k) <=> Cycle.cur.we
         \/ Cycle.sel \in Externals /\ Cycle.cur \in Asks[Cycle.sel]
<1>1. Cycle.cur # None /\ Cycle.sel \in Bus!Masters /\ Cycle.cur = Port[Cycle.sel]
  BY CurrentFacts
<1>2. CASE Cycle.sel \in Externals
  BY <1>1, <1>2 DEF Port, BusInv, Types
<1>3. CASE Cycle.sel \notin Externals
  <2>1. PICK k \in Harts : Cycle.sel = Bus!Data(k)
    BY <1>1, <1>3 DEF Port
  <2>2. Ack(Cycle)[k] # None
    BY <2>1, HartAckFacts DEF Bus!Acked
  <2> QED
    BY <2>2, HartAckFacts
<1> QED
  BY <1>2, <1>3

(* A write on a reserved word that is acked at an edge is a hart's: nobody  *)
(* else writes the words that programs reserve.                             *)
LEMMA ReservedIsHarts ==
  ASSUME BusInv, ReservationsStand, NEW h \in Harts, resv[h] # None, Owed[resv[h]] = 1
  PROVE  \E k \in Harts : Ack(Cycle)[k] # None /\ DmemWe(k) /\ acc[k].adr = resv[h]
<1>1. resv[h] \in Words
  BY DEF BusInv, HartInv, HartTypes, HartTypeOK
<1>2. Cycle.ack /\ Cycle.cur.we /\ Cycle.cur.adr = resv[h]
  BY <1>1, OwedIsAcked
<1>3. ASSUME Cycle.sel \in Externals, Cycle.cur \in Asks[Cycle.sel]
      PROVE  FALSE
  <2>1. build \in Builds /\ Asks = build.asks /\ Access = build.access
    BY DEF BusInv, HartInv, HartTypes, Asks, Access
  <2> QED
    BY <1>2, <1>3, <2>1, AtomicsAssumption DEF Externals, ReservationsStand
<1> QED
  BY <1>2, <1>3, WriterIsHartOrOther

(* So a reservation that stands after an edge has seen no write since.      *)
LEMMA ReservationsAfter ==
  ASSUME BusInv, ReservationsStand,
         NEW go, NEW new, NEW next, NEW trap, Step(go, new, next, trap)
  PROVE  ReservationsStand'
<1>1. Access' = Access
  BY AcksAreGood, HartTypesAfter DEF Step
<1> SUFFICES ASSUME NEW h \in Harts, resv'[h] # None
             PROVE  /\ \E x \in Access : x.kind = "lr" /\ x.adr = resv'[h]
                    /\ lrVer'[h] + Owed'[resv'[h]] = mem'[resv'[h]]
  BY <1>1 DEF ReservationsStand
<1>2. \/ /\ acc[h] # None /\ acc[h].kind = "lr" /\ Ack(Cycle)[h] # None
         /\ resv'[h] = acc[h].adr /\ lrVer'[h] = mem[acc[h].adr]
      \/ /\ resv'[h] = resv[h] /\ lrVer'[h] = lrVer[h]
         /\ \A k \in Harts : Ack(Cycle)[k] # None /\ DmemWe(k) => acc[k].adr # resv[h]
  BY AcksAreGood, ReservationAfter DEF Step
<1>3. CASE acc[h] # None /\ acc[h].kind = "lr" /\ resv'[h] = acc[h].adr /\ lrVer'[h] = mem[acc[h].adr]
  <2>1. acc[h].adr \in Words /\ acc[h] \in Access
    BY <1>3, AccessFacts DEF BusInv
  <2> QED
    BY <1>3, <2>1, MemoryAfter
<1>4. CASE /\ resv'[h] = resv[h] /\ lrVer'[h] = lrVer[h]
           /\ \A k \in Harts : Ack(Cycle)[k] # None /\ DmemWe(k) => acc[k].adr # resv[h]
  <2>1. resv[h] \in Words /\ lrVer[h] \in Nat /\ mem[resv[h]] \in Nat
    BY <1>4 DEF BusInv, HartInv, HartTypes, HartTypeOK, Types
  <2>2. Owed[resv[h]] = 0
    BY <1>4, <2>1, OwedIsAcked, ReservedIsHarts
  <2>3. lrVer[h] = mem[resv[h]]
    BY <1>4, <2>1, <2>2 DEF ReservationsStand
  <2> QED
    BY <1>4, <2>1, <2>3, MemoryAfter DEF ReservationsStand
<1> QED
  BY <1>2, <1>3, <1>4

(* What the read phase of an AMO returned stays the newest version of its   *)
(* word until the write phase performs, and an SC's reservation stays.      *)
LEMMA ReadPhasesAfter ==
  ASSUME BusInv, ReadPhasesStand,
         NEW go, NEW new, NEW next, NEW trap, Step(go, new, next, trap)
  PROVE  ReadPhasesStand'
<1> SUFFICES ASSUME NEW h \in Harts, wr'[h]
             PROVE  /\ old'[h] + Owed'[acc'[h].adr] = mem'[acc'[h].adr]
                    /\ acc'[h].kind = "sc" => resv'[h] = acc'[h].adr
  BY DEF ReadPhasesStand
<1>1. /\ ~Free(h, Ack(Cycle))
      /\ acc'[h] = acc[h] /\ acc[h] \in Accesses /\ acc[h].kind \in {"sc", "amo"}
      /\ ~wr[h] => /\ Ack(Cycle)[h] # None /\ old'[h] = Ack(Cycle)[h]
                   /\ acc[h].kind = "sc" => ScMatch(h)
      /\ wr[h] => Ack(Cycle)[h] = None /\ old'[h] = old[h]
  BY AcksAreGood, PhaseEntry DEF Step
<1> DEFINE a == acc[h].adr
<1>2. a \in Words /\ mem[a] \in Nat /\ old[h] \in Nat
  BY <1>1 DEF Accesses, BusInv, HartInv, HartTypes, Types
<1>3. Cycle.sel = Bus!Data(h)
  BY PhaseHasBus
<1>4. old'[h] = mem[a]
  <2>1. CASE wr[h]
    <3>1. old[h] + Owed[a] = mem[a]
      BY <2>1 DEF ReadPhasesStand
    <3>2. Owed[a] # 1
      BY <1>1, <1>2, <1>3, <2>1, OwedIsAcked, HartAckFacts DEF Bus!Acked
    <3>3. Owed[a] = 0
      BY <1>2, <3>2, OwedIsAcked
    <3> QED
      BY <1>1, <1>2, <2>1, <3>1, <3>3
  <2>2. CASE ~wr[h]
    BY <1>1, <2>2, HartAckFacts
  <2> QED
    BY <2>1, <2>2
<1>5. ASSUME acc[h].kind = "sc" PROVE resv'[h] = a
  <2>1. resv[h] = a
    BY <1>1, <1>5 DEF ReadPhasesStand, ScMatch
  <2>2. ASSUME NEW k \in Harts \ {h}, StoreFire(k, Ack(Cycle)) PROVE FALSE
    <3>1. Ack(Cycle)[k] # None
      BY <2>2, AcksAreGood, CompletionFacts DEF StoreFire
    <3> QED
      BY <1>3, <3>1, HartAckFacts, MastersAreNats
  <2>3. ~Invalidated(h, Ack(Cycle))
    BY <2>2 DEF Invalidated
  <2>4. Stall(h, Ack(Cycle))
    BY <1>1 DEF Free, Completes
  <2> QED
    BY <2>1, <2>3, <2>4 DEF Step, HartStep, HartClock, ResvAfter
<1> QED
  BY <1>1, <1>2, <1>4, <1>5, MemoryAfter

(* An AMO or SC that has written, in its write phase, made the version      *)
(* after the one its read phase returned.                                   *)
LEMMA WritePhaseOutcome ==
  ASSUME BusInv, ReadPhasesStand, NEW h \in Harts, Completes(h, Ack(Cycle)), wr[h]
  PROVE  /\ DmemWe(h)
         /\ acc[h].adr \in Words
         /\ Owed[acc[h].adr] = 1
         /\ Ack(Cycle)[h] = mem[acc[h].adr]
         /\ mem[acc[h].adr] = old[h] + 1
<1>1. /\ acc[h] # None /\ acc[h] \in Accesses /\ acc[h] \in Access
      /\ acc[h].kind \in {"sc", "amo"}
  BY DEF BusInv, HartInv, HartTypes, HartTypeOK
<1>2. acc[h].adr \in Words /\ old[h] \in Nat
  BY <1>1 DEF Accesses, BusInv, HartInv, HartTypes
<1>3. DmemWe(h) /\ Ack(Cycle)[h] # None
  BY AcksAreGood, CompletionFacts
<1>4. Cycle.ack /\ Cycle.cur.we /\ Cycle.cur.adr = acc[h].adr /\ Ack(Cycle)[h] = mem[acc[h].adr]
  BY <1>3, HartAckFacts
<1>5. DstOf[acc[h].adr] \in Bus!Slaves
  BY <1>1, AtomicsAssumption DEF Access, BusInv, HartInv, HartTypes
<1>6. Owed[acc[h].adr] = 1
  BY <1>2, <1>4, <1>5, OwedIsAcked, CurrentFacts
<1>7. old[h] + Owed[acc[h].adr] = mem[acc[h].adr]
  BY DEF ReadPhasesStand
<1> QED
  BY <1>2, <1>3, <1>4, <1>6, <1>7

(* What the atomics that complete at an edge have done.                     *)
LEMMA AtomicsAfter ==
  ASSUME BusInv, ReadPhasesStand, ReservationsStand,
         NEW go, NEW new, NEW next, NEW trap, Step(go, new, next, trap)
  PROVE  AtomicsHold' /\ FailedScWritesNothing'
<1> USE AcksAreGood DEF Step
<1>1. ASSUME NEW h \in Harts, done'[h] # None, done'[h].kind = "amo"
      PROVE  done'[h].wrote /\ done'[h].ver = done'[h].base + 1
  BY <1>1, DoneFacts, WritePhaseOutcome
<1>2. ASSUME NEW h \in Harts, done'[h] # None, done'[h].kind = "sc", done'[h].ok
      PROVE  done'[h].wrote /\ done'[h].ver = done'[h].lrVer + 1
  <2>1. ScMatch(h) /\ wr[h] /\ Completes(h, Ack(Cycle))
    BY <1>2, DoneFacts
  <2>2. /\ DmemWe(h) /\ Ack(Cycle)[h] = mem[acc[h].adr] /\ Owed[acc[h].adr] = 1
        /\ acc[h].adr \in Words
    BY <2>1, WritePhaseOutcome
  <2>3. resv[h] = acc[h].adr /\ resv[h] # None
    BY <2>1, <2>2, NoWordAssumption DEF ScMatch
  <2>4. lrVer[h] + Owed[resv[h]] = mem[resv[h]]
    BY <2>3 DEF ReservationsStand
  <2> QED
    BY <1>2, <2>2, <2>3, <2>4, DoneFacts
<1>3. ASSUME NEW h \in Harts, done'[h] # None, done'[h].kind = "sc", ~done'[h].ok
      PROVE  ~done'[h].wrote
  BY <1>3, DoneFacts DEF ReadPhasesStand, ScMatch
<1> QED
  BY <1>1, <1>2, <1>3 DEF AtomicsHold, AmoAtomic, ScAtomic, FailedScWritesNothing

(* At reset nothing is reserved. *)
LEMMA InitAtomicInv ==
  ASSUME Init
  PROVE  AtomicInv
<1>1. /\ wr = [h \in Harts |-> FALSE]
      /\ resv = [h \in Harts |-> None]
      /\ done = [h \in Harts |-> None]
  BY DEF Init, HartInit
<1> QED
  BY <1>1
     DEF AtomicInv, ReadPhasesStand, ReservationsStand, AtomicsHold, AmoAtomic, ScAtomic,
         FailedScWritesNothing

(* When nothing steps nothing changes.                                      *)
LEMMA QuietAtomicInv ==
  ASSUME AtomicInv, UNCHANGED busHartsVars
  PROVE  AtomicInv'
<1> USE DEF busHartsVars, hartVars, Bus!busVars
<1>1. Owed' = Owed /\ Access' = Access
  BY DEF Owed, Access
<1> QED
  BY <1>1
     DEF AtomicInv, ReadPhasesStand, ReservationsStand, AtomicsHold, AmoAtomic, ScAtomic,
         FailedScWritesNothing

(* The inductive invariant of the atomics, on top of the bus's.             *)
LEMMA AtomicInvariance == Spec => [](BusInv /\ AtomicInv)
<1>1. Init => BusInv /\ AtomicInv
  BY InitBusInv, InitAtomicInv
<1>2. ASSUME BusInv, AtomicInv, Next PROVE AtomicInv'
  BY <1>2, NextIsStep, ReadPhasesAfter, ReservationsAfter, AtomicsAfter DEF AtomicInv
<1>3. BusInv /\ AtomicInv /\ [Next]_busHartsVars => (BusInv /\ AtomicInv)'
  BY <1>2, QuietAtomicInv, BusInvIsKept
<1> QED
  BY <1>1, <1>3, PTL DEF Spec

(* What the A extension promises: no write comes between the two phases of  *)
(* an AMO, nor between an LR and the SC that reports success, for any       *)
(* number of harts, memories and masters (wb_interconnect.v, "Atomics";     *)
(* reservation_monitor.v).                                                  *)
THEOREM AtomicsAreIndivisible == Spec => []AtomicsHold
BY AtomicInvariance, PTL DEF AtomicInv

(* An SC that reports failure has written nothing (cpu_core.v, the phases   *)
(* of an SC).                                                               *)
THEOREM FailedScIsQuiet == Spec => []FailedScWritesNothing
BY AtomicInvariance, PTL DEF AtomicInv
=============================================================================
