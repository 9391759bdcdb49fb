------------------------------ MODULE BusHarts ------------------------------
(***************************************************************************)
(* Harts on the shared bus, as soc_top.v wires them by default: hart h's   *)
(* data master is HartData's, and the other masters (the debugger, page    *)
(* walkers, instruction fetch, the NPU's DMA) ask for what they like.      *)
(***************************************************************************)
EXTENDS HartData, Sequences

CONSTANTS
  NumS, DstOf, BurstSlaves,   \* see WbInterconnect
  Slow,       \* the memories that may wait before they perform
  MaxExt      \* requests of theirs altogether (bound)

VARIABLES
  lock, lockB, burstAcks, ackR, aq, mem, asked,
  ext,        \* ext[m]: the request such a master has on its wires, or None
  extAcks,    \* extAcks[m]: the acks of it already taken
  extBegun    \* such requests made so far

Bus == INSTANCE WbInterconnect

busHartsVars == <<Bus!busVars, ext, extAcks, extBegun, hartVars>>

(* Of a build: asks[m], what a master m other than a data master may ask.   *)
Asks == build.asks
Externals == DOMAIN Asks

Requests == [adr : Words, we : BOOLEAN, burst : BOOLEAN]

ASSUME MemoriesAssumption ==
  NumS \in Nat /\ DstOf \in [Words -> 0 .. NumS] /\ BurstSlaves \subseteq Bus!Slaves

ASSUME RequestsAssumption ==
  /\ None \notin Requests \cup (Bus!Masters \X Requests)
  /\ \A b \in Builds :
       /\ DOMAIN b.asks \subseteq Bus!Masters \ {Bus!Data(h) : h \in Harts}
       /\ \A m \in DOMAIN b.asks : b.asks[m] \subseteq Requests

(* The words that programs use the A extension on: they are in a memory (a  *)
(* hole answers zero to all of an AMO's phases), and on those they reserve, *)
(* only harts write, since the monitor hears of no other master's writes    *)
(* (reservation_monitor.v's only inputs are the harts' stores).             *)
ASSUME AtomicsAssumption ==
  \A b \in Builds : \A x \in b.access :
    /\ x.kind \in {"lr", "sc", "amo"} => DstOf[x.adr] \in Bus!Slaves
    /\ x.kind = "lr" =>
         \A m \in DOMAIN b.asks : \A r \in b.asks[m] : r.we => r.adr # x.adr

Init ==
  /\ Bus!BusInit
  /\ HartInit
  /\ ext = [m \in Externals |-> None]
  /\ extAcks = [m \in Externals |-> 0]
  /\ extBegun = 0

DataRequest(h) ==
  IF OnBus(h) THEN [adr |-> acc[h].adr, we |-> DmemWe(h), burst |-> FALSE] ELSE None

Port ==
  [m \in Bus!Masters |->
    IF m \in Externals THEN ext[m]
    ELSE IF \E h \in Harts : m = Bus!Data(h) THEN DataRequest(m - 1)
    ELSE None]

Phase == {h \in Harts : wr[h]}

Owner == Bus!Selected(Port, Phase)

Cycle == Bus!Wires(Port, Owner)

Ack(w) == [h \in Harts |-> IF Bus!Acked(Bus!Data(h), w) THEN Bus!Version(w) ELSE None]

OthersWrites(w) == [h \in Harts |-> {x.adr : x \in {y \in Bus!Snooped(w) : y.src # Bus!Data(h)}}]

(* A burst's master keeps its request up for the four acks (wb_icache).     *)
Served(m, w) == Bus!Acked(m, w) /\ (~(lockB \/ w.burst) \/ extAcks[m] = Bus!LastAck)

(* new[m] is the request that m puts on its wires at this edge, or None.    *)
ExtClock(w, new) ==
  /\ ext' = [m \in Externals |-> IF ext[m] = None \/ Served(m, w) THEN new[m] ELSE ext[m]]
  /\ extBegun' = extBegun + Cardinality({m \in Externals : new[m] # None})
  /\ extAcks' = [m \in Externals |->
       IF Served(m, w) THEN 0
       ELSE IF Bus!Acked(m, w) THEN extAcks[m] + 1
       ELSE extAcks[m]]

(* What the other masters may ask for at an edge.                           *)
ExtIssues(w) ==
  {new \in [Externals -> (UNION {Asks[m] : m \in Externals}) \cup {None}] :
     /\ \A m \in Externals : new[m] # None =>
          (ext[m] = None \/ Served(m, w)) /\ new[m] \in Asks[m]
     /\ extBegun + Cardinality({m \in Externals : new[m] # None}) <= MaxExt}

(* A memory that is not slow performs at once. *)
Readiness == {go \in [Bus!Slaves -> BOOLEAN] : \A s \in Bus!Slaves \ Slow : go[s]}

(* One clock edge.  The cycle's wires are bound once: w, ack and snooped.   *)
Next ==
  \E owner \in {Owner} : \E w \in {Bus!Wires(Port, owner)} :
  \E ack \in {Ack(w)}, snooped \in {OthersWrites(w)} :
    /\ \E go \in Readiness : Bus!BusClock(w, go)
    /\ \E new \in ExtIssues(w) : ExtClock(w, new)
    /\ \E next \in Issues(ack), trap \in SUBSET Trappable(ack) :
         HartClock(ack, snooped, next, trap)

Spec == Init /\ [][Next]_busHartsVars

FairSpec == Spec /\ WF_busHartsVars(Next)
-----------------------------------------------------------------------------
BusTypeOK ==
  /\ HartTypeOK
  /\ lock \in Bus!Masters \cup {None}
  /\ burstAcks \in 0 .. Bus!LastAck
  /\ lockB => lock # None
  /\ \A s \in Bus!Slaves : ackR[s] => asked[s] # None

(* An ack goes to the master that asked for it, with the data of the        *)
(* address it asked for, and a transfer under way still has its request up  *)
(* (wb_interconnect.v, "Latched once a transfer is under way": else "the    *)
(* RAM's ack, which belongs to that other master's address, would be        *)
(* delivered along with that other master's data").                         *)
AcksGoHome ==
  LET w == Cycle
  IN /\ lock # None => w.cur # None
     /\ w.to \in Bus!Slaves /\ w.ack => asked[w.to] = <<w.sel, w.cur>>

(* At most one hart is in an AMO's write phase (wb_interconnect.v, "At most *)
(* one hart can genuinely be mid-write-phase at a time"): were there two,   *)
(* the override would let the lower one between the other's two phases.     *)
OneWritePhase == Cardinality(Phase) <= 1

(* The two together: no transfer is cut into or taken for another.         *)
TransfersHold == AcksGoHome /\ OneWritePhase

(* A valid cache line is the newest version of its word, unless the write   *)
(* that made it old is being acked in this very cycle, which is when the    *)
(* snoop drops the line (cpu_wb.v, "Why this is enough for a write-through  *)
(* cache").                                                                 *)
LinesAreCurrent ==
  \A h \in Harts : \A x \in valid[h] :
    LET a == line[h][x].adr
    IN \/ line[h][x].ver = mem[a]
       \/ \E s \in Bus!Slaves :
            ackR[s] /\ asked[s][2].we /\ asked[s][2].adr = a /\ line[h][x].ver = mem[a] - 1

(* What the caches hold is current, and so is what the harts read.          *)
CachesAreCurrent == LinesAreCurrent /\ ReadsAreFresh
=============================================================================
