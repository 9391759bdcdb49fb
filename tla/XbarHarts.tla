----------------------------- MODULE XbarHarts -----------------------------
(***************************************************************************)
(* Harts whose data masters reach memory over the router fabric, as        *)
(* soc_top.v wires them when the fabric is built (XBAR): hart h's data     *)
(* master is master h of the fabric, and its cache snoops the writes the   *)
(* memories ack for the others.                                            *)
(***************************************************************************)
EXTENDS HartData, Sequences

CONSTANTS
  NumS,       \* memories
  DstOf,      \* the memory that decodes an address, NumS where none does
  Slow,       \* the memories that may wait before they perform
  Bypass,     \* NI_BYPASS
  AgeLimit,   \* XBAR_AGE_LIMIT
  AgeMax      \* where the routers' age counters saturate

VARIABLES
  sent, qFifo, qLast, qLock, qGrant, qAge, qMis, qTaken,
  rFifo, rLast, rLock, rGrant, rAge, rMis, rTaken,
  lat, held, beats, rspq, sink, ackR, aq, mem

Xbar == INSTANCE NocXbar WITH NumM <- NumHarts

vars == <<Xbar!xbarVars, hartVars>>

ASSUME FabricAssumption ==
  NumS \in Nat /\ DstOf \in [Words -> 0 .. NumS] /\ Bypass \in BOOLEAN

(* What the routers carry and do not look at: a request, a response.        *)
RequestBody == [adr : Words, we : BOOLEAN, burst : BOOLEAN]
ResponseBody == [last : BOOLEAN, err : BOOLEAN, adr : Words, beat : Nat, ver : Nat]

(* No packet is not a packet.                                               *)
ASSUME NoPacketAssumption ==
  None \notin Xbar!Requests \cup
    [dst : Nat, src : Nat, lock : BOOLEAN, qos : {0}, body : RequestBody \cup ResponseBody]

(* The words that programs use the A extension on are in a memory: the      *)
(* error sink answers all of an AMO's phases with nothing.                  *)
ASSUME AtomicsAssumption ==
  \A b \in Builds : \A x \in b.access :
    x.kind \in {"lr", "sc", "amo"} => DstOf[x.adr] \in Xbar!Slaves

Init == Xbar!XbarInit /\ HartInit

(* The data masters' wires: an AMO's read is sent locked, its write is not. *)
PortLocksAll ==                               \* mutant: LR and SC lock as an AMO does
  [h \in Harts |->
    IF OnBus(h)
    THEN [adr |-> acc[h].adr, we |-> DmemWe(h), lock |-> IsAmo(acc[h]) /\ ~wr[h],
          burst |-> FALSE]
    ELSE None]

Port ==
  [h \in Harts |->
    IF OnBus(h)
    THEN [adr |-> acc[h].adr, we |-> DmemWe(h), lock |-> DmemRmw(h) /\ ~wr[h],
          burst |-> FALSE]
    ELSE None]

Ack(w) == [h \in Harts |->
  IF Xbar!Acked(h, w) = None THEN None ELSE Xbar!Acked(h, w).body.ver]

OthersWrites(w) == [h \in Harts |-> {x.adr : x \in {y \in Xbar!Snooped(w) : y.src # h}}]

(* A memory that is not slow performs at once. *)
Readiness == {go \in [Xbar!Slaves -> BOOLEAN] : \A s \in Xbar!Slaves \ Slow : go[s]}

(* One clock edge.  The cycle's wires are bound once: w, ack and snooped.   *)
Next ==
  \E w \in {Xbar!Wires(Port)} : \E ack \in {Ack(w)}, snooped \in {OthersWrites(w)} :
    /\ \E go \in Readiness : Xbar!XbarClock(w, go)
    /\ \E next \in Issues(ack), trap \in SUBSET Trappable(ack) :
         HartClock(ack, snooped, next, trap)

Spec == Init /\ [][Next]_vars

FairSpec == Spec /\ WF_vars(Next)
-----------------------------------------------------------------------------
(* Where a packet of master m's is: its request in the request router or at *)
(* a slave's interface or in the sink, or its response.                     *)
InFlight(m) ==
  {<<"request", n>> : n \in DOMAIN qFifo[m]}
  \cup {<<"slave", s>> : s \in {t \in Xbar!Slaves : lat[t] # None /\ lat[t].src = m}}
  \cup (IF sink # None /\ sink.src = m THEN {<<"sink">>} ELSE {})
  \cup (UNION {{<<"answer", s, n>> : n \in {k \in DOMAIN rspq[s] : rspq[s][k].dst = m}} :
                s \in Xbar!Slaves})
  \cup (UNION {{<<"response", p, n>> : n \in {k \in DOMAIN rFifo[p] : rFifo[p][k].dst = m}} :
                p \in Xbar!Ports})

(* Every access is one packet until its ack: none is lost on the way, none  *)
(* is performed twice, and no answer comes to a master that is not waiting  *)
(* for one, whatever the interfaces and the two routers buffer.             *)
OneOutstanding ==
  /\ \A h \in Harts : Cardinality(InFlight(h)) = IF sent[h] THEN 1 ELSE 0
  /\ \A h \in Harts : sent[h] => OnBus(h)

(* An ack is never late: the version it carries is the newest when it comes *)
(* to the hart, however long the interfaces and the routers held it.        *)
(* cpu_wb.v, SNOOP_LATE_ACK, guards the caches against a fabric that does   *)
(* not keep this: "the ack of an access can reach this hart after another   *)
(* master's write to the same word has completed and been snooped".         *)
AcksAreTimely ==
  LET w == Xbar!Wires(Port)
  IN \A h \in Harts : Xbar!Acked(h, w) # None =>
       Xbar!Acked(h, w).body.ver = mem[acc[h].adr]
=============================================================================
