-------------------------- MODULE XbarHartsProofs --------------------------
(***************************************************************************)
(* What XbarHarts promises, for every number of harts, memories, words and  *)
(* cache entries, for every program and build, with the bypass of the       *)
(* interfaces or without it and however slow the memories are.              *)
(*                                                                          *)
(* The inductive invariant is in three layers.  FabricInv says where every  *)
(* packet is: a slave port of the fabric (a memory's or the error sink's)   *)
(* is idle or has the one access of one hart, as its request, its response  *)
(* waiting, or its response in the router; every other access that has      *)
(* been sent is at the head of its hart's queue.  CacheInv and AtomicInv    *)
(* stand on it.                                                             *)
(***************************************************************************)
EXTENDS XbarHarts, HartDataProofs

(* The wires of the cycle that ends at the next edge.                       *)
Cycle == Xbar!Wires(Port)

(* The slave port that serves hart h's access.                              *)
Dst(h) == DstOf[acc[h].adr]

(* The two packets of hart h's access.                                      *)
Req(h) ==
  [dst |-> Dst(h), src |-> h, lock |-> DmemRmw(h) /\ ~wr[h], qos |-> 0,
   body |-> [adr |-> acc[h].adr, we |-> DmemWe(h), burst |-> FALSE]]

Rsp(h) ==
  [dst |-> h, src |-> Dst(h), lock |-> FALSE, qos |-> 0,
   body |-> [last |-> TRUE, err |-> Dst(h) = NumS, adr |-> acc[h].adr, beat |-> 0,
             ver |-> mem[acc[h].adr]]]

(* What a slave port serves, and the responses that wait at it.             *)
At(p) == IF p = NumS THEN sink ELSE lat[p]
Waiting(p) == IF p = NumS THEN <<>> ELSE rspq[p]

Idle(p) == At(p) = None /\ Waiting(p) = <<>> /\ rFifo[p] = <<>>
Serving(p, h) == At(p) = Req(h) /\ Waiting(p) = <<>> /\ rFifo[p] = <<>>
Answering(p, h) == At(p) = None /\ Waiting(p) = <<Rsp(h)>> /\ rFifo[p] = <<>>
Responding(p, h) == At(p) = None /\ Waiting(p) = <<>> /\ rFifo[p] = <<Rsp(h)>>

(* Port p has hart h's access.                                              *)
Has(p, h) ==
  /\ sent[h] /\ qFifo[h] = <<>> /\ Dst(h) = p
  /\ Serving(p, h) \/ Answering(p, h) \/ Responding(p, h)

(* A slave port serves one access at a time, or none.                       *)
PortsAre == \A p \in Xbar!Ports : Idle(p) \/ \E h \in Harts : Has(p, h)

(* An access that is sent waits at the head of its hart's queue or is at its*)
(* port; a hart that has sent nothing has nothing in the fabric.            *)
HartsAre ==
  \A h \in Harts :
    /\ sent[h] => OnBus(h) /\ (qFifo[h] = <<Req(h)>> \/ Has(Dst(h), h))
    /\ ~sent[h] => qFifo[h] = <<>>

(* A memory acks what it has just performed, with the version it made or    *)
(* saw, and there are no bursts.                                            *)
MemoriesAre ==
  \A s \in Xbar!Slaves :
    /\ ackR[s] => lat[s] # None /\ aq[s] = mem[lat[s].body.adr]
    /\ lat[s] # None => beats[s] = 0

(* A held grant is for a request that is still there and may pass the lock. *)
GrantsAre ==
  \A p \in Xbar!Ports : qGrant[p] # None =>
    /\ qGrant[p] \in Harts
    /\ sent[qGrant[p]] /\ qFifo[qGrant[p]] = <<Req(qGrant[p])>>
    /\ Dst(qGrant[p]) = p
    /\ qLock[p] \in {None, qGrant[p]}

(* No response is ever held, since its master waits for it, or locked.      *)
ResponsesFlow == \A h \in Harts : rGrant[h] = None /\ rLock[h] = None

(* No memory holds a word that nothing decodes.                             *)
NothingElsewhere == \A a \in Words : DstOf[a] = NumS => mem[a] = 0

(* The types the steps below need.                                          *)
FabricTypes ==
  /\ sent \in [Harts -> BOOLEAN]
  /\ qLock \in [Xbar!Ports -> Harts \cup {None}]
  /\ ackR \in [Xbar!Slaves -> BOOLEAN]
  /\ mem \in [Words -> Nat]

(* Where every packet is: the first layer of the invariant.                 *)
FabricInv ==
  /\ HartInv /\ FabricTypes
  /\ PortsAre /\ HartsAre /\ MemoriesAre /\ GrantsAre /\ ResponsesFlow /\ NothingElsewhere

(* The response to hart h's access is at its interface in this cycle.       *)
Responds(h) == Has(Dst(h), h) /\ Responding(Dst(h), h)

(* The slave port takes hart h's request at this edge.                      *)
Taken(h) == sent[h] /\ Xbar!Accepts(Dst(h)) /\ Cycle.qOffer[Dst(h)] = h
-----------------------------------------------------------------------------
(* The wires of a cycle. *)

(* Harts and ports are numbers, and the routers' ports are them.            *)
LEMMA PortsAreNats ==
  /\ Harts \subseteq Nat /\ None \notin Harts
  /\ Xbar!Ports \subseteq Nat /\ None \notin Xbar!Ports
  /\ Xbar!Slaves = Xbar!Ports \ {NumS} /\ NumS \in Xbar!Ports
  /\ \A a \in Words : DstOf[a] \in Xbar!Ports
  /\ Xbar!Masters = Harts
  /\ Xbar!QR!Inputs = Harts /\ Xbar!QR!Outputs = Xbar!Ports
  /\ Xbar!RR!Inputs = Xbar!Ports /\ Xbar!RR!Outputs = Harts
  /\ \A p \in Xbar!Ports : ~(p >= NumS + 1)
  /\ \A h \in Harts : ~(h >= NumHarts)
BY BoundsAssumption, NoWordAssumption, FabricAssumption
   DEF Harts, Xbar!Ports, Xbar!Slaves, Xbar!Masters, Xbar!QR!Inputs, Xbar!QR!Outputs,
       Xbar!RR!Inputs, Xbar!RR!Outputs

(* What an access on the bus looks like on the wires and as packets.        *)
LEMMA PacketFacts ==
  ASSUME FabricInv, NEW h \in Harts
  PROVE  /\ ~OnBus(h) => Port[h] = None
         /\ OnBus(h) => /\ acc[h] # None /\ acc[h].adr \in Words
                        /\ Dst(h) \in Xbar!Ports
                        /\ mem[acc[h].adr] \in Nat
                        /\ Port[h] # None
                        /\ Xbar!Request(h, Port[h]) = Req(h)
                        /\ Req(h) # None
                        /\ Rsp(h) # None
<1>1. ~OnBus(h) => Port[h] = None
  BY DEF Port
<1>2. ASSUME OnBus(h)
      PROVE  /\ acc[h] # None /\ acc[h].adr \in Words
             /\ Dst(h) \in Xbar!Ports
             /\ mem[acc[h].adr] \in Nat
             /\ Port[h] # None
             /\ Xbar!Request(h, Port[h]) = Req(h)
             /\ Req(h) # None
             /\ Rsp(h) # None
  <2>1. acc[h] # None
    BY <1>2 DEF OnBus, FabricInv, HartInv, HartTypes, HartTypeOK
  <2>2. acc[h].adr \in Words
    BY <2>1, AccessFacts DEF FabricInv
  <2>3. Dst(h) \in Xbar!Ports /\ Dst(h) \in Nat /\ h \in Nat
    BY <2>2, PortsAreNats DEF Dst
  <2>4. mem[acc[h].adr] \in Nat
    BY <2>2 DEF FabricInv, FabricTypes
  <2>5. DmemWe(h) \in BOOLEAN /\ (DmemRmw(h) /\ ~wr[h]) \in BOOLEAN
    BY DEF DmemWe, DmemRmw, IsStore, FabricInv, HartInv, HartTypes, HartTypeOK
  <2>6. Port[h] = [adr |-> acc[h].adr, we |-> DmemWe(h), lock |-> DmemRmw(h) /\ ~wr[h],
                   burst |-> FALSE]
    BY <1>2 DEF Port
  <2>7. Port[h] \in Xbar!Requests
    BY <2>2, <2>5, <2>6 DEF Xbar!Requests
  <2>8. Xbar!Request(h, Port[h]) = Req(h)
    BY <2>6 DEF Xbar!Request, Req, Dst
  <2>9. Req(h) \in [dst : Nat, src : Nat, lock : BOOLEAN, qos : {0}, body : RequestBody]
    BY <2>2, <2>3, <2>5 DEF Req, RequestBody
  <2>10. Rsp(h) \in [dst : Nat, src : Nat, lock : BOOLEAN, qos : {0}, body : ResponseBody]
    BY <2>2, <2>3, <2>4 DEF Rsp, ResponseBody
  <2> QED
    BY <2>1, <2>2, <2>3, <2>4, <2>7, <2>8, <2>9, <2>10, NoPacketAssumption
<1> QED
  BY <1>1, <1>2

(* A port has the access of one hart at most.                               *)
LEMMA PortHasOne ==
  ASSUME FabricInv, NEW p, NEW h \in Harts, NEW k \in Harts, Has(p, h), Has(p, k)
  PROVE  h = k
<1>1. Req(h) # None /\ Req(k) # None
  BY PacketFacts DEF Has, FabricInv, HartsAre
<1>2. Req(h) = Req(k) => h = k
  BY DEF Req
<1>3. <<Rsp(h)>> = <<Rsp(k)>> => h = k
  <2>1. Rsp(h).dst = h /\ Rsp(k).dst = k
    BY DEF Rsp
  <2> QED
    BY <2>1
<1>4. <<Rsp(h)>> # <<>> /\ <<Rsp(k)>> # <<>>
  OBVIOUS
<1> QED
  BY <1>1, <1>2, <1>3, <1>4 DEF Has, Serving, Answering, Responding

(* What the request router offers a port is the request of a hart that has  *)
(* been sent and waits in its queue.                                        *)
LEMMA OfferFacts ==
  ASSUME FabricInv, NEW p \in Xbar!Ports
  PROVE  /\ Cycle.offered[p] = IF Cycle.qOffer[p] = None THEN None ELSE Req(Cycle.qOffer[p])
         /\ Cycle.qOffer[p] # None =>
              LET k == Cycle.qOffer[p]
              IN /\ k \in Harts /\ sent[k] /\ OnBus(k) /\ qFifo[k] = <<Req(k)>>
                 /\ Dst(k) = p /\ qLock[p] \in {None, k}
<1>1. Cycle.qOffer[p] = Xbar!QR!Offer(p, None)
  BY PortsAreNats DEF Cycle, Xbar!Wires, Xbar!QR!Offers
<1>2. Cycle.offered[p] = IF Cycle.qOffer[p] = None THEN None ELSE Head(qFifo[Cycle.qOffer[p]])
  BY DEF Cycle, Xbar!Wires, Xbar!QR!HeadOf
<1>3. ASSUME NEW k, Cycle.qOffer[p] = k, k # None
      PROVE  /\ k \in Harts /\ sent[k] /\ OnBus(k) /\ qFifo[k] = <<Req(k)>>
             /\ Dst(k) = p /\ qLock[p] \in {None, k}
  <2>1. CASE qGrant[p] # None
    <3>1. k = qGrant[p]
      BY <1>1, <1>3, <2>1 DEF Xbar!QR!Offer
    <3> QED
      BY <2>1, <3>1 DEF FabricInv, GrantsAre, HartsAre
  <2>2. CASE qGrant[p] = None
    <3>1. k \in Xbar!QR!Best(p, None)
      BY <1>1, <1>3, <2>2 DEF Xbar!QR!Offer
    <3>2. k \in Xbar!QR!Servable(p, None)
      BY <3>1 DEF Xbar!QR!Best
    <3>3. /\ k \in Harts /\ qFifo[k] # <<>>
          /\ Head(qFifo[k]).dst = p
          /\ qLock[p] \in {None, Head(qFifo[k]).src}
      BY <3>2, PortsAreNats DEF Xbar!QR!Servable, Xbar!QR!HasHead, Xbar!QR!HeadOf
    <3>4. sent[k] /\ OnBus(k) /\ qFifo[k] = <<Req(k)>>
      BY <3>3 DEF FabricInv, HartsAre, FabricTypes, Has
    <3>5. Head(qFifo[k]) = Req(k)
      BY <3>4
    <3>6. Req(k).dst = Dst(k) /\ Req(k).src = k
      BY DEF Req
    <3> QED
      BY <3>3, <3>4, <3>5, <3>6
  <2> QED
    BY <2>1, <2>2
<1>4. Cycle.qOffer[p] # None => Head(qFifo[Cycle.qOffer[p]]) = Req(Cycle.qOffer[p])
  BY <1>3
<1> QED
  BY <1>2, <1>3, <1>4

(* What the response router offers a hart is the answer to its access, as   *)
(* soon as that is in the router.                                           *)
LEMMA ResponseFacts ==
  ASSUME FabricInv, NEW h \in Harts
  PROVE  /\ Cycle.rOffer[h] = IF Responds(h) THEN Dst(h) ELSE None
         /\ Cycle.rsp[h] = IF Responds(h) THEN Rsp(h) ELSE None
<1>1. Cycle.rOffer[h] = Xbar!RR!Offer(h, None)
  BY PortsAreNats DEF Cycle, Xbar!Wires, Xbar!RR!Offers
<1>2. Cycle.rsp[h] = IF sent[h] /\ Cycle.rOffer[h] # None THEN Head(rFifo[Cycle.rOffer[h]]) ELSE None
  BY PortsAreNats DEF Cycle, Xbar!Wires, Xbar!RR!HeadOf
<1>3. rGrant[h] = None /\ rLock[h] = None
  BY DEF FabricInv, ResponsesFlow
<1>4. \A p : p \in Xbar!RR!Servable(h, None) <=>
        p \in Xbar!Ports /\ rFifo[p] # <<>> /\ Head(rFifo[p]).dst = h
  BY <1>3, PortsAreNats DEF Xbar!RR!Servable, Xbar!RR!HasHead, Xbar!RR!HeadOf, Xbar!RR!Held
<1>5. \A p : p \in Xbar!RR!Servable(h, None) <=> Responds(h) /\ p = Dst(h)
  <2>1. ASSUME NEW p \in Xbar!Ports, rFifo[p] # <<>>, Head(rFifo[p]).dst = h
        PROVE  Responds(h) /\ p = Dst(h)
    <3>1. PICK k \in Harts : Has(p, k) /\ Responding(p, k)
      BY <2>1 DEF FabricInv, PortsAre, Idle, Has, Serving, Answering
    <3>2. Head(rFifo[p]) = Rsp(k)
      BY <3>1 DEF Responding
    <3>3. Rsp(k).dst = k
      BY DEF Rsp
    <3>4. k = h
      BY <2>1, <3>2, <3>3
    <3> QED
      BY <3>1, <3>4 DEF Has, Responds
  <2>2. ASSUME Responds(h)
        PROVE  Dst(h) \in Xbar!Ports /\ rFifo[Dst(h)] # <<>> /\ Head(rFifo[Dst(h)]).dst = h
    <3>1. Dst(h) \in Xbar!Ports
      BY <2>2, PacketFacts DEF Responds, Has, FabricInv, HartsAre
    <3>2. rFifo[Dst(h)] = <<Rsp(h)>>
      BY <2>2 DEF Responds, Responding
    <3>3. Rsp(h).dst = h
      BY DEF Rsp
    <3> QED
      BY <3>1, <3>2, <3>3
  <2> QED
    BY <1>4, <2>1, <2>2
<1>6. CASE Responds(h)
  <2>1. Dst(h) \in Nat /\ Dst(h) # None
    BY <1>4, <1>5, <1>6, PortsAreNats
  <2>2. Xbar!RR!Precedes(Dst(h), Dst(h))
    BY <2>1 DEF Xbar!RR!Precedes
  <2>3. \A p : p \in Xbar!RR!Best(h, None) <=> p = Dst(h)
    BY <1>5, <1>6, <2>2 DEF Xbar!RR!Best
  <2>4. Cycle.rOffer[h] = Dst(h)
    <3>1. Xbar!RR!Best(h, None) = {Dst(h)}
      BY <2>3
    <3> QED
      BY <1>1, <1>3, <3>1 DEF Xbar!RR!Offer
  <2>5. sent[h] /\ rFifo[Dst(h)] = <<Rsp(h)>>
    BY <1>6 DEF Responds, Has, Responding
  <2>6. Cycle.rsp[h] = Head(rFifo[Dst(h)])
    BY <1>2, <2>1, <2>4, <2>5
  <2> QED
    BY <1>6, <2>4, <2>5, <2>6
<1>7. CASE ~Responds(h)
  <2>1. Xbar!RR!Best(h, None) = {}
    BY <1>5, <1>7 DEF Xbar!RR!Best
  <2> QED
    BY <1>1, <1>2, <1>3, <1>7, <2>1 DEF Xbar!RR!Offer
<1> QED
  BY <1>6, <1>7

(* An ack comes to a hart that waits for it, with the newest version of the *)
(* word it asked for.                                                       *)
LEMMA AckFacts ==
  ASSUME FabricInv
  PROVE  /\ \A h \in Harts : Ack(Cycle)[h] = IF Responds(h) THEN mem[acc[h].adr] ELSE None
         /\ \A h \in Harts : Xbar!Acked(h, Cycle) = IF Responds(h) THEN Rsp(h) ELSE None
         /\ \A h \in Harts : Ack(Cycle)[h] # None <=> Responds(h)
         /\ AcksAreDue(Ack(Cycle)) /\ AcksAreNewest(Ack(Cycle), mem)
<1>1. ASSUME NEW h \in Harts
      PROVE  /\ Xbar!Acked(h, Cycle) = IF Responds(h) THEN Rsp(h) ELSE None
             /\ Ack(Cycle)[h] = IF Responds(h) THEN mem[acc[h].adr] ELSE None
             /\ Responds(h) => OnBus(h) /\ mem[acc[h].adr] \in Nat
  <2>1. Responds(h) => OnBus(h)
    BY DEF Responds, Has, FabricInv, HartsAre
  <2>2. Cycle.port[h] = Port[h]
    BY DEF Cycle, Xbar!Wires
  <2>3. Xbar!Acked(h, Cycle) = IF Responds(h) THEN Rsp(h) ELSE None
    BY <2>1, <2>2, ResponseFacts, PacketFacts DEF Xbar!Acked
  <2>4. Responds(h) => Rsp(h) # None
    BY <2>1, PacketFacts
  <2>5. Rsp(h).body.ver = mem[acc[h].adr]
    BY DEF Rsp
  <2>6. Ack(Cycle)[h] = IF Xbar!Acked(h, Cycle) = None THEN None ELSE Xbar!Acked(h, Cycle).body.ver
    BY DEF Ack
  <2> QED
    BY <2>1, <2>3, <2>4, <2>5, <2>6, PacketFacts
<1>2. \A h \in Harts : Ack(Cycle)[h] # None <=> Responds(h)
  BY <1>1, NoWordAssumption
<1>3. AcksAreDue(Ack(Cycle))
  BY <1>1, <1>2 DEF AcksAreDue
<1>4. AcksAreNewest(Ack(Cycle), mem)
  BY <1>1, <1>2 DEF AcksAreNewest, FabricInv, FabricTypes
<1> QED
  BY <1>1, <1>2, <1>3, <1>4
-----------------------------------------------------------------------------
(* One clock edge of the fabric. *)

(* An edge at which the memories in go are ready, the harts issue next and  *)
(* take the traps in trap.                                                  *)
Step(go, next, trap) ==
  /\ go \in Readiness
  /\ Xbar!XbarClock(Cycle, go)
  /\ HartStep(Ack(Cycle), OthersWrites(Cycle), next, trap)

(* An access that is on the bus and is not answered stays what it is, and   *)
(* so do its packets while nothing is written on its word.                  *)
LEMMA AccessStays ==
  ASSUME FabricInv, NEW go, NEW next, NEW trap, Step(go, next, trap),
         NEW h \in Harts, OnBus(h), ~Responds(h)
  PROVE  /\ OnBus(h)' /\ acc'[h] = acc[h] /\ wr'[h] = wr[h] /\ old'[h] = old[h]
         /\ DmemWe(h)' = DmemWe(h)
         /\ Dst(h)' = Dst(h)
         /\ Req(h)' = Req(h)
         /\ mem'[acc[h].adr] = mem[acc[h].adr] => Rsp(h)' = Rsp(h)
<1>1. Ack(Cycle)[h] = None /\ AcksAreDue(Ack(Cycle))
  BY AckFacts
<1>2. HartInv /\ HartStep(Ack(Cycle), OthersWrites(Cycle), next, trap)
  BY DEF FabricInv, Step
<1>3. /\ OnBus(h)' /\ acc'[h] = acc[h] /\ wr'[h] = wr[h] /\ old'[h] = old[h]
      /\ DmemWe(h)' = DmemWe(h)
  BY <1>1, <1>2, WaitingStays
<1>4. Dst(h)' = Dst(h)
  BY <1>3 DEF Dst
<1>5. DmemRmw(h)' = DmemRmw(h)
  BY <1>3 DEF DmemRmw
<1> QED
  BY <1>3, <1>4, <1>5 DEF Req, Rsp

(* A master's interface sends a request when it comes and once; the request *)
(* leaves its queue when the slave port takes it.                           *)
LEMMA RequestAfter ==
  ASSUME FabricInv, NEW go, NEW next, NEW trap, Step(go, next, trap), NEW h \in Harts
  PROVE  /\ sent'[h] \in BOOLEAN
         /\ sent'[h] <=> IF sent[h] THEN ~Responds(h) ELSE OnBus(h)
         /\ qFifo'[h] = IF ~sent[h] THEN IF OnBus(h) THEN <<Req(h)>> ELSE <<>>
                        ELSE IF qFifo[h] # <<>> /\ ~Taken(h) THEN <<Req(h)>> ELSE <<>>
         /\ Taken(h) => sent[h] /\ qFifo[h] # <<>>
<1> DEFINE rdy == [p \in Xbar!Ports |-> Xbar!Accepts(p)]
           pass == [o \in Xbar!QR!Outputs |-> IF rdy[o] THEN Cycle.qOffer[o] ELSE None]
<1>1. sent[h] \in BOOLEAN /\ (sent[h] \/ qFifo[h] = <<>>)
      /\ (qFifo[h] = <<>> \/ qFifo[h] = <<Req(h)>>)
      /\ (Responds(h) => sent[h] /\ qFifo[h] = <<>>)
      /\ (sent[h] => OnBus(h))
  BY DEF FabricInv, FabricTypes, HartsAre, Has, Responds
<1>2. Xbar!QR!Ready(h)
  <2> HIDE DEF Req
  <2>1. CASE qFifo[h] = <<>>
    BY <2>1 DEF Xbar!QR!Ready
  <2>2. CASE qFifo[h] = <<Req(h)>>
    BY <2>2 DEF Xbar!QR!Ready
  <2> QED
    BY <1>1, <2>1, <2>2
<1>3. Xbar!Requesting(h, Cycle) <=> OnBus(h) /\ ~sent[h]
  <2>1. Cycle.port[h] = Port[h]
    BY DEF Cycle, Xbar!Wires
  <2> QED
    BY <2>1, PacketFacts DEF Xbar!Requesting
<1>4. Xbar!Presented(Cycle)[h] = IF OnBus(h) /\ ~sent[h] THEN Req(h) ELSE None
  <2>1. Cycle.port[h] = Port[h]
    BY DEF Cycle, Xbar!Wires
  <2> QED
    BY <1>3, <2>1, PacketFacts, PortsAreNats DEF Xbar!Presented
<1>5. sent'[h] \in BOOLEAN /\ (sent'[h] <=> IF sent[h] THEN ~Responds(h) ELSE OnBus(h))
  <2>1. sent'[h] = Xbar!SentAfter(h, Cycle)
    BY PortsAreNats DEF Step, Xbar!XbarClock
  <2>2. Cycle.rsp[h] = IF Responds(h) THEN Rsp(h) ELSE None
    BY ResponseFacts
  <2>3. Rsp(h).body.last
    BY DEF Rsp
  <2>4. Responds(h) => Rsp(h) # None
    BY <1>1, PacketFacts
  <2> QED
    BY <1>1, <1>2, <1>3, <2>1, <2>2, <2>3, <2>4 DEF Xbar!SentAfter
<1>6. \A p \in Xbar!Ports : Cycle.qOffer[p] = h =>
        sent[h] /\ OnBus(h) /\ qFifo[h] = <<Req(h)>> /\ Dst(h) = p
  <2>1. h # None
    BY PortsAreNats
  <2> QED
    BY <2>1, OfferFacts
<1>7. Taken(h) => sent[h] /\ OnBus(h) /\ qFifo[h] # <<>> /\ Dst(h) \in Xbar!Ports
  BY <1>1, <1>6, PacketFacts DEF Taken
<1>8. Xbar!QR!Leaves(h, pass) <=> Taken(h)
  <2>1. ~Xbar!QR!Dropped(h)
    <3>1. Req(h).dst = Dst(h)
      BY DEF Req
    <3>2. qFifo[h] # <<>> => OnBus(h) /\ Head(qFifo[h]) = Req(h)
      BY <1>1
    <3> QED
      BY <3>1, <3>2, PacketFacts, PortsAreNats DEF Xbar!QR!Dropped, Xbar!QR!HasHead, Xbar!QR!HeadOf
  <2>2. \A p \in Xbar!Ports : pass[p] = IF Xbar!Accepts(p) THEN Cycle.qOffer[p] ELSE None
    BY PortsAreNats
  <2>3. h # None
    BY PortsAreNats
  <2> HIDE DEF pass
  <2>4. (\E o \in Xbar!QR!Outputs : pass[o] = h) <=> Taken(h)
    BY <1>6, <1>7, <2>2, <2>3, PortsAreNats DEF Taken
  <2> QED
    BY <2>1, <2>4 DEF Xbar!QR!Leaves
<1>9. qFifo'[h] = Xbar!QR!FifoAfter(h, Xbar!Presented(Cycle), pass)
  BY PortsAreNats DEF Step, Xbar!XbarClock, Xbar!QR!Clock, Xbar!QR!Update
<1> HIDE DEF pass
<1>10. OnBus(h) => Req(h) # None
  BY PacketFacts
<1>11. qFifo'[h] = IF ~sent[h] THEN IF OnBus(h) THEN <<Req(h)>> ELSE <<>>
                   ELSE IF qFifo[h] # <<>> /\ ~Taken(h) THEN <<Req(h)>> ELSE <<>>
  <2> HIDE DEF Req
  <2>1. CASE ~sent[h]
    <3>1. qFifo[h] = <<>> /\ ~Xbar!QR!Leaves(h, pass)
      BY <1>1, <1>7, <1>8, <2>1
    <3>2. qFifo'[h] = IF OnBus(h) THEN Append(<<>>, Req(h)) ELSE <<>>
      BY <1>2, <1>4, <1>9, <1>10, <2>1, <3>1 DEF Xbar!QR!FifoAfter
    <3> QED
      BY <2>1, <3>2
  <2>2. CASE sent[h]
    <3>1. qFifo'[h] = IF Taken(h) THEN Tail(qFifo[h]) ELSE qFifo[h]
      BY <1>4, <1>8, <1>9, <2>2 DEF Xbar!QR!FifoAfter
    <3>2. CASE qFifo[h] = <<>>
      BY <1>7, <2>2, <3>1, <3>2
    <3>3. CASE qFifo[h] = <<Req(h)>>
      BY <2>2, <3>1, <3>3
    <3> QED
      BY <1>1, <3>2, <3>3
  <2> QED
    BY <2>1, <2>2
<1> QED
  BY <1>5, <1>7, <1>11

(* The response router has room for whatever a port gives it, and passes    *)
(* what it has at once.                                                     *)
LEMMA ResponseAfter ==
  ASSUME FabricInv, NEW go, NEW next, NEW trap, Step(go, next, trap)
  PROVE  /\ \A p \in Xbar!Ports :
              /\ Xbar!RR!Ready(p)
              /\ rFifo'[p] = IF Xbar!Answer(p, Cycle) = None THEN <<>>
                             ELSE <<Xbar!Answer(p, Cycle)>>
         /\ ResponsesFlow'
<1> DEFINE pass == [o \in Xbar!RR!Outputs |-> IF sent[o] THEN Cycle.rOffer[o] ELSE None]
<1>1. ASSUME NEW h \in Harts
      PROVE  pass[h] = IF Responds(h) THEN Dst(h) ELSE None
  <2>1. Responds(h) => sent[h]
    BY DEF Responds, Has
  <2>2. pass[h] = IF sent[h] THEN Cycle.rOffer[h] ELSE None
    BY PortsAreNats
  <2> QED
    BY <2>1, <2>2, ResponseFacts
<1>2. /\ \A p \in Xbar!Ports :
           rFifo'[p] = Xbar!RR!FifoAfter(p, [q \in Xbar!Ports |-> Xbar!Answer(q, Cycle)], pass)
      /\ \A h \in Harts : /\ rLock'[h] = Xbar!RR!LockAfter(h, pass)
                          /\ rGrant'[h] = IF sent[h] THEN None ELSE Cycle.rOffer[h]
  BY PortsAreNats DEF Step, Xbar!XbarClock, Xbar!RR!Clock, Xbar!RR!Update
<1> HIDE DEF pass
<1>3. ASSUME NEW p \in Xbar!Ports
      PROVE  \/ rFifo[p] = <<>>
             \/ \E h \in Harts : Responds(h) /\ Dst(h) = p /\ rFifo[p] = <<Rsp(h)>>
  BY <1>3 DEF FabricInv, PortsAre, Idle, Has, Serving, Answering, Responding, Responds
<1>4. ASSUME NEW p \in Xbar!Ports
      PROVE  /\ Xbar!RR!Ready(p)
             /\ rFifo'[p] = IF Xbar!Answer(p, Cycle) = None THEN <<>> ELSE <<Xbar!Answer(p, Cycle)>>
  <2> DEFINE ans == Xbar!Answer(p, Cycle)
  <2> HIDE DEF ans
  <2>1. [q \in Xbar!Ports |-> Xbar!Answer(q, Cycle)][p] = ans
    BY DEF ans
  <2>2. CASE rFifo[p] = <<>>
    <3>1. ~Xbar!RR!Leaves(p, pass)
      <4>1. ~Xbar!RR!Dropped(p)
        BY <2>2 DEF Xbar!RR!Dropped, Xbar!RR!HasHead
      <4>2. \A h \in Harts : pass[h] # p
        <5> SUFFICES ASSUME NEW h \in Harts, pass[h] = p PROVE FALSE
          OBVIOUS
        <5>1. p # None
          BY PortsAreNats
        <5>2. Responds(h) /\ Dst(h) = p
          BY <1>1, <5>1
        <5>3. rFifo[p] = <<Rsp(h)>>
          BY <5>2 DEF Responds, Responding
        <5> QED
          BY <2>2, <5>3
      <4> QED
        BY <4>1, <4>2, PortsAreNats DEF Xbar!RR!Leaves
    <3>2. Xbar!RR!Ready(p)
      BY <2>2 DEF Xbar!RR!Ready
    <3>3. rFifo'[p] = IF ans # None THEN Append(<<>>, ans) ELSE <<>>
      BY <1>2, <2>1, <2>2, <3>1, <3>2 DEF Xbar!RR!FifoAfter
    <3> QED
      BY <3>2, <3>3 DEF ans
  <2>3. ASSUME NEW h \in Harts, Responds(h), Dst(h) = p, rFifo[p] = <<Rsp(h)>>
        PROVE  /\ Xbar!RR!Ready(p)
               /\ rFifo'[p] = IF ans = None THEN <<>> ELSE <<ans>>
    <3>1. Xbar!RR!Leaves(p, pass)
      BY <1>1, <2>3, PortsAreNats DEF Xbar!RR!Leaves
    <3> HIDE DEF Rsp
    <3>2. Xbar!RR!Ready(p)
      BY <2>3 DEF Xbar!RR!Ready
    <3>3. Tail(rFifo[p]) = <<>>
      BY <2>3
    <3>4. rFifo'[p] = IF ans # None THEN Append(<<>>, ans) ELSE <<>>
      BY <1>2, <2>1, <3>1, <3>2, <3>3 DEF Xbar!RR!FifoAfter
    <3> QED
      BY <3>2, <3>4
  <2> QED
    BY <1>3, <2>2, <2>3 DEF ans
<1>5. ASSUME NEW h \in Harts PROVE rGrant'[h] = None /\ rLock'[h] = None
  <2>1. rLock[h] = None
    BY DEF FabricInv, ResponsesFlow
  <2>2. CASE ~Responds(h)
    <3>1. Cycle.rOffer[h] = None /\ pass[h] = None
      BY <1>1, <2>2, ResponseFacts
    <3> QED
      BY <1>2, <2>1, <3>1 DEF Xbar!RR!LockAfter
  <2>3. CASE Responds(h)
    <3>1. sent[h] /\ rFifo[Dst(h)] = <<Rsp(h)>>
      BY <2>3 DEF Responds, Has, Responding
    <3>2. pass[h] = Dst(h) /\ Dst(h) # None
      <4>1. Dst(h) \in Xbar!Ports
        BY <3>1, PacketFacts DEF FabricInv, HartsAre
      <4> QED
        BY <1>1, <2>3, <4>1, PortsAreNats
    <3>3. ~Xbar!RR!HeadOf(Dst(h)).lock
      <4>1. Head(rFifo[Dst(h)]) = Rsp(h)
        BY <3>1
      <4>2. ~Rsp(h).lock
        BY DEF Rsp
      <4> QED
        BY <4>1, <4>2 DEF Xbar!RR!HeadOf
    <3> QED
      BY <1>2, <2>1, <3>1, <3>2, <3>3 DEF Xbar!RR!LockAfter
  <2> QED
    BY <2>2, <2>3
<1> QED
  BY <1>4, <1>5 DEF ResponsesFlow

(* What a memory is given, performs and acks.  Without the bypass that is   *)
(* the request in its interface; with it, also the one it takes.            *)
LEMMA CurrentFacts ==
  ASSUME FabricInv, NEW s \in Xbar!Slaves
  PROVE  /\ s \in Xbar!Ports /\ s # NumS
         /\ Cycle.cur[s] # None =>
              \E k \in Harts : /\ sent[k] /\ OnBus(k) /\ Dst(k) = s /\ Cycle.cur[s] = Req(k)
                               /\ (Has(s, k) /\ Serving(s, k)) \/ Taken(k)
         /\ Xbar!Accepts(s) => /\ lat[s] = None /\ ~ackR[s]
                               /\ Cycle.cur[s] # None => Cycle.cur[s] = Cycle.offered[s]
         /\ ~Xbar!Accepts(s) => Cycle.cur[s] = lat[s] /\ Cycle.beat[s] = beats[s]
         /\ Xbar!DoneBeat(s, Cycle) <=> ackR[s]
         /\ Xbar!Finishes(s, Cycle) <=> ackR[s]
<1>1. s \in Xbar!Ports /\ s # NumS
  BY PortsAreNats
<1>2. /\ Cycle.cur[s] = IF Bypass /\ Xbar!Accepts(s) /\ Cycle.offered[s] # None
                        THEN Cycle.offered[s] ELSE lat[s]
      /\ Cycle.beat[s] = IF Bypass /\ Xbar!Accepts(s) /\ Cycle.offered[s] # None
                         THEN 0 ELSE beats[s]
  BY <1>1 DEF Cycle, Xbar!Wires
<1>3. ackR[s] => lat[s] # None
  BY DEF FabricInv, MemoriesAre
<1>4. Xbar!Accepts(s) => lat[s] = None
  BY <1>1 DEF Xbar!Accepts, Xbar!Sink
<1>5. Cycle.cur[s] # None =>
        \E k \in Harts : /\ sent[k] /\ OnBus(k) /\ Dst(k) = s /\ Cycle.cur[s] = Req(k)
                         /\ (Has(s, k) /\ Serving(s, k)) \/ Taken(k)
  <2>1. CASE Cycle.cur[s] = lat[s]
    <3>1. lat[s] = At(s)
      BY <1>1 DEF At
    <3>2. lat[s] # None => \E k \in Harts : Has(s, k) /\ Serving(s, k) /\ lat[s] = Req(k)
      BY <1>1, <3>1 DEF FabricInv, PortsAre, Idle, Has, Serving, Answering, Responding
    <3> QED
      BY <2>1, <3>2 DEF FabricInv, HartsAre, Has
  <2>2. CASE /\ Cycle.cur[s] # lat[s] /\ Cycle.cur[s] = Cycle.offered[s]
             /\ Xbar!Accepts(s) /\ Cycle.offered[s] # None
    <3>1. Cycle.qOffer[s] # None
      BY <1>1, <2>2, OfferFacts
    <3> QED
      BY <1>1, <2>2, <3>1, OfferFacts DEF Taken
  <2> QED
    BY <1>2, <2>1, <2>2
<1>6. Xbar!DoneBeat(s, Cycle) <=> ackR[s]
  <2>1. ackR[s] \in BOOLEAN
    BY DEF FabricInv, FabricTypes
  <2> QED
    BY <1>2, <1>3, <1>4, <2>1 DEF Xbar!DoneBeat
<1>7. Xbar!Finishes(s, Cycle) <=> ackR[s]
  <2>1. ackR[s] => ~Cycle.cur[s].body.burst
    <3>1. \A k : ~Req(k).body.burst
      BY DEF Req
    <3> QED
      BY <1>5, <1>6, <3>1 DEF Xbar!DoneBeat
  <2> QED
    BY <1>6, <2>1 DEF Xbar!Finishes
<1> QED
  BY <1>1, <1>2, <1>3, <1>4, <1>5, <1>6, <1>7

(* A word changes by the writes its memory performs.                        *)
LEMMA WordAfter ==
  ASSUME FabricInv, NEW go, NEW next, NEW trap, Step(go, next, trap), NEW a \in Words
  PROVE  /\ mem'[a] \in Nat
         /\ mem'[a] \in {mem[a], mem[a] + 1}
         /\ DstOf[a] = NumS => mem'[a] = mem[a]
         /\ mem'[a] # mem[a] =>
              /\ DstOf[a] \in Xbar!Slaves /\ Xbar!Performs(DstOf[a], Cycle, go)
              /\ Cycle.cur[DstOf[a]].body.we /\ Cycle.cur[DstOf[a]].body.adr = a
         /\ \A s \in Xbar!Slaves :
              Xbar!Performs(s, Cycle, go) /\ Cycle.cur[s].body.we /\ Cycle.cur[s].body.adr = a =>
                mem'[a] = mem[a] + 1
<1>1. mem'[a] = Xbar!MemAfter(a, Cycle, go)
  BY DEF Step, Xbar!XbarClock
<1>2. mem[a] \in Nat
  BY DEF FabricInv, FabricTypes
<1>3. ASSUME NEW s \in Xbar!Slaves, Xbar!Performs(s, Cycle, go), Cycle.cur[s].body.adr = a
      PROVE  DstOf[a] = s /\ s # NumS
  <2>1. PICK k \in Harts : Dst(k) = s /\ Cycle.cur[s] = Req(k)
    BY <1>3, CurrentFacts DEF Xbar!Performs
  <2>2. Req(k).body.adr = acc[k].adr
    BY DEF Req
  <2> QED
    BY <1>3, <2>1, <2>2, CurrentFacts DEF Dst
<1> QED
  BY <1>1, <1>2, <1>3 DEF Xbar!MemAfter

(* A slave port that takes a request serves it.                             *)
LEMMA TakenAfter ==
  ASSUME FabricInv, NEW go, NEW next, NEW trap, Step(go, next, trap),
         NEW h \in Harts, Taken(h)
  PROVE  Serving(Dst(h), h)' /\ Has(Dst(h), h)' /\ Dst(h)' = Dst(h)
<1> DEFINE p == Dst(h)
<1>1. sent[h] /\ OnBus(h) /\ qFifo[h] # <<>> /\ p \in Xbar!Ports /\ Xbar!Accepts(p)
  BY RequestAfter, PacketFacts DEF Taken, FabricInv, HartsAre
<1>2. ~Responds(h)
  BY <1>1 DEF Responds, Has
<1>3. Req(h)' = Req(h) /\ p' = p
  BY <1>1, <1>2, AccessStays
<1>4. Cycle.offered[p] = Req(h) /\ Req(h) # None
  BY <1>1, OfferFacts, PacketFacts, PortsAreNats, ZenonT(60) DEF Taken
<1>5. sent'[h] /\ qFifo'[h] = <<>>
  BY <1>1, <1>2, RequestAfter
<1>6. At(p)' = Req(h) /\ Waiting(p)' = <<>> /\ rFifo'[p] = <<>>
  <2>1. CASE p = NumS
    <3>1. sink = None
      BY <1>1, <2>1 DEF Xbar!Accepts, Xbar!Sink
    <3>2. sink' = Req(h)
      BY <1>4, <2>1, <3>1 DEF Step, Xbar!XbarClock, Xbar!SinkAfter, Xbar!Sink
    <3>3. Xbar!Answer(p, Cycle) = None
      BY <2>1, <3>1 DEF Xbar!Answer, Xbar!Sink
    <3>4. rFifo'[p] = <<>>
      BY <1>1, <3>3, ResponseAfter
    <3> QED
      BY <1>3, <2>1, <3>2, <3>4 DEF At, Waiting
  <2>2. CASE p # NumS
    <3>1. p \in Xbar!Slaves
      BY <1>1, <2>2, PortsAreNats
    <3>2. lat[p] = None /\ rspq[p] = <<>>
      BY <1>1, <2>2 DEF Xbar!Accepts, Xbar!Sink
    <3>3. ~Xbar!DoneBeat(p, Cycle) /\ ~Xbar!Finishes(p, Cycle)
      BY <1>1, <3>1, CurrentFacts
    <3>4. lat'[p] = Req(h)
      BY <1>1, <1>4, <3>1, <3>3 DEF Step, Xbar!XbarClock, Xbar!LatAfter
    <3>5. rspq'[p] = <<>>
      BY <3>1, <3>2, <3>3 DEF Step, Xbar!XbarClock, Xbar!RspqAfter
    <3>6. Xbar!Answer(p, Cycle) = None
      BY <2>2, <3>2, <3>3 DEF Xbar!Answer, Xbar!Sink
    <3>7. rFifo'[p] = <<>>
      BY <1>1, <3>6, ResponseAfter
    <3> QED
      BY <1>3, <2>2, <3>4, <3>5, <3>7 DEF At, Waiting
  <2> QED
    BY <2>1, <2>2
<1>7. Serving(p, h)'
  BY <1>3, <1>6 DEF Serving
<1> QED
  BY <1>3, <1>5, <1>7 DEF Has

(* A slave port that serves an access or has its answer goes on to serve it *)
(* or to answer it; it has performed it when it answers.                    *)
LEMMA ServedAfter ==
  ASSUME FabricInv, NEW go, NEW next, NEW trap, Step(go, next, trap),
         NEW h \in Harts, Has(Dst(h), h), ~Responds(h)
  PROVE  /\ Has(Dst(h), h)' /\ Dst(h)' = Dst(h)
         /\ ~Xbar!Accepts(Dst(h))
         /\ Serving(Dst(h), h) /\ Dst(h) # NumS /\ ~ackR[Dst(h)] => Serving(Dst(h), h)'
         /\ ~(Serving(Dst(h), h) /\ Dst(h) # NumS /\ ~ackR[Dst(h)]) =>
              /\ mem'[acc[h].adr] = mem[acc[h].adr]
              /\ Answering(Dst(h), h)' \/ Responding(Dst(h), h)'
<1> DEFINE p == Dst(h)
<1>1. sent[h] /\ OnBus(h) /\ qFifo[h] = <<>> /\ p \in Xbar!Ports
  BY PacketFacts DEF Has, FabricInv, HartsAre
<1>2. /\ p' = p /\ Req(h)' = Req(h)
      /\ mem'[acc[h].adr] = mem[acc[h].adr] => Rsp(h)' = Rsp(h)
  BY <1>1, AccessStays
<1>3. sent'[h] /\ qFifo'[h] = <<>>
  BY <1>1, RequestAfter
<1>4. Req(h) # None /\ Rsp(h) # None /\ acc[h].adr \in Words /\ Dst(h) = DstOf[acc[h].adr]
  BY <1>1, PacketFacts DEF Dst
<1>5. rFifo[p] = <<>> /\ (Serving(p, h) \/ Answering(p, h))
  BY DEF Has, Responds, Serving, Answering
<1>6. ~Xbar!Accepts(p)
  BY <1>4, <1>5 DEF Serving, Answering, At, Waiting, Xbar!Accepts, Xbar!Sink
<1>7. CASE Serving(p, h) /\ p = NumS
  <2>1. sink = Req(h)
    BY <1>7 DEF Serving, At
  <2>2. mem'[acc[h].adr] = mem[acc[h].adr] /\ mem[acc[h].adr] = 0
    BY <1>4, <1>7, WordAfter DEF FabricInv, NothingElsewhere
  <2>3. Xbar!ErrRsp(Req(h)) = Rsp(h)
    BY <1>7, <2>2 DEF Xbar!ErrRsp, Req, Rsp, Xbar!Sink
  <2>4. Xbar!Answer(p, Cycle) = Rsp(h)
    BY <1>4, <1>7, <2>1, <2>3 DEF Xbar!Answer, Xbar!Sink
  <2>5. rFifo'[p] = <<Rsp(h)>> /\ Xbar!RR!Ready(p)
    BY <1>1, <1>4, <2>4, ResponseAfter
  <2>6. sink' = None
    BY <1>4, <1>7, <2>1, <2>5 DEF Step, Xbar!XbarClock, Xbar!SinkAfter, Xbar!Sink
  <2>7. Responding(p, h)'
    BY <1>2, <1>7, <2>2, <2>5, <2>6 DEF Responding, At, Waiting
  <2> QED
    BY <1>2, <1>3, <1>6, <1>7, <2>2, <2>7 DEF Has
<1>8. CASE Serving(p, h) /\ p # NumS
  <2>1. p \in Xbar!Slaves /\ lat[p] = Req(h) /\ rspq[p] = <<>>
    BY <1>1, <1>8, PortsAreNats DEF Serving, At, Waiting
  <2>2. Cycle.cur[p] = Req(h) /\ Cycle.beat[p] = 0
    BY <1>4, <1>6, <2>1, CurrentFacts DEF FabricInv, MemoriesAre
  <2>3. CASE ~ackR[p]
    <3>1. ~Xbar!DoneBeat(p, Cycle) /\ ~Xbar!Finishes(p, Cycle)
      BY <2>1, <2>3, CurrentFacts
    <3>2. lat'[p] = Req(h)
      BY <1>6, <2>1, <3>1 DEF Step, Xbar!XbarClock, Xbar!LatAfter
    <3>3. rspq'[p] = <<>>
      BY <2>1, <3>1 DEF Step, Xbar!XbarClock, Xbar!RspqAfter
    <3>4. Xbar!Answer(p, Cycle) = None
      BY <1>8, <2>1, <3>1 DEF Xbar!Answer, Xbar!Sink
    <3>5. rFifo'[p] = <<>>
      BY <1>1, <3>4, ResponseAfter
    <3>6. Serving(p, h)'
      BY <1>2, <1>8, <3>2, <3>3, <3>5 DEF Serving, At, Waiting
    <3> QED
      BY <1>2, <1>3, <1>6, <1>8, <2>3, <3>6 DEF Has
  <2>4. CASE ackR[p]
    <3>1. Xbar!DoneBeat(p, Cycle) /\ Xbar!Finishes(p, Cycle)
      BY <2>1, <2>4, CurrentFacts
    <3>2. lat'[p] = None
      BY <2>1, <3>1 DEF Step, Xbar!XbarClock, Xbar!LatAfter
    <3>3. mem'[acc[h].adr] = mem[acc[h].adr]
      <4>1. ~Xbar!Performs(p, Cycle, go)
        BY <2>4 DEF Xbar!Performs
      <4> QED
        BY <1>4, <4>1, WordAfter
    <3>4. Xbar!BeatRsp(p, Cycle) = Rsp(h)
      <4>1. aq[p] = mem[acc[h].adr]
        <5>1. Req(h).body.adr = acc[h].adr
          BY DEF Req
        <5> QED
          BY <2>1, <2>4, <5>1 DEF FabricInv, MemoriesAre
      <4>2. /\ Req(h).src = h /\ Req(h).body.adr = acc[h].adr
        BY DEF Req
      <4>3. Xbar!Finishes(p, Cycle) = TRUE
        BY <3>1 DEF Xbar!Finishes
      <4>4. (p = NumS) = FALSE
        BY <1>8
      <4> QED
        BY <2>2, <4>1, <4>2, <4>3, <4>4 DEF Xbar!BeatRsp, Rsp
    <3>5. rspq'[p] = IF Bypass THEN <<>> ELSE <<Rsp(h)>>
      <4>1. Xbar!Direct(p, Cycle) <=> Bypass
        BY <1>1, <2>1, <3>1, ResponseAfter, FabricAssumption DEF Xbar!Direct
      <4>2. rspq'[p] = Xbar!RspqAfter(p, Cycle)
        BY <2>1 DEF Step, Xbar!XbarClock
      <4>3. Xbar!RspqAfter(p, Cycle) = IF Bypass THEN <<>> ELSE Append(<<>>, Xbar!BeatRsp(p, Cycle))
        BY <2>1, <3>1, <4>1 DEF Xbar!RspqAfter
      <4> HIDE DEF Rsp
      <4> QED
        BY <3>4, <4>2, <4>3
    <3>6. Xbar!Answer(p, Cycle) = IF Bypass THEN Rsp(h) ELSE None
      BY <1>8, <2>1, <3>1, <3>4 DEF Xbar!Answer, Xbar!Sink
    <3>7. rFifo'[p] = IF Bypass THEN <<Rsp(h)>> ELSE <<>>
      <4> HIDE DEF Rsp
      <4>1. CASE Bypass
        BY <1>1, <1>4, <3>6, <4>1, ResponseAfter
      <4>2. CASE ~Bypass
        BY <1>1, <1>4, <3>6, <4>2, ResponseAfter
      <4> QED
        BY <4>1, <4>2
    <3>8. Answering(p, h)' \/ Responding(p, h)'
      <4> HIDE DEF Rsp
      <4>1. CASE Bypass
        BY <1>2, <1>8, <3>2, <3>3, <3>5, <3>7, <4>1 DEF Responding, At, Waiting
      <4>2. CASE ~Bypass
        BY <1>2, <1>8, <3>2, <3>3, <3>5, <3>7, <4>2 DEF Answering, At, Waiting
      <4> QED
        BY <4>1, <4>2
    <3> QED
      BY <1>2, <1>3, <1>6, <1>8, <2>4, <3>3, <3>8 DEF Has
  <2> QED
    BY <2>3, <2>4
<1>9. CASE Answering(p, h)
  <2>1. p # NumS /\ p \in Xbar!Slaves
    <3>1. <<Rsp(h)>> # <<>>
      OBVIOUS
    <3> QED
      BY <1>1, <1>9, <3>1, PortsAreNats DEF Answering, Waiting
  <2>2. lat[p] = None /\ rspq[p] = <<Rsp(h)>>
    BY <1>9, <2>1 DEF Answering, At, Waiting
  <2>3. /\ Cycle.cur[p] = None
        /\ ~Xbar!DoneBeat(p, Cycle) /\ ~Xbar!Finishes(p, Cycle) /\ ~Xbar!Performs(p, Cycle, go)
    BY <1>6, <2>1, <2>2, CurrentFacts DEF Xbar!DoneBeat, Xbar!Finishes, Xbar!Performs
  <2>4. mem'[acc[h].adr] = mem[acc[h].adr]
    BY <1>4, <2>3, WordAfter
  <2>5. lat'[p] = None
    BY <1>6, <2>1, <2>2, <2>3 DEF Step, Xbar!XbarClock, Xbar!LatAfter
  <2> HIDE DEF Rsp
  <2>6. Head(rspq[p]) = Rsp(h) /\ Tail(rspq[p]) = <<>> /\ rspq[p] # <<>>
    BY <2>2
  <2>7. rspq'[p] = <<>>
    BY <1>1, <2>1, <2>3, <2>6, ResponseAfter DEF Step, Xbar!XbarClock, Xbar!RspqAfter
  <2>8. Xbar!Answer(p, Cycle) = Rsp(h)
    BY <2>1, <2>6 DEF Xbar!Answer, Xbar!Sink
  <2>9. rFifo'[p] = <<Rsp(h)>>
    BY <1>1, <1>4, <2>8, ResponseAfter
  <2>10. Responding(p, h)'
    BY <1>2, <2>1, <2>4, <2>5, <2>7, <2>9 DEF Responding, At, Waiting
  <2>11. ~Serving(p, h)
    BY <1>4, <1>9 DEF Serving, Answering
  <2> QED
    BY <1>2, <1>3, <1>6, <2>4, <2>10, <2>11 DEF Has
<1> QED
  BY <1>5, <1>7, <1>8, <1>9

(* A slave port that serves nothing and is offered nothing is idle.         *)
LEMMA IdleAfter ==
  ASSUME FabricInv, NEW go, NEW next, NEW trap, Step(go, next, trap),
         NEW p \in Xbar!Ports, Xbar!Accepts(p), Cycle.qOffer[p] = None
  PROVE  Idle(p)'
<1>1. Cycle.offered[p] = None
  BY OfferFacts
<1>2. CASE p = NumS
  <2>1. sink = None
    BY <1>2 DEF Xbar!Accepts, Xbar!Sink
  <2>2. sink' = None
    BY <1>1, <1>2, <2>1 DEF Step, Xbar!XbarClock, Xbar!SinkAfter, Xbar!Sink
  <2>3. Xbar!Answer(p, Cycle) = None
    BY <1>2, <2>1 DEF Xbar!Answer, Xbar!Sink
  <2>4. rFifo'[p] = <<>>
    BY <2>3, ResponseAfter
  <2> QED
    BY <1>2, <2>2, <2>4 DEF Idle, At, Waiting
<1>3. CASE p # NumS
  <2>1. p \in Xbar!Slaves
    BY <1>3, PortsAreNats
  <2>2. lat[p] = None /\ rspq[p] = <<>>
    BY <1>3 DEF Xbar!Accepts, Xbar!Sink
  <2>3. ~Xbar!DoneBeat(p, Cycle) /\ ~Xbar!Finishes(p, Cycle)
    BY <2>1, CurrentFacts
  <2>4. lat'[p] = None
    BY <1>1, <2>1, <2>2, <2>3 DEF Step, Xbar!XbarClock, Xbar!LatAfter
  <2>5. rspq'[p] = <<>>
    BY <2>1, <2>2, <2>3 DEF Step, Xbar!XbarClock, Xbar!RspqAfter
  <2>6. Xbar!Answer(p, Cycle) = None
    BY <1>3, <2>2, <2>3 DEF Xbar!Answer, Xbar!Sink
  <2>7. rFifo'[p] = <<>>
    BY <2>6, ResponseAfter
  <2> QED
    BY <1>3, <2>4, <2>5, <2>7 DEF Idle, At, Waiting
<1> QED
  BY <1>2, <1>3

(* (Whether a hart's port is named by the hart or by its number.)           *)
LEMMA HasAfter ==
  ASSUME NEW p, NEW h, Dst(h)' = p
  PROVE  Has(p, h)' <=> Has(Dst(h), h)'
BY DEF Has, Serving, Answering, Responding, At, Waiting

(* So every port has one access at most after an edge, *)
LEMMA PortsAfter ==
  ASSUME FabricInv, NEW go, NEW next, NEW trap, Step(go, next, trap)
  PROVE  PortsAre'
<1> SUFFICES ASSUME NEW p \in Xbar!Ports
             PROVE  Idle(p)' \/ \E h \in Harts : Has(p, h)'
  BY DEF PortsAre
<1>1. ASSUME NEW h \in Harts, Has(p, h), ~Responds(h) PROVE Has(p, h)'
  <2>1. Dst(h) = p
    BY <1>1 DEF Has
  <2> QED
    BY <1>1, <2>1, ServedAfter, HasAfter
<1>2. ASSUME NEW h \in Harts, Taken(h), Dst(h) = p PROVE Has(p, h)'
  BY <1>2, TakenAfter, HasAfter
<1>3. Xbar!Accepts(p) \/ \E h \in Harts : Has(p, h) /\ ~Responds(h)
  <2>1. CASE Idle(p)
    BY <2>1 DEF Idle, At, Waiting, Xbar!Accepts, Xbar!Sink
  <2>2. ASSUME NEW h \in Harts, Has(p, h), Responds(h) PROVE Xbar!Accepts(p)
    <3>1. Responding(p, h)
      BY <2>2 DEF Responds, Has
    <3> QED
      BY <3>1 DEF Responding, At, Waiting, Xbar!Accepts, Xbar!Sink
  <2> QED
    BY <2>1, <2>2 DEF FabricInv, PortsAre
<1>4. CASE Xbar!Accepts(p) /\ Cycle.qOffer[p] = None
  BY <1>4, IdleAfter
<1>5. CASE Xbar!Accepts(p) /\ Cycle.qOffer[p] # None
  <2>1. PICK k \in Harts : Cycle.qOffer[p] = k /\ sent[k] /\ Dst(k) = p
    BY <1>5, OfferFacts
  <2> QED
    BY <1>2, <1>5, <2>1 DEF Taken
<1> QED
  BY <1>1, <1>3, <1>4, <1>5

(* an access that has been sent waits in its hart's queue or is at a port,  *)
LEMMA HartsAfter ==
  ASSUME FabricInv, NEW go, NEW next, NEW trap, Step(go, next, trap)
  PROVE  HartsAre'
<1> SUFFICES ASSUME NEW h \in Harts
             PROVE  /\ sent'[h] => OnBus(h)' /\ (qFifo'[h] = <<Req(h)'>> \/ Has(Dst(h), h)')
                    /\ ~sent'[h] => qFifo'[h] = <<>>
  BY DEF HartsAre
<1>1. ~sent'[h] => qFifo'[h] = <<>>
  <2>1. Responds(h) => qFifo[h] = <<>>
    BY DEF Responds, Has
  <2> QED
    BY <2>1, RequestAfter
<1>2. ASSUME sent'[h]
      PROVE  OnBus(h)' /\ (qFifo'[h] = <<Req(h)'>> \/ Has(Dst(h), h)')
  <2>1. OnBus(h) /\ ~Responds(h)
    BY <1>2, RequestAfter DEF FabricInv, HartsAre, Responds, Has
  <2>2. OnBus(h)' /\ Req(h)' = Req(h) /\ Dst(h)' = Dst(h)
    BY <2>1, AccessStays
  <2>3. CASE ~sent[h]
    BY <2>1, <2>2, <2>3, RequestAfter
  <2>4. CASE sent[h] /\ qFifo[h] # <<>> /\ ~Taken(h)
    BY <2>2, <2>4, RequestAfter
  <2>5. CASE Taken(h)
    BY <2>2, <2>5, TakenAfter
  <2>6. CASE sent[h] /\ qFifo[h] = <<>>
    <3>1. <<Req(h)>> # <<>>
      OBVIOUS
    <3>2. Has(Dst(h), h)
      BY <2>6, <3>1 DEF FabricInv, HartsAre
    <3> QED
      BY <2>1, <2>2, <3>2, ServedAfter
  <2> QED
    BY <2>3, <2>4, <2>5, <2>6
<1> QED
  BY <1>1, <1>2

(* a memory acks what it has performed, *)
LEMMA MemoriesAfter ==
  ASSUME FabricInv, NEW go, NEW next, NEW trap, Step(go, next, trap),
         NEW s \in Xbar!Slaves
  PROVE  /\ ackR'[s] \in BOOLEAN
         /\ ackR'[s] <=> Xbar!Performs(s, Cycle, go)
         /\ ackR'[s] => lat'[s] # None /\ lat'[s] = Cycle.cur[s]
                        /\ aq'[s] = mem'[lat'[s].body.adr]
         /\ lat'[s] # None => beats'[s] = 0
<1>1. /\ ackR'[s] = Xbar!Performs(s, Cycle, go)
      /\ lat'[s] = Xbar!LatAfter(s, Cycle)
      /\ beats'[s] = Xbar!BeatsAfter(s, Cycle)
      /\ aq'[s] = IF Xbar!Performs(s, Cycle, go)
                  THEN Xbar!MemAfter(Cycle.cur[s].body.adr, Cycle, go) ELSE aq[s]
  BY DEF Step, Xbar!XbarClock
<1>2. ackR[s] \in BOOLEAN /\ go[s] \in BOOLEAN
  BY DEF FabricInv, FabricTypes, Step, Readiness
<1>3. Xbar!Performs(s, Cycle, go) \in BOOLEAN
  BY <1>2 DEF Xbar!Performs
<1>4. ASSUME Xbar!Performs(s, Cycle, go)
      PROVE  /\ lat'[s] # None /\ lat'[s] = Cycle.cur[s]
             /\ aq'[s] = mem'[lat'[s].body.adr]
  <2>1. Cycle.cur[s] # None /\ ~ackR[s]
    BY <1>4 DEF Xbar!Performs
  <2>2. ~Xbar!Finishes(s, Cycle)
    BY <2>1, CurrentFacts
  <2>3. lat'[s] = Cycle.cur[s]
    BY <1>1, <2>1, <2>2, CurrentFacts DEF Xbar!LatAfter
  <2>4. Cycle.cur[s].body.adr \in Words
    <3>1. PICK k \in Harts : OnBus(k) /\ Cycle.cur[s] = Req(k)
      BY <2>1, CurrentFacts
    <3>2. Req(k).body.adr = acc[k].adr
      BY DEF Req
    <3> QED
      BY <3>1, <3>2, PacketFacts
  <2>5. mem'[Cycle.cur[s].body.adr] = Xbar!MemAfter(Cycle.cur[s].body.adr, Cycle, go)
    BY <2>4 DEF Step, Xbar!XbarClock
  <2> QED
    BY <1>1, <1>4, <2>1, <2>3, <2>5
<1>5. lat'[s] # None => beats'[s] = 0
  <2>1. lat[s] # None => beats[s] = 0
    BY DEF FabricInv, MemoriesAre
  <2> QED
    BY <1>1, <2>1, CurrentFacts DEF Xbar!LatAfter, Xbar!BeatsAfter
<1> QED
  BY <1>1, <1>3, <1>4, <1>5

(* and a grant that is held is for a request that waits and may pass: a     *)
(* lock is set or cleared only by a packet that leaves, and then nothing is *)
(* held there.                                                              *)
LEMMA GrantAfter ==
  ASSUME FabricInv, NEW go, NEW next, NEW trap, Step(go, next, trap),
         NEW p \in Xbar!Ports
  PROVE  /\ qGrant'[p] = IF Xbar!Accepts(p) THEN None ELSE Cycle.qOffer[p]
         /\ qLock'[p] = IF Xbar!Accepts(p) /\ Cycle.qOffer[p] # None
                        THEN IF Req(Cycle.qOffer[p]).lock THEN Cycle.qOffer[p] ELSE None
                        ELSE qLock[p]
<1> DEFINE rdy == [o \in Xbar!Ports |-> Xbar!Accepts(o)]
           pass == [o \in Xbar!QR!Outputs |-> IF rdy[o] THEN Cycle.qOffer[o] ELSE None]
<1>1. pass[p] = IF Xbar!Accepts(p) THEN Cycle.qOffer[p] ELSE None
  BY PortsAreNats
<1>2. /\ qLock'[p] = Xbar!QR!LockAfter(p, pass)
      /\ qGrant'[p] = IF Xbar!Accepts(p) THEN None ELSE Cycle.qOffer[p]
  BY PortsAreNats DEF Step, Xbar!XbarClock, Xbar!QR!Clock, Xbar!QR!Update
<1> HIDE DEF pass
<1>3. CASE pass[p] = None
  BY <1>1, <1>2, <1>3 DEF Xbar!QR!LockAfter
<1>4. CASE pass[p] # None
  <2> DEFINE k == Cycle.qOffer[p]
  <2>1. k # None /\ Xbar!Accepts(p) /\ pass[p] = k
    BY <1>1, <1>4
  <2>2. qFifo[k] = <<Req(k)>> /\ qLock[p] \in {None, k}
    BY <2>1, OfferFacts
  <2>3. Xbar!QR!HeadOf(k) = Req(k) /\ Req(k).src = k
    <3>1. Head(qFifo[k]) = Req(k)
      BY <2>2
    <3> QED
      BY <3>1 DEF Xbar!QR!HeadOf, Req
  <2> HIDE DEF k
  <2>4. qLock'[p] = IF Req(k).lock THEN k ELSE None
    BY <1>2, <2>1, <2>2, <2>3 DEF Xbar!QR!LockAfter
  <2> QED
    BY <1>2, <2>1, <2>4 DEF k
<1> QED
  BY <1>3, <1>4

(* A port that chooses a head without taking it holds it for the next cycle.*)
LEMMA GrantsAfter ==
  ASSUME FabricInv, NEW go, NEW next, NEW trap, Step(go, next, trap)
  PROVE  GrantsAre' /\ qLock' \in [Xbar!Ports -> Harts \cup {None}]
<1>1. ASSUME NEW p \in Xbar!Ports, qGrant'[p] # None
      PROVE  \E k \in Harts : /\ k = qGrant'[p]
                              /\ sent'[k] /\ qFifo'[k] = <<Req(k)'>>
                              /\ Dst(k)' = p
                              /\ qLock'[p] \in {None, k}
  <2>1. ~Xbar!Accepts(p) /\ Cycle.qOffer[p] # None /\ qGrant'[p] = Cycle.qOffer[p]
        /\ qLock'[p] = qLock[p]
    BY <1>1, GrantAfter
  <2>2. PICK k \in Harts : /\ k = qGrant'[p] /\ sent[k] /\ OnBus(k) /\ qFifo[k] = <<Req(k)>>
                           /\ Dst(k) = p /\ qLock[p] \in {None, k}
    BY <2>1, OfferFacts
  <2>3. qFifo[k] # <<>> /\ ~Taken(k) /\ ~Responds(k)
    <3>1. qFifo[k] # <<>>
      BY <2>2
    <3> QED
      BY <2>1, <2>2, <3>1 DEF Taken, Responds, Has
  <2>4. Req(k)' = Req(k) /\ Dst(k)' = Dst(k)
    BY <2>2, <2>3, AccessStays
  <2>5. sent'[k] /\ qFifo'[k] = <<Req(k)>>
    BY <2>2, <2>3, RequestAfter
  <2> QED
    BY <2>1, <2>2, <2>4, <2>5
<1>2. qLock' \in [Xbar!Ports -> Harts \cup {None}]
  <2>1. \A p \in Xbar!Ports : qLock'[p] \in Harts \cup {None}
    BY GrantAfter, OfferFacts DEF FabricInv, FabricTypes
  <2>2. qLock' = [p \in Xbar!Ports |-> qLock'[p]]
    BY PortsAreNats DEF Step, Xbar!XbarClock, Xbar!QR!Clock, Xbar!QR!Update
  <2> QED
    BY <2>1, <2>2
<1>3. \A k, p : k = qGrant'[p] => Req(qGrant[p])' = Req(k)' /\ Dst(qGrant[p])' = Dst(k)'
  BY DEF Req, Dst, DmemRmw, DmemWe, IsStore
<1> QED
  BY <1>1, <1>2, <1>3 DEF GrantsAre

(* The fabric keeps its invariant at an edge, *)
LEMMA FabricInvAfter ==
  ASSUME FabricInv, NEW go, NEW next, NEW trap, Step(go, next, trap)
  PROVE  FabricInv'
<1>1. HartInv'
  BY AckFacts, HartInvAfter DEF Step, FabricInv
<1>2. MemoriesAre'
  BY MemoriesAfter DEF MemoriesAre
<1>3. NothingElsewhere'
  BY WordAfter DEF NothingElsewhere, FabricInv
<1>4. FabricTypes'
  <2>1. sent' = [h \in Harts |-> sent'[h]]
    BY PortsAreNats DEF Step, Xbar!XbarClock
  <2>2. sent' \in [Harts -> BOOLEAN]
    BY <2>1, RequestAfter
  <2>3. ackR' = [s \in Xbar!Slaves |-> ackR'[s]] /\ mem' = [a \in Words |-> mem'[a]]
    BY DEF Step, Xbar!XbarClock
  <2>4. ackR' \in [Xbar!Slaves -> BOOLEAN] /\ mem' \in [Words -> Nat]
    BY <2>3, MemoriesAfter, WordAfter
  <2> QED
    BY <2>2, <2>4, GrantsAfter DEF FabricTypes
<1> QED
  BY <1>1, <1>2, <1>3, <1>4, PortsAfter, HartsAfter, GrantsAfter, ResponseAfter DEF FabricInv

(* reset starts it, *)
LEMMA InitFabricInv ==
  ASSUME Init
  PROVE  FabricInv
<1>1. HartInit /\ Xbar!XbarInit
  BY DEF Init
<1>2. HartInv
  BY <1>1, InitHartInv
<1>3. /\ sent = [h \in Harts |-> FALSE] /\ qFifo = [h \in Harts |-> <<>>]
      /\ qLock = [p \in Xbar!Ports |-> None] /\ qGrant = [p \in Xbar!Ports |-> None]
      /\ rFifo = [p \in Xbar!Ports |-> <<>>]
      /\ rLock = [h \in Harts |-> None] /\ rGrant = [h \in Harts |-> None]
      /\ lat = [s \in Xbar!Slaves |-> None] /\ rspq = [s \in Xbar!Slaves |-> <<>>]
      /\ sink = None /\ ackR = [s \in Xbar!Slaves |-> FALSE]
      /\ mem = [a \in Words |-> 0]
  BY <1>1, PortsAreNats DEF Xbar!XbarInit, Xbar!QR!Init, Xbar!RR!Init
<1>4. PortsAre
  BY <1>3, PortsAreNats DEF PortsAre, Idle, At, Waiting
<1>5. HartsAre /\ MemoriesAre /\ GrantsAre /\ ResponsesFlow /\ NothingElsewhere
  BY <1>3 DEF HartsAre, MemoriesAre, GrantsAre, ResponsesFlow, NothingElsewhere
<1>6. FabricTypes
  BY <1>3 DEF FabricTypes
<1> QED
  BY <1>2, <1>4, <1>5, <1>6 DEF FabricInv

(* and nothing changes it when nothing steps.                               *)
LEMMA QuietFabricInv ==
  ASSUME FabricInv, UNCHANGED vars
  PROVE  FabricInv' /\ UNCHANGED hartVars
         /\ UNCHANGED <<sent, qFifo, qLock, qGrant, rFifo, rLock, rGrant>>
         /\ UNCHANGED <<lat, beats, rspq, sink, ackR, aq, mem>>
<1>1. /\ UNCHANGED hartVars
      /\ UNCHANGED <<sent, qFifo, qLock, qGrant, rFifo, rLock, rGrant>>
      /\ UNCHANGED <<lat, beats, rspq, sink, ackR, aq, mem>>
  BY DEF vars, Xbar!xbarVars, Xbar!qVars, Xbar!rVars, Xbar!slaveVars
<1>2. HartInv'
  BY <1>1, QuietHartInv DEF FabricInv
<1>3. UNCHANGED <<acc, wr, pend, hit>>
  BY <1>1 DEF hartVars
<1>4. \A h : Dst(h)' = Dst(h) /\ OnBus(h)' = OnBus(h) /\ DmemWe(h)' = DmemWe(h)
             /\ DmemRmw(h)' = DmemRmw(h)
  BY <1>3 DEF Dst, OnBus, DmemWe, IsStore, DmemRmw
<1>5. \A h : Req(h)' = Req(h) /\ Rsp(h)' = Rsp(h)
  BY <1>1, <1>3, <1>4 DEF Req, Rsp
<1>6. \A p : At(p)' = At(p) /\ Waiting(p)' = Waiting(p)
  BY <1>1 DEF At, Waiting
<1>7. \A p, h : Has(p, h)' = Has(p, h)
  BY <1>1, <1>4, <1>5, <1>6 DEF Has, Serving, Answering, Responding
<1>8. \A p : Idle(p)' = Idle(p)
  BY <1>1, <1>6 DEF Idle
<1>9. PortsAre' /\ HartsAre'
  BY <1>1, <1>4, <1>5, <1>7, <1>8 DEF FabricInv, PortsAre, HartsAre
<1>10. MemoriesAre' /\ GrantsAre'
  BY <1>1, <1>4, <1>5 DEF FabricInv, MemoriesAre, GrantsAre
<1>11. ResponsesFlow' /\ NothingElsewhere' /\ FabricTypes'
  BY <1>1 DEF FabricInv, ResponsesFlow, NothingElsewhere, FabricTypes
<1> QED
  BY <1>1, <1>2, <1>9, <1>10, <1>11 DEF FabricInv

(* What Next does is a step.                                                *)
LEMMA NextIsStep ==
  ASSUME Next
  PROVE  \E go, next, trap : Step(go, next, trap)
<1>1. PICK go \in Readiness : Xbar!XbarClock(Cycle, go)
  BY DEF Next, Cycle
<1>2. PICK next \in Issues(Ack(Cycle)), trap \in SUBSET Trappable(Ack(Cycle)) :
        HartClock(Ack(Cycle), OthersWrites(Cycle), next, trap)
  BY DEF Next, Cycle
<1>3. trap \in SUBSET FreeHarts(Ack(Cycle))
  BY <1>2 DEF Trappable
<1> QED
  BY <1>1, <1>2, <1>3 DEF Step, HartStep

(* The routers, interfaces and memories are always so: no packet is lost or *)
(* made twice between a hart and a word.                                    *)
THEOREM FabricInvariance == Spec => []FabricInv
<1>1. Init => FabricInv
  BY InitFabricInv
<1>2. FabricInv /\ [Next]_vars => FabricInv'
  BY FabricInvAfter, NextIsStep, QuietFabricInv
<1> QED
  BY <1>1, <1>2, PTL DEF Spec

(* What is on the way for a hart, part by part.                             *)
LEMMA InFlightFacts ==
  ASSUME FabricInv, NEW h \in Harts, NEW x
  PROVE  x \in InFlight(h) <=>
           \/ qFifo[h] # <<>> /\ x = <<"request", 1>>
           \/ /\ Has(Dst(h), h)
              /\ \/ Serving(Dst(h), h) /\ Dst(h) # NumS /\ x = <<"slave", Dst(h)>>
                 \/ Serving(Dst(h), h) /\ Dst(h) = NumS /\ x = <<"sink">>
                 \/ Answering(Dst(h), h) /\ x = <<"answer", Dst(h), 1>>
                 \/ Responding(Dst(h), h) /\ x = <<"response", Dst(h), 1>>
<1> DEFINE d == Dst(h)
<1>1. \A k : Req(k).src = k /\ Rsp(k).dst = k
  BY DEF Req, Rsp
<1>2. Has(d, h) => d \in Xbar!Ports /\ Req(h) # None
  BY PacketFacts DEF Has, FabricInv, HartsAre
<1>3. DOMAIN qFifo[h] = IF qFifo[h] # <<>> THEN {1} ELSE {}
  <2>1. qFifo[h] = <<>> \/ qFifo[h] = <<Req(h)>>
    BY DEF FabricInv, HartsAre, Has
  <2> HIDE DEF Req
  <2>2. CASE qFifo[h] = <<>>
    BY <2>2
  <2>3. CASE qFifo[h] = <<Req(h)>>
    BY <2>3
  <2> QED
    BY <2>1, <2>2, <2>3
<1>4. ASSUME NEW q \in Xbar!Ports
      PROVE  /\ At(q) # None /\ At(q).src = h <=> q = d /\ Has(d, h) /\ Serving(d, h)
             /\ \A n : n \in DOMAIN Waiting(q) /\ Waiting(q)[n].dst = h <=>
                         n = 1 /\ q = d /\ Has(d, h) /\ Answering(d, h)
             /\ \A n : n \in DOMAIN rFifo[q] /\ rFifo[q][n].dst = h <=>
                         n = 1 /\ q = d /\ Has(d, h) /\ Responding(d, h)
  <2>1. CASE Idle(q)
    <3>1. At(q) = None /\ Waiting(q) = <<>> /\ rFifo[q] = <<>>
      BY <2>1 DEF Idle
    <3>2. ~(q = d /\ Has(d, h))
      <4>1. <<Rsp(h)>> # <<>>
        OBVIOUS
      <4> QED
        BY <1>2, <3>1, <4>1 DEF Has, Serving, Answering, Responding
    <3> QED
      BY <3>1, <3>2
  <2>2. ASSUME NEW k \in Harts, Has(q, k)
        PROVE  /\ At(q) # None /\ At(q).src = h <=> q = d /\ Has(d, h) /\ Serving(d, h)
               /\ \A n : n \in DOMAIN Waiting(q) /\ Waiting(q)[n].dst = h <=>
                           n = 1 /\ q = d /\ Has(d, h) /\ Answering(d, h)
               /\ \A n : n \in DOMAIN rFifo[q] /\ rFifo[q][n].dst = h <=>
                           n = 1 /\ q = d /\ Has(d, h) /\ Responding(d, h)
    <3>1. q = Dst(k) /\ Req(k) # None
      BY <2>2, PacketFacts DEF Has, FabricInv, HartsAre
    <3>2. q = d /\ Has(d, h) <=> k = h
      BY <2>2, <3>1, PortHasOne
    <3> HIDE DEF Req, Rsp
    <3>3. <<Rsp(k)>> # <<>> /\ DOMAIN <<Rsp(k)>> = {1} /\ <<Rsp(k)>>[1] = Rsp(k)
      OBVIOUS
    <3>4. CASE Serving(q, k)
      <4>1. At(q) = Req(k) /\ Waiting(q) = <<>> /\ rFifo[q] = <<>>
        BY <3>4 DEF Serving
      <4>2. ~Answering(q, k) /\ ~Responding(q, k)
        BY <3>1, <4>1 DEF Answering, Responding
      <4> QED
        BY <1>1, <3>1, <3>2, <3>4, <4>1, <4>2
    <3>5. CASE Answering(q, k)
      <4>1. At(q) = None /\ Waiting(q) = <<Rsp(k)>> /\ rFifo[q] = <<>>
        BY <3>5 DEF Answering
      <4>2. ~Serving(q, k) /\ ~Responding(q, k)
        BY <3>1, <3>3, <4>1 DEF Serving, Responding
      <4> QED
        BY <1>1, <3>1, <3>2, <3>3, <3>5, <4>1, <4>2
    <3>6. CASE Responding(q, k)
      <4>1. At(q) = None /\ Waiting(q) = <<>> /\ rFifo[q] = <<Rsp(k)>>
        BY <3>6 DEF Responding
      <4>2. ~Serving(q, k) /\ ~Answering(q, k)
        BY <3>1, <3>3, <4>1 DEF Serving, Answering
      <4> QED
        BY <1>1, <3>1, <3>2, <3>3, <3>6, <4>1, <4>2
    <3> QED
      BY <2>2, <3>4, <3>5, <3>6 DEF Has
  <2> QED
    BY <2>1, <2>2 DEF FabricInv, PortsAre
<1>5. \A s \in Xbar!Slaves : s \in Xbar!Ports /\ At(s) = lat[s] /\ Waiting(s) = rspq[s]
  BY PortsAreNats DEF At, Waiting
<1>6. NumS \in Xbar!Ports /\ At(NumS) = sink /\ Waiting(NumS) = <<>>
  BY PortsAreNats DEF At, Waiting
<1>7. \A s \in Xbar!Slaves : lat[s] # None /\ lat[s].src = h <=> s = d /\ Has(d, h) /\ Serving(d, h)
  BY <1>4, <1>5
<1>8. sink # None /\ sink.src = h <=> d = NumS /\ Has(d, h) /\ Serving(d, h)
  BY <1>4, <1>6
<1>9. \A s \in Xbar!Slaves : \A n : n \in DOMAIN rspq[s] /\ rspq[s][n].dst = h <=>
        n = 1 /\ s = d /\ Has(d, h) /\ Answering(d, h)
  BY <1>4, <1>5
<1>10. \A q \in Xbar!Ports : \A n : n \in DOMAIN rFifo[q] /\ rFifo[q][n].dst = h <=>
         n = 1 /\ q = d /\ Has(d, h) /\ Responding(d, h)
  BY <1>4
<1>11. Has(d, h) /\ Answering(d, h) => d # NumS
  <2>1. <<Rsp(h)>> # <<>>
    OBVIOUS
  <2> QED
    BY <1>6, <2>1 DEF Answering
<1>12. Has(d, h) /\ d # NumS => d \in Xbar!Slaves
  BY <1>2, PortsAreNats
<1> HIDE DEF d
<1> DEFINE requests == {<<"request", n>> : n \in DOMAIN qFifo[h]}
           slaves == {<<"slave", s>> : s \in {t \in Xbar!Slaves : lat[t] # None /\ lat[t].src = h}}
           sinks == IF sink # None /\ sink.src = h THEN {<<"sink">>} ELSE {}
           answers == UNION {{<<"answer", s, n>> : n \in {k \in DOMAIN rspq[s] : rspq[s][k].dst = h}} :
                              s \in Xbar!Slaves}
           responses == UNION {{<<"response", p, n>> : n \in {k \in DOMAIN rFifo[p] : rFifo[p][k].dst = h}} :
                                p \in Xbar!Ports}
<1>13. x \in requests <=> qFifo[h] # <<>> /\ x = <<"request", 1>>
  BY <1>3
<1>14. x \in slaves <=> Has(d, h) /\ Serving(d, h) /\ d # NumS /\ x = <<"slave", d>>
  BY <1>7, <1>12, PortsAreNats
<1>15. x \in sinks <=> Has(d, h) /\ Serving(d, h) /\ d = NumS /\ x = <<"sink">>
  BY <1>8
<1>16. x \in answers <=> Has(d, h) /\ Answering(d, h) /\ x = <<"answer", d, 1>>
  BY <1>9, <1>11, <1>12
<1>17. x \in responses <=> Has(d, h) /\ Responding(d, h) /\ x = <<"response", d, 1>>
  BY <1>2, <1>10 DEF d
<1>18. InFlight(h) = requests \cup slaves \cup sinks \cup answers \cup responses
  BY DEF InFlight
<1> HIDE DEF requests, slaves, sinks, answers, responses
<1> QED
  BY <1>13, <1>14, <1>15, <1>16, <1>17, <1>18 DEF d

(* Every access is one packet until its ack (wb_noc_xbar.v: the interfaces, *)
(* the two routers, the memories and the error sink, in every state).       *)
THEOREM FabricHasOneOutstanding == Spec => []OneOutstanding
<1>1. ASSUME FabricInv PROVE OneOutstanding
  <2>1. ASSUME NEW h \in Harts, ~sent[h] PROVE Cardinality(InFlight(h)) = 0
    <3>1. qFifo[h] = <<>> /\ ~Has(Dst(h), h)
      BY <1>1, <2>1 DEF FabricInv, HartsAre, Has
    <3>2. InFlight(h) = {}
      BY <1>1, <3>1, InFlightFacts
    <3> QED
      BY <3>2, FS_EmptySet
  <2>2. ASSUME NEW h \in Harts, sent[h] PROVE Cardinality(InFlight(h)) = 1
    <3>1. PICK x : InFlight(h) = {x}
      <4>1. CASE qFifo[h] # <<>>
        <5>1. ~Has(Dst(h), h)
          BY <4>1 DEF Has
        <5>2. InFlight(h) = {<<"request", 1>>}
          BY <1>1, <4>1, <5>1, InFlightFacts
        <5> QED
          BY <5>2
      <4>2. CASE qFifo[h] = <<>>
        <5>1. Has(Dst(h), h) /\ Req(h) # None /\ <<Rsp(h)>> # <<>>
          <6>1. qFifo[h] # <<Req(h)>>
            BY <4>2
          <6>2. OnBus(h) /\ Has(Dst(h), h)
            BY <1>1, <2>2, <6>1 DEF FabricInv, HartsAre
          <6> QED
            BY <1>1, <6>2, PacketFacts
        <5>2. CASE Serving(Dst(h), h)
          <6>1. ~Answering(Dst(h), h) /\ ~Responding(Dst(h), h)
            BY <5>1, <5>2 DEF Serving, Answering, Responding
          <6>2. CASE Dst(h) = NumS
            <7>1. InFlight(h) = {<<"sink">>}
              BY <1>1, <4>2, <5>1, <5>2, <6>1, <6>2, InFlightFacts
            <7> QED
              BY <7>1
          <6>3. CASE Dst(h) # NumS
            <7>1. InFlight(h) = {<<"slave", Dst(h)>>}
              BY <1>1, <4>2, <5>1, <5>2, <6>1, <6>3, InFlightFacts
            <7> QED
              BY <7>1
          <6> QED
            BY <6>2, <6>3
        <5>3. CASE Answering(Dst(h), h)
          <6>1. ~Serving(Dst(h), h) /\ ~Responding(Dst(h), h)
            BY <5>1, <5>3 DEF Serving, Answering, Responding
          <6>2. InFlight(h) = {<<"answer", Dst(h), 1>>}
            BY <1>1, <4>2, <5>1, <5>3, <6>1, InFlightFacts
          <6> QED
            BY <6>2
        <5>4. CASE Responding(Dst(h), h)
          <6>1. ~Serving(Dst(h), h) /\ ~Answering(Dst(h), h)
            BY <5>1, <5>4 DEF Serving, Answering, Responding
          <6>2. InFlight(h) = {<<"response", Dst(h), 1>>}
            BY <1>1, <4>2, <5>1, <5>4, <6>1, InFlightFacts
          <6> QED
            BY <6>2
        <5> QED
          BY <5>1, <5>2, <5>3, <5>4 DEF Has
      <4> QED
        BY <4>1, <4>2
    <3> QED
      BY <3>1, FS_Singleton
  <2>3. \A h \in Harts : sent[h] => OnBus(h)
    BY <1>1 DEF FabricInv, HartsAre
  <2> QED
    BY <2>1, <2>2, <2>3 DEF OneOutstanding
<1> QED
  BY <1>1, FabricInvariance, PTL

(* An ack that comes to a hart carries the newest version of its word       *)
(* (cpu_wb.v, SNOOP_LATE_ACK: the late ack that it guards against does not  *)
(* come from this fabric).                                                  *)
THEOREM FabricAcksAreTimely == Spec => []AcksAreTimely
<1>1. ASSUME FabricInv PROVE AcksAreTimely
  <2> SUFFICES ASSUME NEW h \in Harts, Xbar!Acked(h, Cycle) # None
               PROVE  Xbar!Acked(h, Cycle).body.ver = mem[acc[h].adr]
    BY DEF AcksAreTimely, Cycle
  <2>1. Xbar!Acked(h, Cycle) = Rsp(h)
    BY <1>1, AckFacts
  <2> QED
    BY <2>1 DEF Rsp
<1> QED
  BY <1>1, FabricInvariance, PTL
-----------------------------------------------------------------------------
(* The caches. *)

(* A memory acks a write on a in this cycle; hart h's write is performed,   *)
(* and h has not been told.                                                 *)
Owes(a) == \E s \in Xbar!Slaves : ackR[s] /\ lat[s].body.we /\ lat[s].body.adr = a

Performed(h) ==
  /\ Has(Dst(h), h) /\ Dst(h) # NumS /\ DmemWe(h)
  /\ ~Serving(Dst(h), h) \/ ackR[Dst(h)]

(* How far behind memory hart h's line of a may be: by the write that is    *)
(* being acked, which h's cache snoops in this cycle, or by h's own, whose  *)
(* ack will update the line.                                                *)
Lags(h, a) == Owes(a) \/ (Performed(h) /\ acc[h].adr = a)

(* Every valid line is the newest version of its word, or lags it by one.   *)
LinesAreNewest ==
  \A h \in Harts : \A x \in valid[h] :
    line[h][x].ver + (IF Lags(h, line[h][x].adr) THEN 1 ELSE 0) = mem[line[h][x].adr]

(* What is being acked, no hart has been told of yet.                       *)
NotYetKnown ==
  \A a \in Words : known[a] + (IF Owes(a) THEN 1 ELSE 0) <= mem[a]

(* The second layer of the invariant.                                       *)
CacheInv ==
  /\ LinesArePlaced /\ LinesAreNewest
  /\ KnownUpTo(mem) /\ HitsUpTo(mem) /\ NotYetKnown
  /\ ReadsAreFresh

(* A write that a memory performs at an edge is the one it acks next.       *)
LEMMA OwesAfter ==
  ASSUME FabricInv, NEW go, NEW next, NEW trap, Step(go, next, trap), NEW a \in Words
  PROVE  mem'[a] = mem[a] + (IF Owes(a)' THEN 1 ELSE 0)
<1>1. Owes(a)' <=> \E s \in Xbar!Slaves :
        Xbar!Performs(s, Cycle, go) /\ Cycle.cur[s].body.we /\ Cycle.cur[s].body.adr = a
  BY MemoriesAfter DEF Owes
<1>2. mem'[a] = Xbar!MemAfter(a, Cycle, go) /\ mem[a] \in Nat
  BY DEF Step, Xbar!XbarClock, FabricInv, FabricTypes
<1> QED
  BY <1>1, <1>2 DEF Xbar!MemAfter

(* A performed write stays so until its hart is told, and its word as it    *)
(* was; one that has been performed just now is acked now.                  *)
LEMMA PerformedAfter ==
  ASSUME FabricInv, NEW go, NEW next, NEW trap, Step(go, next, trap), NEW h \in Harts
  PROVE  /\ Performed(h) /\ ~Responds(h) =>
              /\ Performed(h)' /\ acc'[h] = acc[h] /\ mem'[acc[h].adr] = mem[acc[h].adr]
         /\ Performed(h)' =>
              /\ OnBus(h) /\ ~Responds(h) /\ sent[h]
              /\ acc'[h] = acc[h] /\ DmemWe(h)' = DmemWe(h) /\ Dst(h)' = Dst(h)
              /\ DmemWe(h) /\ Dst(h) # NumS
              /\ Performed(h) \/ Owes(acc[h].adr)'
<1>1. ASSUME Performed(h), ~Responds(h)
      PROVE  Performed(h)' /\ acc'[h] = acc[h] /\ mem'[acc[h].adr] = mem[acc[h].adr]
  <2>1. Has(Dst(h), h) /\ ~(Serving(Dst(h), h) /\ Dst(h) # NumS /\ ~ackR[Dst(h)])
    BY <1>1 DEF Performed
  <2>2. OnBus(h)
    BY <2>1 DEF Has, FabricInv, HartsAre
  <2>3. /\ Has(Dst(h), h)' /\ Dst(h)' = Dst(h)
        /\ mem'[acc[h].adr] = mem[acc[h].adr]
        /\ Answering(Dst(h), h)' \/ Responding(Dst(h), h)'
    BY <1>1, <2>1, ServedAfter
  <2>4. acc'[h] = acc[h] /\ DmemWe(h)' = DmemWe(h)
    BY <1>1, <2>2, AccessStays
  <2>5. ~Serving(Dst(h), h)'
    <3>1. OnBus(h)' /\ Req(h)' = Req(h) /\ Req(h) # None
      BY <1>1, <2>2, AccessStays, PacketFacts
    <3> QED
      BY <2>3, <3>1 DEF Serving, Answering, Responding
  <2>6. Dst(h)' # NumS /\ DmemWe(h)'
    BY <1>1, <2>3, <2>4 DEF Performed
  <2> QED
    BY <2>3, <2>4, <2>5, <2>6 DEF Performed
<1>2. ASSUME Performed(h)'
      PROVE  /\ OnBus(h) /\ ~Responds(h) /\ sent[h]
             /\ acc'[h] = acc[h] /\ DmemWe(h)' = DmemWe(h) /\ Dst(h)' = Dst(h)
             /\ DmemWe(h) /\ Dst(h) # NumS
             /\ Performed(h) \/ Owes(acc[h].adr)'
  <2>1. sent'[h] /\ qFifo'[h] = <<>>
    BY <1>2 DEF Performed, Has
  <2>2. sent[h] /\ ~Responds(h) /\ (qFifo[h] = <<>> \/ Taken(h))
    <3>1. <<Req(h)>> # <<>>
      OBVIOUS
    <3> QED
      BY <2>1, <3>1, RequestAfter
  <2>3. OnBus(h)
    BY <2>2 DEF FabricInv, HartsAre
  <2>4. /\ acc'[h] = acc[h] /\ DmemWe(h)' = DmemWe(h) /\ Dst(h)' = Dst(h)
        /\ Req(h)' = Req(h)
    BY <2>2, <2>3, AccessStays
  <2>5. DmemWe(h) /\ Dst(h) # NumS
    <3>1. DmemWe(h)' /\ Dst(h)' # NumS
      BY <1>2 DEF Performed
    <3> QED
      BY <2>4, <3>1
  <2>6. Serving(Dst(h), h)' => Owes(acc[h].adr)'
    <3> SUFFICES ASSUME Serving(Dst(h), h)' PROVE Owes(acc[h].adr)'
      OBVIOUS
    <3>1. Dst(h) \in Xbar!Slaves
      BY <2>3, <2>5, PacketFacts, PortsAreNats
    <3>2. ackR'[Dst(h)]
      BY <1>2, <2>4 DEF Performed
    <3>3. lat'[Dst(h)] = Req(h)
      BY <2>4, <2>5 DEF Serving, At
    <3>4. Req(h).body.we = DmemWe(h) /\ Req(h).body.adr = acc[h].adr
      BY DEF Req
    <3>5. ackR'[Dst(h)] /\ lat'[Dst(h)].body.we /\ lat'[Dst(h)].body.adr = acc[h].adr
      BY <2>5, <3>2, <3>3, <3>4
    <3>6. acc'[h].adr = acc[h].adr
      BY <2>4
    <3> QED
      BY <3>1, <3>5, <3>6 DEF Owes
  <2>7. CASE Taken(h)
    BY <2>2, <2>3, <2>4, <2>5, <2>6, <2>7, TakenAfter
  <2>8. CASE qFifo[h] = <<>>
    <3>1. Has(Dst(h), h)
      <4>1. <<Req(h)>> # <<>>
        OBVIOUS
      <4> QED
        BY <2>2, <2>8, <4>1 DEF FabricInv, HartsAre
    <3>2. CASE Serving(Dst(h), h) /\ ~ackR[Dst(h)]
      BY <2>2, <2>3, <2>4, <2>5, <2>6, <3>1, <3>2, ServedAfter
    <3>3. CASE ~Serving(Dst(h), h) \/ ackR[Dst(h)]
      BY <2>2, <2>3, <2>4, <2>5, <3>1, <3>3 DEF Performed
    <3> QED
      BY <3>2, <3>3
  <2> QED
    BY <2>2, <2>7, <2>8
<1> QED
  BY <1>1, <1>2

(* A line that is kept falls behind, or catches up, as its word moves.      *)
LEMMA LinesAfter ==
  ASSUME FabricInv, NEW go, NEW next, NEW trap, Step(go, next, trap), CacheInv
  PROVE  LinesArePlaced' /\ LinesAreNewest'
<1> DEFINE ack == Ack(Cycle)
<1>1. HartInv /\ HartStep(ack, OthersWrites(Cycle), next, trap) /\ AcksAreDue(ack)
      /\ AcksAreNewest(ack, mem) /\ LinesArePlaced
      /\ \A h \in Harts : ack[h] # None <=> Responds(h)
  BY AckFacts DEF FabricInv, Step, CacheInv
<1>2. \A h \in Harts : \A x \in valid[h] : \E n \in {0, 1} :
        line[h][x].ver + n = mem[line[h][x].adr]
  BY DEF CacheInv, LinesAreNewest
<1> HIDE DEF ack
<1>3. LinesArePlaced'
  BY <1>1, <1>2, PlacedAfter
<1>4. ASSUME NEW h \in Harts, NEW x \in valid'[h]
      PROVE  line'[h][x].ver + (IF Lags(h, line[h][x].adr)' THEN 1 ELSE 0)
               = mem'[line'[h][x].adr]
  <2>0. PICK a : a = line'[h][x].adr
    OBVIOUS
  <2>1. /\ a \in Words
        /\ \/ line'[h][x].ver = mem[a] /\ ack[h] # None
           \/ /\ x \in valid[h]
              /\ line'[h][x] = line[h][x]
              /\ a \notin OthersWrites(Cycle)[h]
              /\ ~(WriteAck(h, ack) /\ acc[h].adr = a)
    BY <1>1, <1>2, <1>4, <2>0, LineAfter
  <2>2. mem'[a] = mem[a] + (IF Owes(a)' THEN 1 ELSE 0) /\ mem[a] \in Nat
    BY <2>1, OwesAfter DEF FabricInv, FabricTypes
  <2>3. CASE line'[h][x].ver = mem[a] /\ ack[h] # None
    <3>1. ~Performed(h)'
      BY <1>1, <2>3, PerformedAfter
    <3>2. Lags(h, line[h][x].adr)' <=> Owes(a)'
      BY <2>0, <3>1 DEF Lags, Owes
    <3> QED
      BY <2>0, <2>2, <2>3, <3>2
  <2>4. ASSUME x \in valid[h], line'[h][x] = line[h][x],
               a \notin OthersWrites(Cycle)[h],
               ~(WriteAck(h, ack) /\ acc[h].adr = a)
        PROVE  line'[h][x].ver + (IF Lags(h, line[h][x].adr)' THEN 1 ELSE 0) = mem'[a]
    <3>1. line[h][x].ver + (IF Lags(h, a) THEN 1 ELSE 0) = mem[a] /\ a = line[h][x].adr
      BY <2>0, <2>4 DEF CacheInv, LinesAreNewest
    <3>2. Lags(h, line[h][x].adr)' <=> Owes(a)' \/ (Performed(h)' /\ acc'[h].adr = a)
      BY <2>0 DEF Lags, Owes
    <3>3. ASSUME Owes(a)
          PROVE  Performed(h) /\ ~Responds(h) /\ acc[h].adr = a
      <4>1. PICK s \in Xbar!Slaves : ackR[s] /\ lat[s].body.we /\ lat[s].body.adr = a
        BY <3>3 DEF Owes
      <4>2. Xbar!DoneBeat(s, Cycle) /\ Cycle.cur[s] = lat[s] /\ Cycle.cur[s] # None
        BY <4>1, CurrentFacts DEF Xbar!DoneBeat
      <4>3. PICK k \in Harts : /\ Dst(k) = s /\ Cycle.cur[s] = Req(k)
                               /\ (Has(s, k) /\ Serving(s, k)) \/ Taken(k)
        BY <4>2, CurrentFacts
      <4>4. Has(s, k) /\ Serving(s, k) /\ s # NumS
        BY <4>1, <4>3, CurrentFacts DEF Taken
      <4>5. Req(k).src = k /\ Req(k).body.we = DmemWe(k) /\ Req(k).body.adr = acc[k].adr
        BY DEF Req
      <4>6. k = h
        <5>1. SUFFICES ASSUME k # h PROVE a \in OthersWrites(Cycle)[h]
          BY <2>4
        <5>2. [adr |-> a, src |-> k] \in Xbar!Snooped(Cycle)
          BY <4>1, <4>2, <4>3, <4>5 DEF Xbar!Snooped
        <5>3. [adr |-> a, src |-> k].src # h /\ [adr |-> a, src |-> k].adr = a
          BY <5>1
        <5> QED
          BY <5>2, <5>3 DEF OthersWrites
      <4>7. ~Responds(h)
        <5>1. Req(h) # None
          BY <4>2, <4>3, <4>6
        <5> QED
          BY <4>3, <4>4, <4>6, <5>1 DEF Responds, Serving, Responding
      <4> QED
        BY <4>1, <4>2, <4>3, <4>4, <4>5, <4>6, <4>7 DEF Performed
    <3>4. ASSUME Lags(h, a)
          PROVE  Performed(h) /\ ~Responds(h) /\ acc[h].adr = a
      <4>1. CASE Owes(a)
        BY <3>3, <4>1
      <4>2. CASE Performed(h) /\ acc[h].adr = a
        <5>1. OnBus(h) /\ DmemWe(h)
          BY <4>2 DEF Performed, Has, FabricInv, HartsAre
        <5> QED
          BY <1>1, <2>4, <4>2, <5>1 DEF WriteAck
      <4> QED
        BY <3>4, <4>1, <4>2 DEF Lags
    <3>5. CASE Lags(h, a)
      <4>1. Performed(h)' /\ acc'[h].adr = a /\ mem'[a] = mem[a]
        BY <3>4, <3>5, PerformedAfter
      <4> QED
        BY <2>4, <3>1, <3>2, <3>5, <4>1
    <3>6. CASE ~Lags(h, a)
      <4>1. Performed(h)' /\ acc'[h].adr = a => Owes(a)'
        BY <3>6, PerformedAfter DEF Lags, Owes
      <4>2. line[h][x].ver = mem[a]
        <5>1. line[h][x].ver \in Nat
          <6>1. x \in Entries /\ line[h] \in [Entries -> [adr : Words \cup {None}, ver : Nat]]
            BY <1>1, <2>4 DEF HartInv, HartTypes
          <6>2. line[h][x] \in [adr : Words \cup {None}, ver : Nat]
            BY <6>1
          <6> QED
            BY <6>2
        <5> QED
          BY <3>1, <3>6, <5>1
      <4> QED
        BY <2>2, <2>4, <3>2, <4>1, <4>2
    <3> QED
      BY <3>5, <3>6
  <2> QED
    BY <2>0, <2>1, <2>3, <2>4
<1> QED
  BY <1>3, <1>4 DEF LinesAreNewest

(* The caches keep their invariant at an edge.                              *)
LEMMA CacheInvAfter ==
  ASSUME FabricInv, NEW go, NEW next, NEW trap, Step(go, next, trap), CacheInv
  PROVE  CacheInv'
<1> DEFINE ack == Ack(Cycle)
<1>1. /\ HartInv /\ HartStep(ack, OthersWrites(Cycle), next, trap)
      /\ AcksAreDue(ack) /\ AcksAreNewest(ack, mem)
      /\ HitsUpTo(mem) /\ KnownUpTo(mem)
  BY AckFacts DEF FabricInv, Step, CacheInv
<1> HIDE DEF ack
<1>2. /\ known' \in [Words -> Nat] /\ floor' \in [Harts -> Nat]
      /\ \A a \in Words : known'[a] <= mem[a]
      /\ \A h \in Harts : acc'[h] # None => floor'[h] <= known'[acc'[h].adr]
      /\ ReadsAreFresh'
  BY <1>1, KnownAfterEdge
<1>3. \A a \in Words : /\ mem[a] \in Nat /\ mem'[a] \in Nat
                       /\ mem'[a] = mem[a] + (IF Owes(a)' THEN 1 ELSE 0)
  BY OwesAfter, WordAfter DEF FabricInv, FabricTypes
<1>4. KnownUpTo(mem)' /\ NotYetKnown'
  <2>1. \A a \in Words : known'[a] <= mem'[a] /\ known'[a] + (IF Owes(a)' THEN 1 ELSE 0) <= mem'[a]
    BY <1>2, <1>3
  <2> QED
    BY <1>2, <2>1 DEF KnownUpTo, NotYetKnown
<1>5. HitsUpTo(mem)'
  <2> SUFFICES ASSUME NEW h \in Harts, pend'[h], hit'[h]
               PROVE  /\ Line(h)'.adr = acc'[h].adr
                      /\ Line(h)'.ver <= mem'[acc'[h].adr]
                      /\ floor'[h] <= Line(h)'.ver
    BY DEF HitsUpTo
  <2>1. /\ Start(h) /\ Present(h) /\ acc'[h] = acc[h] /\ floor'[h] = floor[h] /\ Line(h)' = Line(h)
    BY <1>1, HitIsLookedUp
  <2> DEFINE a == acc[h].adr
  <2>2. acc[h] # None /\ a \in Words /\ Line(h).ver \in Nat /\ Line(h).adr = a /\ Idx(h) \in valid[h]
    BY <1>1, <2>1, AccessFacts DEF Start, Present
  <2>3. ~Performed(h)
    BY <2>1 DEF Performed, Has, FabricInv, HartsAre, Start, OnBus
  <2>4. Line(h).ver + (IF Owes(a) THEN 1 ELSE 0) = mem[a]
    BY <2>2, <2>3 DEF CacheInv, LinesAreNewest, Lags, Line
  <2>5. known[a] \in Nat /\ known[a] + (IF Owes(a) THEN 1 ELSE 0) <= mem[a]
    BY <2>2 DEF CacheInv, NotYetKnown, KnownUpTo
  <2>6. floor[h] \in Nat /\ floor[h] <= known[a]
    BY <1>1, <2>2 DEF KnownUpTo
  <2>7. mem[a] \in Nat /\ mem'[a] \in Nat /\ mem[a] <= mem'[a]
    BY <1>3, <2>2
  <2>8. Line(h).ver <= mem[a] /\ known[a] <= Line(h).ver
    <3>1. CASE Owes(a)
      BY <2>2, <2>4, <2>5, <2>7, <3>1
    <3>2. CASE ~Owes(a)
      BY <2>2, <2>4, <2>5, <2>7, <3>2
    <3> QED
      BY <3>1, <3>2
  <2> QED
    BY <2>1, <2>2, <2>5, <2>6, <2>7, <2>8
<1> QED
  BY <1>2, <1>4, <1>5, LinesAfter DEF CacheInv

(* It holds at reset and while nothing steps.                               *)
LEMMA InitCacheInv ==
  ASSUME Init
  PROVE  CacheInv
<1>1. HartInit /\ Xbar!XbarInit
  BY DEF Init
<1>2. /\ valid = [h \in Harts |-> {}] /\ poison = [h \in Harts |-> FALSE]
      /\ known = [a \in Words |-> 0] /\ floor = [h \in Harts |-> 0]
      /\ acc = [h \in Harts |-> None] /\ pend = [h \in Harts |-> FALSE]
      /\ done = [h \in Harts |-> None]
  BY <1>1 DEF HartInit
<1>3. ackR = [s \in Xbar!Slaves |-> FALSE] /\ mem = [a \in Words |-> 0]
  BY <1>1 DEF Xbar!XbarInit
<1>4. \A a : ~Owes(a)
  BY <1>3 DEF Owes
<1> QED
  BY <1>2, <1>3, <1>4
     DEF CacheInv, LinesArePlaced, LinesAreNewest, KnownUpTo, HitsUpTo, NotYetKnown, ReadsAreFresh

(* (Nothing that a write's progress is told by changes either.)             *)
LEMMA QuietPerformed ==
  ASSUME FabricInv, UNCHANGED vars
  PROVE  /\ \A h : Performed(h)' = Performed(h)
         /\ \A a : Owes(a)' = Owes(a)
         /\ \A h : /\ Dst(h)' = Dst(h) /\ OnBus(h)' = OnBus(h)
                   /\ Idx(h)' = Idx(h) /\ Line(h)' = Line(h)
<1>1. /\ UNCHANGED hartVars
      /\ UNCHANGED <<sent, qFifo, rFifo, lat, rspq, sink, ackR, mem>>
  BY QuietFabricInv
<1>2. UNCHANGED <<acc, wr, pend, hit, line>>
  BY <1>1 DEF hartVars
<1>3. \A h : /\ Dst(h)' = Dst(h) /\ OnBus(h)' = OnBus(h)
             /\ DmemWe(h)' = DmemWe(h) /\ DmemRmw(h)' = DmemRmw(h)
             /\ Idx(h)' = Idx(h)
  BY <1>2 DEF Dst, OnBus, DmemWe, IsStore, DmemRmw, Idx
<1>4. \A h : Req(h)' = Req(h) /\ Rsp(h)' = Rsp(h) /\ Line(h)' = Line(h)
  BY <1>1, <1>2, <1>3 DEF Req, Rsp, Line
<1>5. \A p : At(p)' = At(p) /\ Waiting(p)' = Waiting(p)
  BY <1>1 DEF At, Waiting
<1>6. \A p, h : Has(p, h)' = Has(p, h) /\ Serving(p, h)' = Serving(p, h)
  BY <1>1, <1>3, <1>4, <1>5 DEF Has, Serving, Answering, Responding
<1>7. \A h : Performed(h)' = Performed(h)
  BY <1>1, <1>3, <1>6 DEF Performed
<1>8. \A a : Owes(a)' = Owes(a)
  BY <1>1 DEF Owes
<1> QED
  BY <1>3, <1>4, <1>7, <1>8

(* A stutter leaves the caches' invariant.                                  *)
LEMMA QuietCacheInv ==
  ASSUME FabricInv, CacheInv, UNCHANGED vars
  PROVE  CacheInv'
<1>1. UNCHANGED hartVars /\ UNCHANGED mem
  BY QuietFabricInv
<1>2. UNCHANGED <<build, acc, pend, hit, line, valid, poison, known, floor, done>>
  BY <1>1 DEF hartVars
<1>3. Caching' = Caching
  BY <1>2 DEF Caching
<1>4. LinesArePlaced'
  BY <1>2, <1>3, QuietPerformed DEF CacheInv, LinesArePlaced
<1>5. LinesAreNewest'
  BY <1>1, <1>2, QuietPerformed DEF CacheInv, LinesAreNewest, Lags
<1>6. KnownUpTo(mem)' /\ HitsUpTo(mem)' /\ NotYetKnown' /\ ReadsAreFresh'
  BY <1>1, <1>2, QuietPerformed DEF CacheInv, KnownUpTo, HitsUpTo, NotYetKnown, ReadsAreFresh
<1> QED
  BY <1>4, <1>5, <1>6 DEF CacheInv

(* No hart reads the past on the router fabric either (cpu_wb.v, "Snoop"),  *)
(* though its cache sees another's write a cycle before the writer's ack    *)
(* and two routers behind.                                                  *)
THEOREM FabricReadsAreFresh == Spec => []ReadsAreFresh
<1>1. Init => CacheInv
  BY InitCacheInv
<1>2. FabricInv /\ CacheInv /\ [Next]_vars => CacheInv'
  BY CacheInvAfter, NextIsStep, QuietCacheInv
<1>3. CacheInv => ReadsAreFresh
  BY DEF CacheInv
<1> QED
  BY <1>1, <1>2, <1>3, FabricInvariance, PTL DEF Spec
-----------------------------------------------------------------------------
(* The atomics. *)

(* Hart h's request has left its queue, and h has no answer yet.            *)
Gone(h) == sent[h] /\ qFifo[h] = <<>>

(* Hart h has an AMO in its MEM stage.                                      *)
IsRmw(h) == acc[h] # None /\ acc[h].kind = "amo"

(* A performed write on a of which its hart has not been told.              *)
Unseen(a) == \E k \in Harts : Performed(k) /\ acc[k].adr = a

(* A reserved word is as the LR saw it, up to a write that is not yet acked *)
(* and that will kill the reservation.                                      *)
ReservedIsNewest ==
  \A h \in Harts : resv[h] # None =>
    lrVer[h] + (IF Unseen(resv[h]) THEN 1 ELSE 0) = mem[resv[h]]

(* An AMO has the lock of its memory's port from when its read leaves the   *)
(* queue until its write does.                                              *)
LocksAreHeld ==
  \A h \in Harts : IsRmw(h) /\ (IF wr[h] THEN ~Gone(h) ELSE Gone(h)) => qLock[Dst(h)] = h

(* So while it is in its write phase no other request gets to that port,    *)
(* and its word is as its read saw it until its own write is performed.     *)
PhasesExclude ==
  \A h \in Harts : IsRmw(h) /\ wr[h] =>
    /\ \A k \in Harts : Gone(k) /\ Dst(k) = Dst(h) => k = h
    /\ old[h] + (IF Performed(h) THEN 1 ELSE 0) = mem[acc[h].adr]

(* The third layer of the invariant.                                        *)
AtomicInv == ReservedIsNewest /\ LocksAreHeld /\ PhasesExclude /\ AtomicsHold

(* A request that has left its queue is at its port.                        *)
LEMMA GoneFacts ==
  ASSUME FabricInv, NEW h \in Harts
  PROVE  /\ Gone(h) => OnBus(h) /\ Has(Dst(h), h)
         /\ Responds(h) => Gone(h)
<1>1. <<Req(h)>> # <<>>
  OBVIOUS
<1> QED
  BY <1>1 DEF Gone, FabricInv, HartsAre, Responds, Has

(* It leaves when it is taken, and is so until its answer comes.            *)
LEMMA GoneAfter ==
  ASSUME FabricInv, NEW go, NEW next, NEW trap, Step(go, next, trap), NEW h \in Harts
  PROVE  /\ Gone(h)' <=> (Gone(h) /\ ~Responds(h)) \/ Taken(h)
         /\ Gone(h)' => /\ OnBus(h) /\ ~Responds(h) /\ sent[h]
                        /\ acc'[h] = acc[h] /\ wr'[h] = wr[h] /\ Dst(h)' = Dst(h)
<1>1. <<Req(h)>> # <<>>
  OBVIOUS
<1>2. Gone(h)' <=> (Gone(h) /\ ~Responds(h)) \/ Taken(h)
  <2>1. Responds(h) => sent[h] /\ qFifo[h] = <<>>
    BY DEF Responds, Has
  <2> QED
    <3>1. sent[h] \in BOOLEAN /\ sent'[h] \in BOOLEAN
      BY RequestAfter DEF FabricInv, FabricTypes
    <3>2. CASE sent[h] /\ qFifo[h] = <<>>
      BY <2>1, <3>1, <3>2, RequestAfter DEF Gone
    <3>3. CASE sent[h] /\ qFifo[h] # <<>>
      <4>1. CASE Taken(h)
        BY <2>1, <3>1, <3>3, <4>1, RequestAfter DEF Gone
      <4>2. CASE ~Taken(h)
        BY <1>1, <3>1, <3>3, <4>2, RequestAfter DEF Gone
      <4> QED
        BY <4>1, <4>2
    <3>4. CASE ~sent[h]
      BY <1>1, <3>1, <3>4, RequestAfter DEF Gone, FabricInv, HartsAre
    <3> QED
      BY <3>1, <3>2, <3>3, <3>4
<1>3. ASSUME Gone(h)' PROVE OnBus(h) /\ ~Responds(h) /\ sent[h]
  BY <1>1, <1>3, RequestAfter DEF Gone, FabricInv, HartsAre
<1> QED
  BY <1>2, <1>3, AccessStays

(* A memory that performs a write performs a hart's, and while no earlier   *)
(* one on its word is unseen that is the only one.                          *)
LEMMA UnseenAfter ==
  ASSUME FabricInv, NEW go, NEW next, NEW trap, Step(go, next, trap), NEW a \in Words
  PROVE  /\ Owes(a)' => \E k \in Harts : Performed(k)' /\ acc'[k].adr = a
         /\ ~Unseen(a) => (Unseen(a)' <=> Owes(a)')
<1>1. ASSUME Owes(a)'
      PROVE  \E k \in Harts : Performed(k)' /\ acc'[k].adr = a
  <2>1. PICK s \in Xbar!Slaves : ackR'[s] /\ lat'[s].body.we /\ lat'[s].body.adr = a
    BY <1>1 DEF Owes
  <2>2. Cycle.cur[s] = lat'[s] /\ Cycle.cur[s] # None /\ ~ackR[s] /\ s # NumS
    BY <2>1, MemoriesAfter, CurrentFacts DEF Xbar!Performs
  <2>3. PICK k \in Harts : /\ Dst(k) = s /\ Cycle.cur[s] = Req(k) /\ OnBus(k)
                           /\ (Has(s, k) /\ Serving(s, k)) \/ Taken(k)
    BY <2>2, CurrentFacts
  <2>4. Req(k).body.we = DmemWe(k) /\ Req(k).body.adr = acc[k].adr
    BY DEF Req
  <2>5. ~Responds(k) /\ Has(Dst(k), k)' /\ Dst(k)' = Dst(k)
    <3>1. CASE Taken(k)
      <4>1. ~Responds(k)
        BY <3>1, RequestAfter DEF Responds, Has
      <4> QED
        BY <3>1, <4>1, TakenAfter
    <3>2. CASE Has(s, k) /\ Serving(s, k)
      <4>1. ~Responds(k)
        BY <2>2, <2>3, <3>2 DEF Responds, Serving, Responding
      <4> QED
        BY <2>3, <3>2, <4>1, ServedAfter
    <3> QED
      BY <2>3, <3>1, <3>2
  <2>6. acc'[k] = acc[k] /\ DmemWe(k)' = DmemWe(k)
    BY <2>3, <2>5, AccessStays
  <2>7. DmemWe(k)' /\ Dst(k)' # NumS /\ ackR'[Dst(k)'] /\ acc'[k].adr = a
    BY <2>1, <2>2, <2>3, <2>4, <2>5, <2>6
  <2> QED
    BY <2>5, <2>7 DEF Performed
<1>2. ASSUME ~Unseen(a), Unseen(a)' PROVE Owes(a)'
  <2>1. PICK k \in Harts : Performed(k)' /\ acc'[k].adr = a
    BY <1>2 DEF Unseen
  <2>2. acc'[k] = acc[k] /\ (Performed(k) \/ Owes(acc[k].adr)')
    BY <2>1, PerformedAfter
  <2> QED
    BY <1>2, <2>1, <2>2 DEF Unseen, Owes
<1> QED
  BY <1>1, <1>2 DEF Unseen

(* A reservation that is kept keeps its word, up to a write that its        *)
(* monitor has still to see.                                                *)
LEMMA ReservedAfter ==
  ASSUME FabricInv, NEW go, NEW next, NEW trap, Step(go, next, trap), AtomicInv
  PROVE  ReservedIsNewest'
<1> DEFINE ack == Ack(Cycle)
<1>1. /\ HartInv /\ HartStep(ack, OthersWrites(Cycle), next, trap)
      /\ AcksAreDue(ack) /\ AcksAreNewest(ack, mem)
      /\ \A k \in Harts : ack[k] # None <=> Responds(k)
  BY AckFacts DEF FabricInv, Step
<1> HIDE DEF ack
<1> SUFFICES ASSUME NEW h \in Harts, resv'[h] # None
             PROVE  lrVer'[h] + (IF Unseen(resv[h])' THEN 1 ELSE 0) = mem'[resv'[h]]
  BY DEF ReservedIsNewest
<1>2. PICK a : a = resv'[h]
  OBVIOUS
<1>3. a \in Words
  <2>1. resv' \in [Harts -> Words \cup {None}]
    BY <1>1, HartTypesAfter DEF HartTypes, HartTypeOK
  <2> QED
    BY <1>2, <2>1
<1>4. mem'[a] = mem[a] + (IF Owes(a)' THEN 1 ELSE 0) /\ mem[a] \in Nat
  BY <1>3, OwesAfter DEF FabricInv, FabricTypes
<1>5. Unseen(resv[h])' <=> Unseen(a)'
  BY <1>2 DEF Unseen
<1>6. CASE acc[h] # None /\ ack[h] # None /\ ~DmemWe(h) /\ a = acc[h].adr /\ lrVer'[h] = mem[a]
  <2>1. ~Unseen(a)
    <3>1. SUFFICES ASSUME NEW k \in Harts, Performed(k), acc[k].adr = a PROVE FALSE
      BY DEF Unseen
    <3>2. Has(Dst(k), k) /\ Has(Dst(h), h) /\ Dst(k) = Dst(h) /\ DmemWe(k)
      BY <1>1, <1>6, <3>1 DEF Performed, Responds, Dst
    <3>3. k = h
      BY <3>2, PortHasOne
    <3> QED
      BY <1>6, <3>2, <3>3
  <2>2. Unseen(a)' <=> Owes(a)'
    BY <1>3, <2>1, UnseenAfter
  <2> QED
    BY <1>2, <1>4, <1>5, <1>6, <2>2
<1>7. ASSUME a = resv[h], lrVer'[h] = lrVer[h],
             \A k \in Harts : ack[k] # None /\ DmemWe(k) => acc[k].adr # resv[h]
      PROVE  lrVer'[h] + (IF Unseen(a)' THEN 1 ELSE 0) = mem'[a]
  <2>1. lrVer[h] \in Nat /\ lrVer[h] + (IF Unseen(a) THEN 1 ELSE 0) = mem[a]
    BY <1>1, <1>2, <1>7 DEF AtomicInv, ReservedIsNewest, HartInv, HartTypes
  <2>2. CASE Unseen(a)
    <3>1. PICK k \in Harts : Performed(k) /\ acc[k].adr = a
      BY <2>2 DEF Unseen
    <3>2. ~Responds(k)
      BY <1>1, <1>7, <3>1 DEF Performed
    <3>3. Performed(k)' /\ acc'[k] = acc[k] /\ mem'[a] = mem[a]
      BY <3>1, <3>2, PerformedAfter
    <3>4. Unseen(a)'
      BY <3>1, <3>3 DEF Unseen
    <3> QED
      BY <1>7, <2>1, <2>2, <3>3, <3>4
  <2>3. CASE ~Unseen(a)
    <3>1. Unseen(a)' <=> Owes(a)'
      BY <1>3, <2>3, UnseenAfter
    <3>2. lrVer[h] = mem[a]
      BY <2>1, <2>3
    <3> QED
      BY <1>4, <1>7, <3>1, <3>2
  <2> QED
    BY <2>2, <2>3
<1>8. \/ acc[h] # None /\ ack[h] # None /\ ~DmemWe(h) /\ a = acc[h].adr /\ lrVer'[h] = mem[a]
      \/ /\ a = resv[h] /\ lrVer'[h] = lrVer[h]
         /\ \A k \in Harts : ack[k] # None /\ DmemWe(k) => acc[k].adr # resv[h]
  BY <1>1, <1>2, ReservationAfter
<1> QED
  BY <1>2, <1>5, <1>6, <1>7, <1>8

(* The port of a locked AMO takes only its own requests, and changes hands  *)
(* only with the AMO's write.                                               *)
LEMMA LockStays ==
  ASSUME FabricInv, NEW go, NEW next, NEW trap, Step(go, next, trap),
         NEW h \in Harts, NEW p \in Xbar!Ports, qLock[p] = h
  PROVE  /\ \A k \in Harts : Taken(k) /\ Dst(k) = p => k = h
         /\ ~(Taken(h) /\ Dst(h) = p) => qLock'[p] = h
<1>1. h # None
  BY PortsAreNats
<1>2. \A k \in Harts : Taken(k) /\ Dst(k) = p => k = h
  <2> SUFFICES ASSUME NEW k \in Harts, Taken(k), Dst(k) = p PROVE k = h
    OBVIOUS
  <2>1. Cycle.qOffer[p] = k /\ k # None
    BY PortsAreNats DEF Taken
  <2> QED
    BY <1>1, <2>1, OfferFacts
<1>3. Xbar!Accepts(p) /\ Cycle.qOffer[p] # None => Taken(h) /\ Dst(h) = p
  BY <1>1, OfferFacts DEF Taken
<1> QED
  BY <1>2, <1>3, GrantAfter

(* An edge keeps the lock with the hart whose AMO has begun.                *)
LEMMA LocksAfter ==
  ASSUME FabricInv, NEW go, NEW next, NEW trap, Step(go, next, trap), AtomicInv
  PROVE  LocksAreHeld'
<1> DEFINE ack == Ack(Cycle)
<1>1. /\ HartInv /\ HartStep(ack, OthersWrites(Cycle), next, trap) /\ AcksAreDue(ack)
      /\ \A k \in Harts : ack[k] # None <=> Responds(k)
  BY AckFacts DEF FabricInv, Step
<1> HIDE DEF ack
<1> SUFFICES ASSUME NEW h \in Harts, IsRmw(h)', IF wr'[h] THEN ~Gone(h)' ELSE Gone(h)'
             PROVE  qLock'[Dst(h)'] = h
  BY DEF LocksAreHeld
<1>2. wr[h] \in BOOLEAN /\ wr'[h] \in BOOLEAN
  BY <1>1, HartTypesAfter DEF HartInv, HartTypes, HartTypeOK
<1>3. CASE wr'[h]
  <2>1. /\ acc'[h] = acc[h] /\ acc[h] \in Accesses /\ acc[h] # None
        /\ ~wr[h] => ack[h] # None
        /\ wr[h] => ack[h] = None
    BY <1>1, <1>3, PhaseEntry DEF Free
  <2>2. IsRmw(h) /\ Dst(h)' = Dst(h) /\ Dst(h) \in Xbar!Ports
    BY <2>1, PortsAreNats DEF IsRmw, Dst, Accesses
  <2>3. ~Taken(h)
    BY <1>3, GoneAfter
  <2>4. IF wr[h] THEN ~Gone(h) ELSE Gone(h)
    BY <1>1, <1>3, <2>1, <2>3, GoneFacts, GoneAfter
  <2>5. qLock[Dst(h)] = h
    BY <2>2, <2>4 DEF AtomicInv, LocksAreHeld
  <2> QED
    BY <2>2, <2>3, <2>5, LockStays
<1>4. CASE ~wr'[h]
  <2>1. /\ OnBus(h) /\ acc'[h] = acc[h] /\ ~wr[h] /\ Dst(h)' = Dst(h)
        /\ (Gone(h) /\ ~Responds(h)) \/ Taken(h)
    BY <1>2, <1>4, GoneAfter
  <2>2. IsRmw(h) /\ Dst(h) \in Xbar!Ports
    BY <2>1, PacketFacts DEF IsRmw
  <2>3. CASE Taken(h)
    <3>1. Xbar!Accepts(Dst(h)) /\ Cycle.qOffer[Dst(h)] = h /\ h # None
      BY <2>3, PortsAreNats DEF Taken
    <3>2. Req(h).lock
      BY <2>1, <2>2 DEF Req, DmemRmw, IsRmw
    <3> QED
      BY <2>1, <2>2, <3>1, <3>2, GrantAfter
  <2>4. CASE Gone(h) /\ ~Taken(h)
    <3>1. qLock[Dst(h)] = h
      BY <2>1, <2>2, <2>4 DEF AtomicInv, LocksAreHeld
    <3> QED
      BY <2>1, <2>2, <2>4, <3>1, LockStays
  <2> QED
    BY <2>1, <2>3, <2>4
<1> QED
  BY <1>2, <1>3, <1>4

(* No other request gets to the memory of an AMO in its write phase, so no  *)
(* other write is performed on its word.                                    *)
LEMMA PhasesAfter ==
  ASSUME FabricInv, NEW go, NEW next, NEW trap, Step(go, next, trap), AtomicInv
  PROVE  PhasesExclude'
<1> DEFINE ack == Ack(Cycle)
<1>1. /\ HartInv /\ HartStep(ack, OthersWrites(Cycle), next, trap) /\ AcksAreDue(ack)
      /\ AcksAreNewest(ack, mem)
      /\ \A k \in Harts : ack[k] # None <=> Responds(k)
  BY AckFacts DEF FabricInv, Step
<1> HIDE DEF ack
<1> SUFFICES ASSUME NEW h \in Harts, IsRmw(h)', wr'[h]
             PROVE  /\ \A k \in Harts : Gone(k)' /\ Dst(k)' = Dst(h)' => k = h
                    /\ old'[h] + (IF Performed(h)' THEN 1 ELSE 0) = mem'[acc'[h].adr]
  BY DEF PhasesExclude
<1> DEFINE p == Dst(h)
<1>0. PICK a : a = acc[h].adr
  OBVIOUS
<1>2. /\ acc'[h] = acc[h] /\ acc[h] \in Accesses /\ acc[h] # None
      /\ ~wr[h] => ack[h] # None /\ ~DmemWe(h) /\ old'[h] = ack[h]
      /\ wr[h] => ack[h] = None /\ old'[h] = old[h]
  BY <1>1, PhaseEntry DEF Free
<1>3. IsRmw(h) /\ Dst(h)' = p /\ p = DstOf[a] /\ p \in Xbar!Ports /\ a \in Words
  BY <1>0, <1>2, PortsAreNats DEF IsRmw, Dst, Accesses
<1>4. (wr[h] => ~Gone(h)) /\ (~wr[h] => Gone(h)) => qLock[p] = h
  BY <1>0, <1>3 DEF AtomicInv, LocksAreHeld
<1>5. ~wr[h] => Responds(h) /\ Gone(h) /\ qLock[p] = h
  BY <1>1, <1>2, <1>4, GoneFacts
<1>6. ASSUME NEW k \in Harts, Gone(k)', Dst(k)' = p
      PROVE  k = h /\ wr[h]
  <2>1. /\ Dst(k) = p /\ ~Responds(k)
        /\ Gone(k) \/ Taken(k)
    BY <1>6, GoneAfter
  <2>2. CASE ~wr[h]
    <3>1. Gone(k) => k = h
      BY <1>0, <1>3, <1>5, <2>1, <2>2, GoneFacts, PortHasOne
    <3>2. Taken(k) => k = h
      BY <1>0, <1>3, <1>5, <2>1, <2>2, LockStays
    <3>3. ~Taken(h)
      BY <1>5, <2>2, RequestAfter DEF Gone
    <3> QED
      BY <1>5, <2>1, <2>2, <3>1, <3>2, <3>3
  <2>3. CASE wr[h]
    <3>1. Gone(k) => k = h
      BY <1>0, <1>3, <2>1, <2>3 DEF AtomicInv, PhasesExclude
    <3>2. CASE Gone(h)
      <4>1. Has(p, h) /\ ~Responds(h)
        BY <1>1, <1>2, <2>3, <3>2, GoneFacts
      <4>2. ~Xbar!Accepts(p)
        BY <4>1, ServedAfter
      <4> QED
        BY <2>1, <2>3, <3>1, <4>2 DEF Taken
    <3>3. CASE ~Gone(h)
      <4>1. Taken(k) => k = h
        BY <1>0, <1>3, <1>4, <2>1, <2>3, <3>3, LockStays
      <4> QED
        BY <2>1, <2>3, <3>1, <4>1
    <3> QED
      BY <3>2, <3>3
  <2> QED
    BY <2>2, <2>3
<1>7. ASSUME NEW k \in Harts, Performed(k)', acc'[k].adr = a
      PROVE  k = h /\ wr[h]
  <2>1. Gone(k)' /\ Dst(k)' = DstOf[acc'[k].adr]
    BY <1>7 DEF Performed, Has, Gone, Dst
  <2> QED
    BY <1>0, <1>3, <1>6, <1>7, <2>1
<1>8. mem'[a] = mem[a] + (IF Owes(a)' THEN 1 ELSE 0) /\ mem[a] \in Nat
  BY <1>0, <1>3, OwesAfter DEF FabricInv, FabricTypes
<1>9. Owes(a)' => Performed(h)' /\ wr[h]
  BY <1>0, <1>2, <1>3, <1>7, UnseenAfter DEF Owes
<1>10. old'[h] + (IF Performed(h)' THEN 1 ELSE 0) = mem'[a]
  <2>1. CASE ~wr[h]
    <3>1. ~Performed(h)'
      BY <1>0, <1>2, <1>7, <2>1
    <3>2. old'[h] = mem[a]
      BY <1>0, <1>1, <1>2, <2>1 DEF AcksAreNewest
    <3> QED
      BY <1>8, <1>9, <2>1, <3>1, <3>2
  <2>2. CASE wr[h] /\ Performed(h)
    <3>1. Performed(h)' /\ mem'[a] = mem[a]
      BY <1>0, <1>1, <1>2, <2>2, PerformedAfter
    <3>2. old[h] + 1 = mem[a]
      BY <1>0, <1>3, <2>2 DEF AtomicInv, PhasesExclude
    <3> QED
      BY <1>0, <1>2, <2>2, <3>1, <3>2
  <2>3. CASE wr[h] /\ ~Performed(h)
    <3>1. Performed(h)' => Owes(a)'
      BY <1>0, <1>2, <2>3, PerformedAfter DEF Owes
    <3>2. old[h] + 0 = mem[a] /\ old[h] \in Nat
      BY <1>0, <1>1, <1>3, <2>3 DEF AtomicInv, PhasesExclude, HartInv, HartTypes
    <3> QED
      BY <1>0, <1>2, <1>8, <1>9, <2>3, <3>1, <3>2
  <2> QED
    BY <2>1, <2>2, <2>3
<1>11. acc'[h].adr = a
  BY <1>0, <1>2
<1>12. \A k \in Harts : Gone(k)' /\ Dst(k)' = Dst(h)' => k = h
  BY <1>0, <1>3, <1>6
<1> QED
  BY <1>10, <1>11, <1>12

(* What completes at an edge is atomic.                                     *)
LEMMA AtomicsAfter ==
  ASSUME FabricInv, NEW go, NEW next, NEW trap, Step(go, next, trap), AtomicInv
  PROVE  AtomicsHold'
<1> DEFINE ack == Ack(Cycle)
<1>1. /\ HartInv /\ HartStep(ack, OthersWrites(Cycle), next, trap) /\ AcksAreDue(ack)
      /\ AcksAreNewest(ack, mem)
      /\ \A k \in Harts : ack[k] # None <=> Responds(k)
  BY AckFacts DEF FabricInv, Step
<1> HIDE DEF ack
<1>2. ASSUME NEW h \in Harts, done'[h] # None,
             done'[h].kind = "amo" \/ (done'[h].kind = "sc" /\ done'[h].ok)
      PROVE  /\ done'[h].wrote
             /\ done'[h].ver = (IF done'[h].kind = "amo" THEN done'[h].base ELSE done'[h].lrVer) + 1
  <2>1. /\ Completes(h, ack) /\ acc[h] # None
        /\ done'[h].kind = acc[h].kind /\ done'[h].base = old[h] /\ done'[h].lrVer = lrVer[h]
        /\ done'[h].wrote <=> DmemWe(h)
        /\ done'[h].ok <=> ScMatch(h)
        /\ DmemWe(h) => done'[h].ver = ack[h]
        /\ acc[h].kind = "amo" \/ (acc[h].kind = "sc" /\ ScMatch(h)) => wr[h]
    BY <1>1, <1>2, DoneFacts
  <2>2. wr[h] /\ DmemWe(h)
    BY <1>1, <1>2, <2>1, CompletionFacts
  <2>3. Responds(h)
    BY <1>1, <2>1, <2>2, CompletionFacts
  <2>4. done'[h].ver = mem[acc[h].adr] /\ mem[acc[h].adr] \in Nat
    <3>1. acc[h].adr \in Words
      BY <1>1, <2>1, AccessFacts
    <3> QED
      BY <1>1, <2>1, <2>2, <2>3, <3>1 DEF AcksAreNewest
  <2>5. Performed(h)
    <3>1. Dst(h) # NumS
      <4>1. build \in Builds /\ acc[h] \in build.access
        BY <1>1, <2>1, AccessFacts DEF Access, HartInv, HartTypes
      <4>2. DstOf[acc[h].adr] \in Xbar!Slaves
        BY <1>2, <2>1, <4>1, AtomicsAssumption
      <4> QED
        BY <4>2, PortsAreNats DEF Dst
    <3>2. ~Serving(Dst(h), h)
      <4>1. OnBus(h)
        BY <2>3, GoneFacts
      <4> QED
        BY <2>3, <4>1, PacketFacts DEF Responds, Responding, Serving
    <3> QED
      BY <2>2, <2>3, <3>1, <3>2 DEF Performed, Responds
  <2>6. CASE acc[h].kind = "amo"
    <3>1. old[h] + 1 = mem[acc[h].adr]
      BY <2>1, <2>2, <2>5, <2>6 DEF AtomicInv, PhasesExclude, IsRmw
    <3> QED
      BY <2>1, <2>2, <2>4, <2>6, <3>1
  <2>7. CASE acc[h].kind = "sc" /\ ScMatch(h)
    <3>1. resv[h] = acc[h].adr /\ resv[h] # None
      <4>1. acc[h].adr \in Words
        BY <1>1, <2>1, AccessFacts
      <4> QED
        BY <2>7, <4>1, NoWordAssumption DEF ScMatch
    <3>2. Unseen(resv[h])
      BY <2>5, <3>1 DEF Unseen
    <3>3. lrVer[h] + 1 = mem[acc[h].adr]
      BY <3>1, <3>2 DEF AtomicInv, ReservedIsNewest
    <3> QED
      BY <2>1, <2>2, <2>4, <2>7, <3>3
  <2> QED
    BY <1>2, <2>1, <2>6, <2>7
<1>3. AmoAtomic'
  BY <1>2 DEF AmoAtomic
<1>4. ScAtomic'
  BY <1>2 DEF ScAtomic
<1> QED
  BY <1>3, <1>4 DEF AtomicsHold

(* The invariant of the atomics holds at reset, and while nothing steps.    *)
LEMMA InitAtomicInv ==
  ASSUME Init
  PROVE  AtomicInv
<1>1. /\ resv = [h \in Harts |-> None] /\ acc = [h \in Harts |-> None]
      /\ done = [h \in Harts |-> None]
  BY DEF Init, HartInit
<1> QED
  BY <1>1
     DEF AtomicInv, ReservedIsNewest, LocksAreHeld, PhasesExclude, IsRmw,
         AtomicsHold, AmoAtomic, ScAtomic

(* A stutter leaves the atomics' invariant.                                 *)
LEMMA QuietAtomicInv ==
  ASSUME FabricInv, AtomicInv, UNCHANGED vars
  PROVE  AtomicInv'
<1>1. /\ UNCHANGED <<acc, wr, old, resv, lrVer, done>>
      /\ UNCHANGED <<sent, qFifo, qLock, mem>>
  BY QuietFabricInv DEF hartVars
<1>2. /\ \A h : Gone(h)' = Gone(h) /\ IsRmw(h)' = IsRmw(h)
      /\ \A a : Unseen(a)' = Unseen(a)
  BY <1>1, QuietPerformed DEF Gone, IsRmw, Unseen
<1>3. ReservedIsNewest'
  BY <1>1, <1>2 DEF AtomicInv, ReservedIsNewest
<1>4. LocksAreHeld'
  BY <1>1, <1>2, QuietPerformed DEF AtomicInv, LocksAreHeld
<1>5. PhasesExclude'
  BY <1>1, <1>2, QuietPerformed DEF AtomicInv, PhasesExclude
<1>6. AtomicsHold'
  BY <1>1 DEF AtomicInv, AtomicsHold, AmoAtomic, ScAtomic
<1> QED
  BY <1>3, <1>4, <1>5, <1>6 DEF AtomicInv

(* The A extension's promise on the router fabric: the lock that an AMO's   *)
(* read takes in the request router, and the monitor on the masters' side   *)
(* (noc_router.v, "Atomics"; reservation_monitor.v).                        *)
THEOREM FabricAtomicsHold == Spec => []AtomicsHold
<1>1. Init => AtomicInv
  BY InitAtomicInv
<1>2. ASSUME FabricInv, AtomicInv, [Next]_vars
      PROVE  AtomicInv'
  <2>1. CASE Next
    BY <1>2, <2>1, NextIsStep, ReservedAfter, LocksAfter, PhasesAfter, AtomicsAfter DEF AtomicInv
  <2>2. CASE UNCHANGED vars
    BY <1>2, <2>2, QuietAtomicInv
  <2> QED
    BY <1>2, <2>1, <2>2
<1>3. AtomicInv => AtomicsHold
  BY DEF AtomicInv
<1> QED
  BY <1>1, <1>2, <1>3, FabricInvariance, PTL DEF Spec
=============================================================================
