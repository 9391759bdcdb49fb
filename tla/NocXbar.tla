------------------------------ MODULE NocXbar ------------------------------
(***************************************************************************)
(* The router fabric (rtl/soc/wb_noc_xbar.v): a network interface per      *)
(* master, a request router, a network interface per slave and the error   *)
(* sink, and a response router back.  The slaves are memories.  What a     *)
(* word holds is its version, the number of writes performed on it, so a   *)
(* response says which write it saw.                                       *)
(*                                                                         *)
(* The masters' wires and the slaves' readiness are parameters of the      *)
(* clock edge: port[m] is the request master m has on its wires (cyc and   *)
(* stb), or None, and go[s] says that memory s performs in this cycle.     *)
(***************************************************************************)
EXTENDS Naturals, Sequences

CONSTANTS
  NumM, NumS,   \* masters, and slaves that are memories
  Words,        \* the addresses
  DstOf,        \* DstOf[a]: the slave that decodes a, NumS where none does
  Bypass,       \* NI_BYPASS
  AgeLimit,     \* the routers' AGE_LIMIT
  AgeMax,       \* where their age counters saturate
  None

Sink == NumS                       \* the router port of the error sink
Masters == 0 .. NumM - 1
Slaves == 0 .. NumS - 1
Ports == 0 .. NumS
LastBeat == 3                      \* a burst is four beats

Requests == [adr : Words, we : BOOLEAN, lock : BOOLEAN, burst : BOOLEAN]

VARIABLES
  sent,                                      \* the masters' interfaces
  qFifo, qLast, qLock, qGrant, qAge, qMis, qTaken,   \* the request router
  rFifo, rLast, rLock, rGrant, rAge, rMis, rTaken,   \* the response router
  lat,       \* lat[s]: the request slave interface s is performing (busy, lat)
  held,      \* held[s]: cyc is kept up after a locked request
  beats,     \* beats[s]: acks of a burst already taken
  rspq,      \* rspq[s]: responses waiting for the router (q, q_rd, q_wr, q_n)
  sink,      \* the request the error sink answers, or None (full, dst)
  ackR,      \* ackR[s]: the memory acks in this cycle (wb_ram's ack_r)
  aq,        \* aq[s]: what the memory read, as a version (wb_ram's a_q)
  mem        \* mem[a]: the version of word a

qVars == <<qFifo, qLast, qLock, qGrant, qAge, qMis, qTaken>>
rVars == <<rFifo, rLast, rLock, rGrant, rAge, rMis, rTaken>>
slaveVars == <<lat, held, beats, rspq, sink, ackR, aq, mem>>
xbarVars == <<sent, qVars, rVars, slaveVars>>

QR == INSTANCE NocRouter WITH
  NumIn <- NumM, NumOut <- NumS + 1, Depth <- 2, QosEn <- FALSE, Body <- {},
  Arrivals <- <<>>, Holders <- {}, fifo <- qFifo, lastOut <- qLast, lock <- qLock,
  grant <- qGrant, age <- qAge, misroute <- qMis, taken <- qTaken

RR == INSTANCE NocRouter WITH
  NumIn <- NumS + 1, NumOut <- NumM, Depth <- 2, QosEn <- FALSE, Body <- {},
  Arrivals <- <<>>, Holders <- {}, fifo <- rFifo, lastOut <- rLast, lock <- rLock,
  grant <- rGrant, age <- rAge, misroute <- rMis, taken <- rTaken

XbarInit ==
  /\ sent = [m \in Masters |-> FALSE]
  /\ QR!Init
  /\ RR!Init
  /\ lat = [s \in Slaves |-> None]
  /\ held = [s \in Slaves |-> FALSE]
  /\ beats = [s \in Slaves |-> 0]
  /\ rspq = [s \in Slaves |-> <<>>]
  /\ sink = None
  /\ ackR = [s \in Slaves |-> FALSE]
  /\ aq = [s \in Slaves |-> 0]
  /\ mem = [a \in Words |-> 0]
-----------------------------------------------------------------------------
\* mutant: req_ready without !busy
AcceptsWhileBusy(p) == IF p = Sink THEN sink = None ELSE rspq[p] = <<>>

Accepts(p) == IF p = Sink THEN sink = None ELSE lat[p] = None /\ rspq[p] = <<>>

(* The combinational wires of a cycle, the masters' requests given:         *)
(*   offered[p]       the packet the request router offers port p           *)
(*   cur[s], beat[s]  what slave interface s performs, and which beat of it *)
(*                    (with NI_BYPASS, in the very cycle it is offered)     *)
(*   rsp[m]           the response at master m's interface                  *)
Wires(port) ==
  LET qOffer == QR!Offers(None)
      rOffer == RR!Offers(None)
      offered == [p \in Ports |->
        IF qOffer[p] = None THEN None ELSE QR!HeadOf(qOffer[p])]
      first(s) == Bypass /\ Accepts(s) /\ offered[s] # None
  IN [port |-> port, qOffer |-> qOffer, rOffer |-> rOffer, offered |-> offered,
      cur |-> [s \in Slaves |-> IF first(s) THEN offered[s] ELSE lat[s]],
      beat |-> [s \in Slaves |-> IF first(s) THEN 0 ELSE beats[s]],
      rsp |-> [m \in Masters |->
        IF sent[m] /\ rOffer[m] # None THEN RR!HeadOf(rOffer[m]) ELSE None]]
-----------------------------------------------------------------------------
(* The masters' interfaces. *)

Request(m, r) ==
  [dst |-> DstOf[r.adr], src |-> m, lock |-> r.lock, qos |-> 0,
   body |-> [adr |-> r.adr, we |-> r.we, burst |-> r.burst]]

Requesting(m, w) == w.port[m] # None /\ ~sent[m]

Presented(w) ==
  [m \in Masters |-> IF Requesting(m, w) THEN Request(m, w.port[m]) ELSE None]

(* What the master is acked with: nothing once it has dropped its request. *)
Acked(m, w) == IF w.port[m] # None THEN w.rsp[m] ELSE None

SentAfter(m, w) ==
  IF Requesting(m, w) /\ QR!Ready(m) THEN TRUE
  ELSE IF w.rsp[m] # None /\ w.rsp[m].body.last THEN FALSE
  ELSE sent[m]
-----------------------------------------------------------------------------
(* The slaves' interfaces and the memories behind them. *)

(* wb_ram performs in one cycle and acks in the next; a slower memory waits *)
(* before it performs.                                                      *)
PerformsTwice(s, w, go) == w.cur[s] # None /\ go[s]   \* mutant: no !ack_r
Performs(s, w, go) == w.cur[s] # None /\ ~ackR[s] /\ go[s]

MemAfter(a, w, go) ==
  IF \E s \in Slaves :
       Performs(s, w, go) /\ w.cur[s].body.we /\ w.cur[s].body.adr = a
  THEN mem[a] + 1 ELSE mem[a]

DoneBeat(s, w) == w.cur[s] # None /\ ackR[s]
Finishes(s, w) ==
  DoneBeat(s, w) /\ (~w.cur[s].body.burst \/ w.beat[s] = LastBeat)

(* A response names the version it saw; a write's, the version it made.     *)
BeatRsp(s, w) ==
  [dst |-> w.cur[s].src, src |-> s, lock |-> FALSE, qos |-> 0,
   body |-> [last |-> Finishes(s, w), err |-> FALSE,
             adr |-> w.cur[s].body.adr, beat |-> w.beat[s], ver |-> aq[s]]]

ErrRsp(r) ==
  [dst |-> r.src, src |-> Sink, lock |-> FALSE, qos |-> 0,
   body |-> [last |-> TRUE, err |-> TRUE, adr |-> r.body.adr, beat |-> 0, ver |-> 0]]

(* What each response router input is given. *)
Answer(p, w) ==
  IF p = Sink THEN IF sink # None THEN ErrRsp(sink) ELSE None
  ELSE IF rspq[p] # <<>> THEN Head(rspq[p])
  ELSE IF Bypass /\ DoneBeat(p, w) THEN BeatRsp(p, w)
  ELSE None

Direct(s, w) == Bypass /\ DoneBeat(s, w) /\ rspq[s] = <<>> /\ RR!Ready(s)

RspqAfter(s, w) ==
  LET rest == IF rspq[s] # <<>> /\ RR!Ready(s) THEN Tail(rspq[s]) ELSE rspq[s]
  IN IF DoneBeat(s, w) /\ ~Direct(s, w) THEN Append(rest, BeatRsp(s, w)) ELSE rest

LatAfter(s, w) ==
  IF Finishes(s, w) THEN None ELSE IF Accepts(s) THEN w.offered[s] ELSE lat[s]

BeatsAfter(s, w) ==
  IF DoneBeat(s, w) THEN (w.beat[s] + 1) % 4
  ELSE IF Accepts(s) /\ w.offered[s] # None THEN 0
  ELSE beats[s]

SinkAfter(w) ==
  IF sink = None THEN w.offered[Sink] ELSE IF RR!Ready(Sink) THEN None ELSE sink

(* The writes the data caches snoop: those the memories ack in this cycle.  *)
Snooped(w) ==
  {[adr |-> w.cur[s].body.adr, src |-> w.cur[s].src] :
     s \in {t \in Slaves : DoneBeat(t, w) /\ w.cur[t].body.we}}
-----------------------------------------------------------------------------
XbarClock(w, go) ==
  /\ QR!Clock(Presented(w), [p \in Ports |-> Accepts(p)], w.qOffer)
  /\ RR!Clock([p \in Ports |-> Answer(p, w)], sent, w.rOffer)
  /\ sent' = [m \in Masters |-> SentAfter(m, w)]
  /\ lat' = [s \in Slaves |-> LatAfter(s, w)]
  /\ held' = [s \in Slaves |-> IF Finishes(s, w) THEN w.cur[s].lock ELSE held[s]]
  /\ beats' = [s \in Slaves |-> BeatsAfter(s, w)]
  /\ rspq' = [s \in Slaves |-> RspqAfter(s, w)]
  /\ sink' = SinkAfter(w)
  /\ ackR' = [s \in Slaves |-> Performs(s, w, go)]
  /\ mem' = [a \in Words |-> MemAfter(a, w, go)]
  /\ aq' = [s \in Slaves |->
       IF Performs(s, w, go) THEN MemAfter(w.cur[s].body.adr, w, go) ELSE aq[s]]
=============================================================================
