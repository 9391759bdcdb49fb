--------------------------- MODULE WbInterconnect ---------------------------
(***************************************************************************)
(* The shared bus (rtl/soc/wb_interconnect.v), the fabric the SoC is built *)
(* with by default: fixed priority over the masters, a grant latched for   *)
(* the whole of a transfer, the override that keeps an AMO's write next to *)
(* its read, and bursts of four acks.  The slaves are memories (wb_ram.v), *)
(* whose words hold versions (see NocXbar).                                *)
(*                                                                         *)
(* The masters' wires are parameters of the clock edge: port[m] is master  *)
(* m's request (cyc and stb), or None; phase is the set of harts in the    *)
(* write phase of an AMO (d_amo_wrphase); go[s] says that memory s         *)
(* performs in this cycle.                                                 *)
(***************************************************************************)
EXTENDS Naturals

CONSTANTS
  NumHarts,
  NumS,         \* slaves that are memories
  Words,        \* the addresses
  DstOf,        \* DstOf[a]: the slave that decodes a, NumS where none does
  BurstSlaves,  \* the slaves that can burst
  None

(* The masters, in the order of their priority. *)
Debug == 0
Data(h) == 1 + h
Walker(h) == 1 + NumHarts + h
Fetch(h) == 1 + 2 * NumHarts + h
Npu == 1 + 3 * NumHarts
Masters == 0 .. Npu

Slaves == 0 .. NumS - 1
LastAck == 3                       \* a burst is four acks

VARIABLES
  lock,       \* the master whose transfer is under way, or None (lock, lock_dbg .. lock_n)
  lockB,      \* it is a burst (lock_b)
  burstAcks,  \* the acks of it already delivered
  ackR,       \* ackR[s]: the memory acks in this cycle (wb_ram's ack_r)
  aq,         \* aq[s]: what the memory read, as a version (wb_ram's a_q)
  mem,        \* mem[a]: the version of word a
  asked       \* asked[s]: who asked the memory for what it now acks, and for what

busVars == <<lock, lockB, burstAcks, ackR, aq, mem, asked>>

BusInit ==
  /\ lock = None
  /\ lockB = FALSE
  /\ burstAcks = 0
  /\ ackR = [s \in Slaves |-> FALSE]
  /\ aq = [s \in Slaves |-> 0]
  /\ mem = [a \in Words |-> 0]
  /\ asked = [s \in Slaves |-> None]
-----------------------------------------------------------------------------
First(S) == CHOOSE m \in S : \A n \in S : m <= n

\* mutants: the override of d_amo_wrphase, and the latched grant, left out
SelectedByPriority(port, phase) ==
  LET asking == {m \in Masters : port[m] # None}
  IN IF lock # None THEN lock ELSE IF asking # {} THEN First(asking) ELSE None

SelectedUnlatched(port, phase) ==
  LET asking == {m \in Masters : port[m] # None}
  IN IF phase # {} THEN Data(First(phase)) ELSE IF asking # {} THEN First(asking) ELSE None

(* The master that owns the bus in this cycle, None when nobody asks: the   *)
(* data master of a hart in an AMO's write phase owns it whether it asks or *)
(* not.                                                                     *)
Selected(port, phase) ==
  LET asking == {m \in Masters : port[m] # None}
  IN IF lock # None THEN lock
     ELSE IF phase # {} THEN Data(First(phase))
     ELSE IF asking # {} THEN First(asking)
     ELSE None

(* The wires of a cycle, sel being its owner: the owner's request, whether  *)
(* it is acked (an unmapped address at once), whether it starts a burst.    *)
Wires(port, sel) ==
  LET cur == IF sel = None THEN None ELSE port[sel]
      to == IF cur = None THEN None ELSE DstOf[cur.adr]
  IN [sel |-> sel, cur |-> cur, to |-> to,
      ack |-> to # None /\ (to \notin Slaves \/ ackR[to]),
      burst |-> cur # None /\ cur.burst /\ to \in BurstSlaves]

Acked(m, w) == w.sel = m /\ w.ack

(* What a read returns: nothing is behind an unmapped address.              *)
Version(w) == IF w.to \in Slaves THEN aq[w.to] ELSE 0

(* The write the data caches snoop, as a set. *)
Snooped(w) ==
  IF w.ack /\ w.cur.we THEN {[adr |-> w.cur.adr, src |-> w.sel]} ELSE {}
-----------------------------------------------------------------------------
Performs(s, w, go) == w.to = s /\ ~ackR[s] /\ go[s]

MemAfter(a, w, go) ==
  IF w.to \in Slaves /\ w.cur.we /\ w.cur.adr = a /\ Performs(w.to, w, go)
  THEN mem[a] + 1 ELSE mem[a]

Starts(w) == lock = None /\ w.cur # None /\ (~w.ack \/ w.burst)
EndsOnLastAck(w) == lock # None /\ w.ack /\ burstAcks = LastAck   \* mutant: no lock_b
Ends(w) == lock # None /\ w.ack /\ (~lockB \/ burstAcks = LastAck)

BusClock(w, go) ==
  /\ lock' = IF Starts(w) THEN w.sel ELSE IF Ends(w) THEN None ELSE lock
  /\ lockB' = IF Starts(w) THEN w.burst ELSE IF Ends(w) THEN FALSE ELSE lockB
  /\ burstAcks' =
       IF Starts(w) THEN IF w.ack THEN 1 ELSE 0
       ELSE IF Ends(w) THEN 0
       ELSE IF lock # None /\ w.ack THEN burstAcks + 1
       ELSE burstAcks
  /\ ackR' = [s \in Slaves |-> Performs(s, w, go)]
  /\ mem' = [a \in Words |-> MemAfter(a, w, go)]
  /\ aq' = [s \in Slaves |->
       IF Performs(s, w, go) THEN MemAfter(w.cur.adr, w, go) ELSE aq[s]]
  /\ asked' = [s \in Slaves |->
       IF Performs(s, w, go) THEN <<w.sel, w.cur>> ELSE asked[s]]
=============================================================================
