----------------------------- MODULE NocRouter -----------------------------
(***************************************************************************)
(* The packet router of the network on chip (rtl/soc/noc_router.v): a      *)
(* FIFO per input, a crossbar, and per output an arbiter with a held       *)
(* grant, a lock owner and ageing.  One step is one clock edge with the    *)
(* values that in_valid/in_pkt, out_ready and hold_v/hold_id have at it.   *)
(* Init is the state reset leaves.                                         *)
(***************************************************************************)
EXTENDS Naturals, Sequences

CONSTANTS
  NumIn, NumOut,  \* the ports
  Depth,          \* packets an input's FIFO holds
  QosEn,          \* whether the qos field counts
  AgeLimit,       \* cycles after which a head is of the top class, 0 for never
  AgeMax,         \* where the age counter saturates: 16'hFFFF
  Body,           \* the part of a packet the router carries and never looks at
  None,           \* no packet, no input, no owner, no output
  Arrivals,       \* Arrivals[i]: the packets input i's sender may present
  Holders         \* the inputs hold_id may name: none where hold_v is tied low

ASSUME PortsAssumption == NumIn \in 1..16 /\ NumOut \in 1..15
ASSUME DepthAssumption == Depth \in Nat \ {0}
ASSUME QosAssumption == QosEn \in BOOLEAN /\ AgeLimit \in Nat /\ AgeMax \in Nat
ASSUME NoneAssumption == None \notin Nat

Ids == 0 .. 15                    \* a node ID is four bits
Inputs == 0 .. NumIn - 1
Outputs == 0 .. NumOut - 1
Class == 0 .. 3

Packet == [dst : Ids, src : Ids, lock : BOOLEAN, qos : Class, body : Body]

ASSUME EnvironmentAssumption ==
  /\ Arrivals \in [Inputs -> SUBSET Packet]
  /\ Holders \subseteq Inputs
  /\ None \notin Packet

VARIABLES
  fifo,      \* fifo[i]: the packets input i holds, oldest first (rd, wr, cnt)
  lastOut,   \* lastOut[i]: the output that last took from input i
  lock,      \* lock[o]: the source o is locked to (lk_v, lk_own)
  grant,     \* grant[o]: the input whose packet was offered and not taken (gnt_v, gnt_i)
  age,       \* age[i]: cycles input i's head has waited (agev)
  misroute,  \* a packet for an output that does not exist was seen
  taken      \* taken[o]: the packet output o's receiver took at the last edge

vars == <<fifo, lastOut, lock, grant, age, misroute, taken>>

Init ==
  /\ fifo = [i \in Inputs |-> <<>>]
  /\ lastOut = [i \in Inputs |-> None]
  /\ lock = [o \in Outputs |-> None]
  /\ grant = [o \in Outputs |-> None]
  /\ age = [i \in Inputs |-> 0]
  /\ misroute = FALSE
  /\ taken = [o \in Outputs |-> None]
-----------------------------------------------------------------------------
(* The combinational part. *)

HasHead(i) == fifo[i] # <<>>
HeadOf(i) == Head(fifo[i])
ReadyOneTooMany(i) == Len(fifo[i]) <= Depth   \* mutant: cnt <= DEPTH
Ready(i) == Len(fifo[i]) < Depth

(* A hold by input h closes the output h last used to everyone but h. *)
Held(o, src, hold) == hold # None /\ lastOut[hold] = o /\ src # hold

ServableLockIgnored(o, hold) ==               \* mutant: no test of lk_own
  {i \in Inputs : HasHead(i) /\ HeadOf(i).dst = o /\ ~Held(o, HeadOf(i).src, hold)}

Servable(o, hold) ==
  {i \in Inputs : /\ HasHead(i)
                  /\ HeadOf(i).dst = o
                  /\ lock[o] \in {None, HeadOf(i).src}
                  /\ ~Held(o, HeadOf(i).src, hold)}

EffClassAgeless(i) == IF QosEn THEN HeadOf(i).qos ELSE 0   \* mutant: agev not read

EffClass(i) ==
  IF AgeLimit # 0 /\ age[i] >= AgeLimit THEN 3
  ELSE IF QosEn THEN HeadOf(i).qos ELSE 0

(* The highest class first, then the lowest number. *)
Precedes(i, j) ==
  \/ EffClass(i) > EffClass(j)
  \/ EffClass(i) = EffClass(j) /\ i <= j

Best(o, hold) ==
  LET servable == Servable(o, hold)
  IN {i \in servable : \A j \in servable : Precedes(i, j)}

OfferAfresh(o, hold) ==                       \* mutant: gnt_v not read
  LET best == Best(o, hold)
  IN IF best = {} THEN None ELSE CHOOSE i \in best : TRUE

(* The input whose head output o offers, None when out_valid[o] is low. *)
Offer(o, hold) ==
  IF grant[o] # None THEN grant[o]
  ELSE LET best == Best(o, hold)
       IN IF best = {} THEN None ELSE CHOOSE i \in best : TRUE

Offers(hold) == [o \in Outputs |-> Offer(o, hold)]

Dropped(i) == HasHead(i) /\ HeadOf(i).dst >= NumOut
-----------------------------------------------------------------------------
(* The clock edge.  pass[o] is the input whose head leaves by output o at   *)
(* the edge, or None; arr[i] is the packet on in_pkt[i], or None when       *)
(* in_valid[i] is low; a packet offered to a full FIFO is not accepted.     *)

Leaves(i, pass) == Dropped(i) \/ \E o \in Outputs : pass[o] = i

FifoAfterPushFirst(i, arr, pass) ==           \* mutant: a push hides a pop
  IF arr[i] # None /\ Ready(i) THEN Append(fifo[i], arr[i])
  ELSE IF Leaves(i, pass) THEN Tail(fifo[i])
  ELSE fifo[i]

FifoAfter(i, arr, pass) ==
  LET rest == IF Leaves(i, pass) THEN Tail(fifo[i]) ELSE fifo[i]
  IN IF arr[i] # None /\ Ready(i) THEN Append(rest, arr[i]) ELSE rest

LockAfter(o, pass) ==
  LET i == pass[o]
  IN IF i = None THEN lock[o]
     ELSE IF HeadOf(i).lock THEN HeadOf(i).src
     ELSE IF lock[o] = HeadOf(i).src THEN None
     ELSE lock[o]

LastOutAfter(i, pass) ==
  IF \E o \in Outputs : pass[o] = i
  THEN CHOOSE o \in Outputs : pass[o] = i
  ELSE lastOut[i]

AgeAfter(i, pass) ==
  IF HasHead(i) /\ ~Leaves(i, pass)
  THEN IF age[i] = AgeMax THEN age[i] ELSE age[i] + 1
  ELSE 0

Update(arr, rdy, offer, pass) ==
  /\ fifo' = [i \in Inputs |-> FifoAfter(i, arr, pass)]
  /\ lock' = [o \in Outputs |-> LockAfter(o, pass)]
  /\ grant' = [o \in Outputs |-> IF rdy[o] THEN None ELSE offer[o]]
  /\ lastOut' = [i \in Inputs |-> LastOutAfter(i, pass)]
  /\ age' = [i \in Inputs |-> AgeAfter(i, pass)]
  /\ misroute' = (misroute \/ \E i \in Inputs : Dropped(i))
  /\ taken' = [o \in Outputs |-> IF pass[o] = None THEN None ELSE HeadOf(pass[o])]

Clock(arr, rdy, offer) ==
  Update(arr, rdy, offer, [o \in Outputs |-> IF rdy[o] THEN offer[o] ELSE None])

(* What the senders present and the receivers accept is theirs to choose.   *)
(* Nothing presented to a full FIFO stands for whatever waits there.        *)
Presented ==
  {arr \in [Inputs -> (UNION {Arrivals[i] : i \in Inputs}) \cup {None}] :
     \A i \in Inputs : arr[i] \in Arrivals[i] \cup {None}}

Next ==
  \E hold \in Holders \cup {None} : \E offer \in {Offers(hold)} :
    \E arr \in Presented, rdy \in [Outputs -> BOOLEAN] :
      /\ \A i \in Inputs : arr[i] # None => Ready(i)
      /\ Clock(arr, rdy, offer)

Spec == Init /\ [][Next]_vars
-----------------------------------------------------------------------------
TypeOK ==
  /\ fifo \in [Inputs -> Seq(Packet)]
  /\ \A i \in Inputs : Len(fifo[i]) <= Depth
  /\ lastOut \in [Inputs -> Outputs \cup {None}]
  /\ lock \in [Outputs -> Ids \cup {None}]
  /\ grant \in [Outputs -> Inputs \cup {None}]
  /\ age \in [Inputs -> 0 .. AgeMax]
  /\ misroute \in BOOLEAN
  /\ taken \in [Outputs -> Packet \cup {None}]

(* A held grant is for a packet that is still there, still wants that       *)
(* output, and may pass its lock.  noc_router.v, "A grant, once an output   *)
(* has offered a packet, is held until the receiver takes it": the offer is *)
(* head[gnt_i] with no test of f_valid, of h_dst or of lk_own, so all three *)
(* have to hold of whatever the FIFO and the lock have become meanwhile.    *)
GrantsStand ==
  \A o \in Outputs : grant[o] # None =>
    /\ HasHead(grant[o])
    /\ HeadOf(grant[o]).dst = o
    /\ lock[o] \in {None, HeadOf(grant[o]).src}

(* Between one locked packet and the unlocked one that closes the sequence, *)
(* an output passes packets of the lock's owner only (noc_router.v,         *)
(* "Atomics"): what keeps an AMO's write next to its read at the slave.     *)
LockExcludes ==
  [][\A o \in Outputs :
       lock[o] # None /\ taken'[o] # None => taken'[o].src = lock[o]]_vars

(* What a receiver has been offered and has not taken does not change under *)
(* it: the next thing it takes is that packet (noc_router.v, "out_valid     *)
(* never drops and the packet never changes while it waits").               *)
OffersStand ==
  [][\A o \in Outputs : grant[o] # None =>
       \/ taken'[o] = HeadOf(grant[o])
       \/ /\ taken'[o] = None
          /\ grant'[o] = grant[o]
          /\ fifo'[grant[o]] # <<>>
          /\ Head(fifo'[grant[o]]) = HeadOf(grant[o])]_vars

(* What of a queue is for output o, in its order: SelectSeq, written out    *)
(* so that it can be reasoned about.                                        *)
Towards(q, o) ==
  LET of[n \in 0 .. Len(q)] ==
        IF n = 0 THEN <<>>
        ELSE IF q[n].dst = o THEN Append(of[n - 1], q[n]) ELSE of[n - 1]
  IN of[Len(q)]

(* Seen from outside the router is a set of reliable first-in first-out     *)
(* channels, one from each input to each output, under exclusive locks: no  *)
(* packet is lost, repeated, reordered within its channel or delivered to   *)
(* another port (noc_router.v, "Ordering").  A packet with no port to go to *)
(* is in no channel.                                                        *)
Channels == INSTANCE NocChannels WITH
  Packet <- UNION {Arrivals[i] : i \in Inputs},
  chan <- [i \in Inputs |-> [o \in Outputs |-> Towards(fifo[i], o)]],
  owner <- lock

ImplementsChannels == Channels!Spec
=============================================================================
