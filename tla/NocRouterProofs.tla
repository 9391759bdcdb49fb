-------------------------- MODULE NocRouterProofs --------------------------
(***************************************************************************)
(* NocRouter's safety for every number of ports, depth and class setting.  *)
(* The inductive invariant is IInv: the types, and that a held grant       *)
(* still stands for a packet the output may pass.  It is also enough for   *)
(* the refinement: an edge hands over heads only, so what waits in the     *)
(* FIFOs for an output loses its first packet there and gains at its end,  *)
(* which is a step of that output's channels in NocChannels.               *)
(***************************************************************************)
EXTENDS NocRouter, NatSets, SequenceTheorems, TLAPS

IInv == TypeOK /\ GrantsStand

(* The inputs whose heads leave, by output: what Clock computes of the      *)
(* offers it is given.                                                      *)
PassOf(rdy, hold) ==
  [o \in Outputs |-> IF rdy[o] THEN Offers(hold)[o] ELSE None]

(* What an output offers, afresh or held, is a head packet that wants that  *)
(* output and may pass its lock.                                            *)
LEMMA OfferIsServable ==
  ASSUME IInv, NEW o \in Outputs, NEW hold \in Holders \cup {None},
         Offer(o, hold) # None
  PROVE  /\ Offer(o, hold) \in Inputs
         /\ HasHead(Offer(o, hold))
         /\ HeadOf(Offer(o, hold)).dst = o
         /\ lock[o] \in {None, HeadOf(Offer(o, hold)).src}
<1>1. CASE grant[o] # None
  <2>1. Offer(o, hold) = grant[o]
    BY <1>1 DEF Offer
  <2>2. grant[o] \in Inputs
    BY <1>1 DEF IInv, TypeOK
  <2> QED
    BY <1>1, <2>1, <2>2 DEF IInv, GrantsStand
<1>2. CASE grant[o] = None
  <2>1. Offer(o, hold) \in Best(o, hold)
    BY <1>2 DEF Offer
  <2>2. Offer(o, hold) \in Servable(o, hold)
    BY <2>1 DEF Best
  <2> QED
    BY <2>2 DEF Servable
<1> QED
  BY <1>1, <1>2

(* A head packet is a packet.                                               *)
LEMMA HeadIsPacket ==
  ASSUME TypeOK, NEW i \in Inputs, HasHead(i)
  PROVE  HeadOf(i) \in Packet
BY DEF TypeOK, HasHead, HeadOf

(* Two outputs never offer the same input's head.                           *)
LEMMA OffersAreDisjoint ==
  ASSUME IInv, NEW o \in Outputs, NEW p \in Outputs, NEW hold \in Holders \cup {None},
         Offer(o, hold) # None, Offer(o, hold) = Offer(p, hold)
  PROVE  o = p
BY OfferIsServable

(* What is taken from output o is what it offered.                          *)
LEMMA TakenIsOffered ==
  ASSUME IInv, NEW arr \in Presented, NEW rdy \in [Outputs -> BOOLEAN],
         NEW hold \in Holders \cup {None}, Clock(arr, rdy, Offers(hold)),
         NEW o \in Outputs, taken'[o] # None
  PROVE  /\ Offer(o, hold) # None
         /\ rdy[o]
         /\ taken'[o] = HeadOf(Offer(o, hold))
BY DEF Clock, Update, PassOf, Offers
-----------------------------------------------------------------------------
(* An input's FIFO after an edge holds packets, and no more than Depth.     *)
LEMMA FifoAfterType ==
  ASSUME IInv, NEW arr \in Presented, NEW rdy \in [Outputs -> BOOLEAN],
         NEW hold \in Holders \cup {None}, NEW i \in Inputs
  PROVE  /\ FifoAfter(i, arr, PassOf(rdy, hold)) \in Seq(Packet)
         /\ Len(FifoAfter(i, arr, PassOf(rdy, hold))) <= Depth
<1> DEFINE rest == IF Leaves(i, PassOf(rdy, hold)) THEN Tail(fifo[i]) ELSE fifo[i]
<1>1. fifo[i] \in Seq(Packet) /\ Len(fifo[i]) <= Depth
  BY DEF IInv, TypeOK
<1>2. arr[i] # None => arr[i] \in Packet
  BY EnvironmentAssumption DEF Presented
<1>3. Leaves(i, PassOf(rdy, hold)) => fifo[i] # <<>>
  <2>1. ASSUME NEW o \in Outputs, PassOf(rdy, hold)[o] = i PROVE HasHead(i)
    <3>1. i # None
      BY NoneAssumption, PortsAssumption DEF Inputs
    <3>2. Offer(o, hold) = i
      BY <2>1, <3>1 DEF PassOf, Offers
    <3> QED
      BY <3>1, <3>2, OfferIsServable
  <2> QED
    BY <2>1 DEF Leaves, Dropped, HasHead
<1>4. rest \in Seq(Packet) /\ Len(rest) <= Len(fifo[i])
  BY <1>1, <1>3
<1>5. CASE arr[i] # None /\ Ready(i)
  <2>1. FifoAfter(i, arr, PassOf(rdy, hold)) = Append(rest, arr[i])
    BY <1>5 DEF FifoAfter
  <2>2. Len(fifo[i]) < Depth
    BY <1>5 DEF Ready
  <2>3. Append(rest, arr[i]) \in Seq(Packet) /\ Len(Append(rest, arr[i])) = Len(rest) + 1
    BY <1>2, <1>4, <1>5
  <2> QED
    BY <1>1, <1>4, <2>1, <2>2, <2>3, DepthAssumption
<1>6. CASE ~(arr[i] # None /\ Ready(i))
  <2>1. FifoAfter(i, arr, PassOf(rdy, hold)) = rest
    BY <1>6 DEF FifoAfter
  <2> QED
    BY <1>1, <1>4, <2>1, DepthAssumption
<1> QED
  BY <1>5, <1>6

(* The head of a FIFO that is not popped at an edge is its head afterwards. *)
LEMMA HeadStays ==
  ASSUME IInv, NEW arr \in Presented, NEW rdy \in [Outputs -> BOOLEAN],
         NEW hold \in Holders \cup {None}, NEW i \in Inputs,
         HasHead(i), ~Leaves(i, PassOf(rdy, hold))
  PROVE  /\ FifoAfter(i, arr, PassOf(rdy, hold)) # <<>>
         /\ Head(FifoAfter(i, arr, PassOf(rdy, hold))) = HeadOf(i)
<1>1. fifo[i] \in Seq(Packet) /\ fifo[i] # <<>>
  BY DEF IInv, TypeOK, HasHead
<1>2. arr[i] # None => arr[i] \in Packet
  BY EnvironmentAssumption DEF Presented
<1>3. CASE arr[i] # None /\ Ready(i)
  <2>1. FifoAfter(i, arr, PassOf(rdy, hold)) = Append(fifo[i], arr[i])
    BY <1>3 DEF FifoAfter
  <2> QED
    BY <1>1, <1>2, <1>3, <2>1 DEF HeadOf
<1>4. CASE ~(arr[i] # None /\ Ready(i))
  BY <1>1, <1>4 DEF FifoAfter, HeadOf
<1> QED
  BY <1>3, <1>4
-----------------------------------------------------------------------------
(* The types survive an edge.                                               *)
LEMMA ClockKeepsTypes ==
  ASSUME IInv, NEW arr \in Presented, NEW rdy \in [Outputs -> BOOLEAN],
         NEW hold \in Holders \cup {None}, Clock(arr, rdy, Offers(hold))
  PROVE  TypeOK'
<1> USE PortsAssumption, QosAssumption, NoneAssumption
<1>1. /\ fifo' \in [Inputs -> Seq(Packet)]
      /\ \A i \in Inputs : Len(fifo'[i]) <= Depth
  BY FifoAfterType DEF Clock, Update, PassOf, Offers
<1>2. lastOut' \in [Inputs -> Outputs \cup {None}]
  <2>1. ASSUME NEW i \in Inputs
        PROVE  LastOutAfter(i, PassOf(rdy, hold)) \in Outputs \cup {None}
    BY DEF LastOutAfter, IInv, TypeOK
  <2> QED
    BY <2>1 DEF Clock, Update, PassOf, Offers
<1>3. ASSUME NEW o \in Outputs, PassOf(rdy, hold)[o] # None
      PROVE  HeadOf(PassOf(rdy, hold)[o]) \in Packet
  <2>1. PassOf(rdy, hold)[o] = Offer(o, hold) /\ Offer(o, hold) # None
    BY <1>3 DEF PassOf, Offers
  <2> QED
    BY <2>1, OfferIsServable, HeadIsPacket DEF IInv
<1>4. lock' \in [Outputs -> Ids \cup {None}]
  <2>1. ASSUME NEW o \in Outputs
        PROVE  LockAfter(o, PassOf(rdy, hold)) \in Ids \cup {None}
    <3>1. CASE PassOf(rdy, hold)[o] = None
      BY <3>1 DEF LockAfter, IInv, TypeOK
    <3>2. CASE PassOf(rdy, hold)[o] # None
      <4>1. HeadOf(PassOf(rdy, hold)[o]).src \in Ids
        BY <1>3, <3>2 DEF Packet
      <4> QED
        BY <3>2, <4>1 DEF LockAfter, IInv, TypeOK
    <3> QED
      BY <3>1, <3>2
  <2> QED
    BY <2>1 DEF Clock, Update, PassOf, Offers
<1>5. grant' \in [Outputs -> Inputs \cup {None}]
  BY OfferIsServable DEF Clock, Update, PassOf, Offers
<1>6. age' \in [Inputs -> 0 .. AgeMax]
  <2>1. ASSUME NEW i \in Inputs
        PROVE  AgeAfter(i, PassOf(rdy, hold)) \in 0 .. AgeMax
    BY DEF AgeAfter, IInv, TypeOK
  <2> QED
    BY <2>1 DEF Clock, Update, PassOf, Offers
<1>7. misroute' \in BOOLEAN
  BY DEF Clock, Update, PassOf, Offers, IInv, TypeOK
<1>8. taken' \in [Outputs -> Packet \cup {None}]
  BY <1>3 DEF Clock, Update, PassOf, Offers
<1> QED
  BY <1>1, <1>2, <1>4, <1>5, <1>6, <1>7, <1>8 DEF TypeOK

(* An offer that was not taken is still an offer of the same head, which no *)
(* other output has taken.                                                  *)
LEMMA RefusedOfferStays ==
  ASSUME IInv, NEW arr \in Presented, NEW rdy \in [Outputs -> BOOLEAN],
         NEW hold \in Holders \cup {None}, Clock(arr, rdy, Offers(hold)),
         NEW o \in Outputs, ~rdy[o], Offer(o, hold) # None
  PROVE  /\ taken'[o] = None
         /\ grant'[o] = Offer(o, hold)
         /\ fifo'[Offer(o, hold)] # <<>>
         /\ Head(fifo'[Offer(o, hold)]) = HeadOf(Offer(o, hold))
         /\ lock'[o] = lock[o]
<1> DEFINE i == Offer(o, hold)
<1>1. /\ i \in Inputs
      /\ HasHead(i)
      /\ HeadOf(i).dst = o
  BY OfferIsServable
<1>2. ~Leaves(i, PassOf(rdy, hold))
  <2>1. ~Dropped(i)
    BY <1>1, PortsAssumption DEF Dropped, Outputs
  <2>2. ASSUME NEW p \in Outputs, PassOf(rdy, hold)[p] = i
        PROVE  FALSE
    <3>1. i # None
      BY <1>1, NoneAssumption, PortsAssumption DEF Inputs
    <3>2. rdy[p] /\ Offer(p, hold) = i
      BY <2>2, <3>1 DEF PassOf, Offers
    <3>3. p = o
      BY <3>1, <3>2, OffersAreDisjoint
    <3> QED
      BY <3>2, <3>3
  <2> QED
    BY <2>1, <2>2 DEF Leaves
<1>3. fifo'[i] = FifoAfter(i, arr, PassOf(rdy, hold))
  BY <1>1 DEF Clock, Update, PassOf, Offers
<1> QED
  BY <1>1, <1>2, <1>3, HeadStays DEF Clock, Update, PassOf, Offers, LockAfter

(* Held grants stand after an edge.                                         *)
LEMMA ClockKeepsGrants ==
  ASSUME IInv, NEW arr \in Presented, NEW rdy \in [Outputs -> BOOLEAN],
         NEW hold \in Holders \cup {None}, Clock(arr, rdy, Offers(hold))
  PROVE  GrantsStand'
<1> SUFFICES ASSUME NEW o \in Outputs, grant'[o] # None
             PROVE  /\ fifo'[grant'[o]] # <<>>
                    /\ Head(fifo'[grant'[o]]).dst = o
                    /\ lock'[o] \in {None, Head(fifo'[grant'[o]]).src}
  BY DEF GrantsStand, HasHead, HeadOf
<1>1. ~rdy[o] /\ Offer(o, hold) # None
  BY DEF Clock, Update, PassOf, Offers
<1> QED
  BY <1>1, RefusedOfferStays, OfferIsServable
-----------------------------------------------------------------------------
(* The inductive invariant holds at reset.                                  *)
LEMMA InitEstablishesIInv == Init => IInv
<1> SUFFICES ASSUME Init
             PROVE  IInv
  OBVIOUS
<1>1. /\ fifo \in [Inputs -> Seq(Packet)]
      /\ \A i \in Inputs : Len(fifo[i]) <= Depth
  BY DepthAssumption DEF Init
<1>2. age \in [Inputs -> 0 .. AgeMax]
  BY QosAssumption DEF Init
<1>3. GrantsStand
  BY DEF Init, GrantsStand
<1> QED
  BY <1>1, <1>2, <1>3 DEF Init, IInv, TypeOK

(* A step of the router is a clock edge with what is offered at it.         *)
LEMMA NextIsClock ==
  Next => \E arr \in Presented, rdy \in [Outputs -> BOOLEAN],
             hold \in Holders \cup {None} : Clock(arr, rdy, Offers(hold))
  BY DEF Next

(* Every step keeps it.                                                     *)
LEMMA StepKeepsIInv == IInv /\ [Next]_vars => IInv'
<1> SUFFICES ASSUME IInv, [Next]_vars
             PROVE  IInv'
  OBVIOUS
<1>1. ASSUME NEW arr \in Presented, NEW rdy \in [Outputs -> BOOLEAN],
             NEW hold \in Holders \cup {None}, Clock(arr, rdy, Offers(hold))
      PROVE  IInv'
  BY <1>1, ClockKeepsTypes, ClockKeepsGrants DEF IInv
<1>2. CASE UNCHANGED vars
  BY <1>2 DEF IInv, TypeOK, GrantsStand, HasHead, HeadOf, vars
<1> QED
  BY <1>1, <1>2, NextIsClock

(* IInv is an invariant of the router.                                      *)
THEOREM Invariance == Spec => []IInv
BY InitEstablishesIInv, StepKeepsIInv, PTL DEF Spec

(* The types: no FIFO ever holds more than Depth packets, so nothing is     *)
(* written over, and every grant, lock and last output names a port.        *)
THEOREM TypeCorrect == Spec => []TypeOK
<1>1. IInv => TypeOK
  BY DEF IInv
<1> QED
  BY <1>1, Invariance, PTL

(* A held grant stands for a packet that is there, wants that output and    *)
(* may pass its lock.                                                       *)
THEOREM GrantsAlwaysStand == Spec => []GrantsStand
<1>1. IInv => GrantsStand
  BY DEF IInv
<1> QED
  BY <1>1, Invariance, PTL

(* While an output is locked it passes packets of the owner only.           *)
THEOREM LocksExclude == Spec => LockExcludes
<1> DEFINE Excl == \A o \in Outputs :
       lock[o] # None /\ taken'[o] # None => taken'[o].src = lock[o]
<1>1. ASSUME IInv, [Next]_vars
      PROVE  [Excl]_vars
  <2>1. ASSUME NEW arr \in Presented, NEW rdy \in [Outputs -> BOOLEAN],
               NEW hold \in Holders \cup {None}, Clock(arr, rdy, Offers(hold))
        PROVE  Excl
    <3> SUFFICES ASSUME NEW o \in Outputs, lock[o] # None, taken'[o] # None
                 PROVE  taken'[o].src = lock[o]
      OBVIOUS
    <3> QED
      BY <1>1, <2>1, TakenIsOffered, OfferIsServable
  <2> QED
    BY <1>1, <2>1, NextIsClock
<1> QED
  BY <1>1, Invariance, PTL DEF Spec, LockExcludes

(* A packet that was offered is the next the receiver takes.                *)
THEOREM OffersAlwaysStand == Spec => OffersStand
<1> DEFINE Stand == \A o \in Outputs : grant[o] # None =>
       \/ taken'[o] = HeadOf(grant[o])
       \/ /\ taken'[o] = None
          /\ grant'[o] = grant[o]
          /\ fifo'[grant[o]] # <<>>
          /\ Head(fifo'[grant[o]]) = HeadOf(grant[o])
<1>1. ASSUME IInv, [Next]_vars
      PROVE  [Stand]_vars
  <2>1. ASSUME NEW arr \in Presented, NEW rdy \in [Outputs -> BOOLEAN],
               NEW hold \in Holders \cup {None}, Clock(arr, rdy, Offers(hold))
        PROVE  Stand
    <3> SUFFICES ASSUME NEW o \in Outputs, grant[o] # None
                 PROVE  \/ taken'[o] = HeadOf(grant[o])
                        \/ /\ taken'[o] = None
                           /\ grant'[o] = grant[o]
                           /\ fifo'[grant[o]] # <<>>
                           /\ Head(fifo'[grant[o]]) = HeadOf(grant[o])
      OBVIOUS
    <3>1. Offer(o, hold) = grant[o]
      BY DEF Offer
    <3>2. CASE rdy[o]
      BY <2>1, <3>1, <3>2 DEF Clock, Update, PassOf, Offers
    <3>3. CASE ~rdy[o]
      BY <1>1, <2>1, <3>1, <3>3, RefusedOfferStays
    <3> QED
      BY <3>2, <3>3
  <2> QED
    BY <1>1, <2>1, NextIsClock
<1> QED
  BY <1>1, Invariance, PTL DEF Spec, OffersStand

-----------------------------------------------------------------------------
(* Towards, the part of a queue that is for one output: what Append and     *)
(* Tail do to it.                                                           *)

(* Its loop, over the first k packets of q.                                 *)
TowardsFrom(f, q, k, o) ==
  /\ f[0] = <<>>
  /\ \A n \in 1 .. k : f[n] = IF q[n].dst = o THEN Append(f[n - 1], q[n]) ELSE f[n - 1]

(* Towards is what that function gives for the whole queue.                 *)
LEMMA TowardsIs ==
  ASSUME NEW S, NEW q \in Seq(S), NEW o
  PROVE  \E f : /\ f \in [0 .. Len(q) -> Seq(S)]
                /\ TowardsFrom(f, q, Len(q), o)
                /\ Towards(q, o) = f[Len(q)]
<1> DEFINE k == Len(q)
           G == [x \in Nat \X Seq(S) |->
                   IF x[1] \in 1 .. k /\ q[x[1]].dst = o THEN Append(x[2], q[x[1]]) ELSE x[2]]
           Loop(f) == [n \in 0 .. Len(q) |->
                         IF n = 0 THEN <<>>
                         ELSE IF q[n].dst = o THEN Append(f[n - 1], q[n]) ELSE f[n - 1]]
           of == CHOOSE f : f = Loop(f)
<1>1. k \in Nat /\ \A n \in 1 .. k : q[n] \in S
  OBVIOUS
<1>2. G \in [Nat \X Seq(S) -> Seq(S)]
  <2>1. ASSUME NEW x \in Nat \X Seq(S)
        PROVE  (IF x[1] \in 1 .. k /\ q[x[1]].dst = o THEN Append(x[2], q[x[1]]) ELSE x[2])
                 \in Seq(S)
    <3>1. x[2] \in Seq(S)
      OBVIOUS
    <3>2. ASSUME x[1] \in 1 .. k
          PROVE  Append(x[2], q[x[1]]) \in Seq(S)
      <4> HIDE DEF k
      <4> QED
        BY <1>1, <3>1, <3>2, AppendProperties
    <3> QED
      BY <3>1, <3>2
  <2> QED
    BY <2>1
<1>3. PICK f : Follows(f, Seq(S), <<>>, G, k)
  <2> HIDE DEF G, k
  <2>1. <<>> \in Seq(S)
    OBVIOUS
  <2> QED
    BY <1>1, <1>2, <2>1, RecursionExists
<1>4. f \in [0 .. k -> Seq(S)] /\ f[0] = <<>>
  BY <1>3 DEF Follows
<1>5. ASSUME NEW n \in 1 .. k
      PROVE  f[n] = IF q[n].dst = o THEN Append(f[n - 1], q[n]) ELSE f[n - 1]
  <2>1. n - 1 \in 0 .. k /\ n \in Nat
    BY <1>1
  <2>2. <<n, f[n - 1]>> \in Nat \X Seq(S)
    BY <1>4, <2>1
  <2>3. f[n] = G[<<n, f[n - 1]>>]
    BY <1>3 DEF Follows
  <2> QED
    BY <2>2, <2>3
<1>6. f = Loop(f)
  <2>1. \A n \in 0 .. k : n # 0 => n \in 1 .. k
    BY <1>1
  <2> HIDE DEF G
  <2> QED
    BY <1>4, <1>5, <2>1
<1>7. of = Loop(of)
  <2> HIDE DEF Loop
  <2> QED
    BY <1>6
<1>8. Towards(q, o) = of[Len(q)]
  BY DEF Towards
<1>9. ASSUME NEW n \in 0 .. k
      PROVE  of[n] = f[n]
  <2> DEFINE Other == {m \in 0 .. k : of[m] # f[m]}
  <2>1. SUFFICES ASSUME Other # {}
                 PROVE  FALSE
    OBVIOUS
  <2>2. PICK m \in Other : \A j \in Other : m <= j
    <3>1. Other \in SUBSET Nat
      BY <1>1
    <3> HIDE DEF Other
    <3> QED
      BY <2>1, <3>1, LeastOfNats
  <2>3. m \in 0 .. k /\ m \in Nat /\ of[m] # f[m]
    BY <1>1, <2>2
  <2> DEFINE Step(g) == IF m = 0 THEN <<>>
                        ELSE IF q[m].dst = o THEN Append(g[m - 1], q[m]) ELSE g[m - 1]
  <2>4. of[m] = Step(of) /\ f[m] = Step(f)
    <3> HIDE DEF of
    <3> QED
      BY <1>6, <1>7, <2>3
  <2> HIDE DEF of
  <2>5. m # 0 => of[m - 1] = f[m - 1]
    <3>1. m # 0 => m - 1 \in 0 .. k /\ m - 1 \notin Other
      BY <1>1, <2>2, <2>3
    <3> QED
      BY <3>1
  <2> QED
    BY <2>3, <2>4, <2>5
<1>10. TowardsFrom(f, q, Len(q), o)
  BY <1>4, <1>5 DEF TowardsFrom
<1>11. Towards(q, o) = f[Len(q)]
  <2> HIDE DEF of
  <2> QED
    BY <1>1, <1>8, <1>9
<1> QED
  BY <1>4, <1>10, <1>11

(* The empty queue has nothing for anybody.                                 *)
LEMMA TowardsOfEmpty == \A o : Towards(<<>>, o) = <<>>
<1>1. <<>> \in Seq({}) /\ Len(<<>>) = 0
  OBVIOUS
<1>2. ASSUME NEW o
      PROVE  Towards(<<>>, o) = <<>>
  <2>1. PICK f : TowardsFrom(f, <<>>, 0, o) /\ Towards(<<>>, o) = f[0]
    BY <1>1, TowardsIs
  <2> QED
    BY <2>1 DEF TowardsFrom
<1> QED
  BY <1>2

(* A packet that joins the queue joins the part it is for, at the end.      *)
LEMMA TowardsOfAppend ==
  ASSUME NEW S, NEW q \in Seq(S), NEW x \in S, NEW o
  PROVE  Towards(Append(q, x), o) =
           IF x.dst = o THEN Append(Towards(q, o), x) ELSE Towards(q, o)
<1> DEFINE r == Append(q, x)
           k == Len(q)
<1>1. /\ r \in Seq(S) /\ Len(r) = k + 1 /\ k \in Nat
      /\ \A i \in 1 .. k : r[i] = q[i]
      /\ r[k + 1] = x
  BY AppendProperties
<1>2. PICK f : TowardsFrom(f, q, k, o) /\ Towards(q, o) = f[k]
  BY TowardsIs
<1>3. PICK g : TowardsFrom(g, r, k + 1, o) /\ Towards(r, o) = g[k + 1]
  <2> HIDE DEF r, k
  <2> QED
    BY <1>1, TowardsIs
<1> HIDE DEF r, k
<1>4. /\ f[0] = <<>>
      /\ \A n \in 1 .. k :
           f[n] = IF q[n].dst = o THEN Append(f[n - 1], q[n]) ELSE f[n - 1]
  BY <1>2 DEF TowardsFrom
<1>5. /\ g[0] = <<>>
      /\ \A n \in 1 .. k + 1 :
           g[n] = IF r[n].dst = o THEN Append(g[n - 1], r[n]) ELSE g[n - 1]
  BY <1>3 DEF TowardsFrom
<1>6. ASSUME NEW n \in 0 .. k
      PROVE  g[n] = f[n]
  <2> DEFINE Other == {m \in 0 .. k : g[m] # f[m]}
  <2>1. SUFFICES ASSUME Other # {}
                 PROVE  FALSE
    OBVIOUS
  <2>2. PICK m \in Other : \A j \in Other : m <= j
    <3>1. Other \in SUBSET Nat
      BY <1>1
    <3> HIDE DEF Other
    <3> QED
      BY <2>1, <3>1, LeastOfNats
  <2>3. m \in 0 .. k /\ g[m] # f[m]
    BY <2>2
  <2>4. m # 0
    BY <1>4, <1>5, <2>3
  <2>5. m \in 1 .. k /\ m \in 1 .. k + 1 /\ m - 1 \in 0 .. k /\ m - 1 \notin Other
    BY <1>1, <2>2, <2>3, <2>4
  <2>6. g[m - 1] = f[m - 1]
    BY <2>5
  <2> QED
    BY <1>1, <1>4, <1>5, <2>3, <2>5, <2>6
<1>7. k + 1 \in 1 .. k + 1 /\ k \in 0 .. k /\ k + 1 - 1 = k
  BY <1>1
<1>8. g[k + 1] = IF x.dst = o THEN Append(f[k], x) ELSE f[k]
  BY <1>1, <1>5, <1>6, <1>7
<1> QED
  BY <1>2, <1>3, <1>8 DEF r

(* The packet that leaves a queue is the oldest of the part it is for, and  *)
(* the other parts stay.                                                    *)
LEMMA TowardsOfTail ==
  ASSUME NEW S, NEW q \in Seq(S), q # <<>>, NEW o
  PROVE  /\ Head(q).dst = o =>
              /\ Towards(q, o) # <<>>
              /\ Head(Towards(q, o)) = Head(q)
              /\ Towards(Tail(q), o) = Tail(Towards(q, o))
         /\ Head(q).dst # o => Towards(Tail(q), o) = Towards(q, o)
<1> DEFINE r == Tail(q)
           k == Len(r)
<1>1. /\ r \in Seq(S) /\ Len(q) = k + 1 /\ k \in Nat
      /\ \A i \in 1 .. k : r[i] = q[i + 1]
  BY HeadTailProperties
<1>2. Head(q) = q[1] /\ q[1] \in S
  OBVIOUS
<1>3. PICK f \in [0 .. k + 1 -> Seq(S)] :
        TowardsFrom(f, q, k + 1, o) /\ Towards(q, o) = f[k + 1]
  <2>1. PICK f : /\ f \in [0 .. Len(q) -> Seq(S)]
                 /\ TowardsFrom(f, q, Len(q), o)
                 /\ Towards(q, o) = f[Len(q)]
    BY TowardsIs
  <2> HIDE DEF r, k
  <2> QED
    BY <1>1, <2>1
<1>4. PICK g : TowardsFrom(g, r, k, o) /\ Towards(r, o) = g[k]
  <2>1. r \in Seq(S)
    BY <1>1
  <2> HIDE DEF r
  <2> QED
    BY <2>1, TowardsIs
<1> HIDE DEF r, k
<1>5. /\ f[0] = <<>>
      /\ \A n \in 1 .. k + 1 :
           f[n] = IF q[n].dst = o THEN Append(f[n - 1], q[n]) ELSE f[n - 1]
  BY <1>3 DEF TowardsFrom
<1>6. /\ g[0] = <<>>
      /\ \A n \in 1 .. k :
           g[n] = IF r[n].dst = o THEN Append(g[n - 1], r[n]) ELSE g[n - 1]
  BY <1>4 DEF TowardsFrom
<1> DEFINE Shifted(n) ==
      /\ Head(q).dst = o =>
           f[n + 1] # <<>> /\ Head(f[n + 1]) = Head(q) /\ Tail(f[n + 1]) = g[n]
      /\ Head(q).dst # o => f[n + 1] = g[n]
<1>7. Shifted(0)
  <2>1. f[1] = IF q[1].dst = o THEN Append(<<>>, q[1]) ELSE <<>>
    <3>1. 1 \in 1 .. k + 1 /\ 1 - 1 = 0
      BY <1>1
    <3> QED
      BY <1>5, <3>1
  <2>2. <<>> \in Seq(S)
    OBVIOUS
  <2>3. /\ Append(<<>>, q[1]) # <<>> /\ Head(Append(<<>>, q[1])) = q[1]
        /\ Tail(Append(<<>>, q[1])) = <<>>
    BY <1>2, <2>2, HeadTailAppend, AppendProperties
  <2>4. /\ Head(q).dst = o => f[1] # <<>> /\ Head(f[1]) = Head(q) /\ Tail(f[1]) = g[0]
        /\ Head(q).dst # o => f[1] = g[0]
    BY <1>2, <1>6, <2>1, <2>3
  <2>5. 0 + 1 = 1
    OBVIOUS
  <2> QED
    BY <2>4, <2>5
<1>8. ASSUME NEW n \in 1 .. k, Shifted(n - 1)
      PROVE  Shifted(n)
  <2> DEFINE s == f[n]
             x == q[n + 1]
  <2>1. n + 1 \in 1 .. k + 1 /\ n \in 0 .. k + 1 /\ n - 1 + 1 = n /\ n + 1 - 1 = n
        /\ r[n] = x
    BY <1>1
  <2>2. f[n + 1] = IF x.dst = o THEN Append(s, x) ELSE s
    BY <1>5, <2>1
  <2>3. g[n] = IF x.dst = o THEN Append(g[n - 1], x) ELSE g[n - 1]
    BY <1>6, <2>1
  <2>4. s \in Seq(S) /\ x \in S
    BY <1>1, <1>3, <2>1
  <2>5. /\ Head(q).dst = o => s # <<>> /\ Head(s) = Head(q) /\ Tail(s) = g[n - 1]
        /\ Head(q).dst # o => s = g[n - 1]
    BY <1>8, <2>1
  <2> HIDE DEF s, x
  <2>6. /\ Append(s, x) # <<>>
        /\ s # <<>> => Head(Append(s, x)) = Head(s) /\ Tail(Append(s, x)) = Append(Tail(s), x)
    BY <2>4, HeadTailAppend, AppendProperties
  <2>7. CASE Head(q).dst = o
    BY <2>2, <2>3, <2>5, <2>6, <2>7
  <2>8. CASE Head(q).dst # o
    BY <2>2, <2>3, <2>5, <2>8
  <2> QED
    BY <2>7, <2>8
<1> HIDE DEF Shifted
<1>9. Shifted(k)
  <2> DEFINE Other == {m \in 0 .. k : ~Shifted(m)}
  <2>0. k \in 0 .. k
    BY <1>1
  <2>1. SUFFICES ASSUME Other # {}
                 PROVE  FALSE
    BY <2>0
  <2>2. PICK m \in Other : \A j \in Other : m <= j
    <3>1. Other \in SUBSET Nat
      BY <1>1
    <3> HIDE DEF Other
    <3> QED
      BY <2>1, <3>1, LeastOfNats
  <2>3. m \in 0 .. k /\ ~Shifted(m) /\ m # 0
    BY <1>7, <2>2
  <2>4. m \in 1 .. k /\ m - 1 \in 0 .. k /\ m - 1 \notin Other
    BY <1>1, <2>2, <2>3
  <2>5. Shifted(m - 1)
    BY <2>4
  <2> QED
    BY <1>8, <2>3, <2>4, <2>5
<1> QED
  BY <1>3, <1>4, <1>9 DEF Shifted, r
-----------------------------------------------------------------------------
(* The refinement of NocChannels. *)

(* What leaves an input at an edge leaves the channel it is for.            *)
LEMMA ChannelAfterLeaving ==
  ASSUME IInv, NEW rdy \in [Outputs -> BOOLEAN], NEW hold \in Holders \cup {None},
         NEW i \in Inputs, NEW o \in Outputs
  PROVE  LET pass == PassOf(rdy, hold)
             rest == IF Leaves(i, pass) THEN Tail(fifo[i]) ELSE fifo[i]
         IN  /\ rest \in Seq(Packet)
             /\ Towards(rest, o) = IF pass[o] = i THEN Tail(Towards(fifo[i], o))
                                   ELSE Towards(fifo[i], o)
<1> DEFINE pass == PassOf(rdy, hold)
           q == fifo[i]
           rest == IF Leaves(i, pass) THEN Tail(q) ELSE q
<1>1. q \in Seq(Packet) /\ i # None
  BY NoneAssumption DEF IInv, TypeOK, Inputs
<1>2. ASSUME NEW p \in Outputs, pass[p] = i
      PROVE  q # <<>> /\ Head(q).dst = p
  <2>1. Offer(p, hold) = i
    BY <1>1, <1>2 DEF PassOf, Offers
  <2> QED
    BY <1>1, <2>1, OfferIsServable DEF HasHead, HeadOf
<1>3. CASE Leaves(i, pass)
  <2>1. q # <<>>
    BY <1>2, <1>3 DEF Leaves, Dropped, HasHead
  <2>2. rest = Tail(q)
    BY <1>3
  <2>3. rest \in Seq(Packet)
    BY <1>1, <2>1, <2>2, HeadTailProperties
  <2>4. CASE pass[o] = i
    <3>1. Head(q).dst = o
      BY <1>2, <2>4
    <3> HIDE DEF q, rest, pass
    <3>2. Towards(Tail(q), o) = Tail(Towards(q, o))
      BY <1>1, <2>1, <3>1, TowardsOfTail
    <3> QED
      BY <2>2, <2>3, <2>4, <3>2 DEF q, rest, pass
  <2>5. CASE pass[o] # i
    <3>1. Head(q).dst # o
      <4>1. CASE Dropped(i)
        <5>1. Head(q).dst >= NumOut
          BY <4>1 DEF Dropped, HeadOf
        <5>2. Head(q).dst \in Nat /\ NumOut \in Nat
          <6>1. Head(q) \in Packet
            BY <1>1, <2>1
          <6> QED
            BY <6>1, PortsAssumption DEF Packet, Ids
        <5> QED
          BY <5>1, <5>2 DEF Outputs
      <4>2. CASE \E p \in Outputs : pass[p] = i
        BY <1>2, <2>5, <4>2
      <4> QED
        BY <1>3, <4>1, <4>2 DEF Leaves
    <3> HIDE DEF q, rest, pass
    <3>2. Towards(Tail(q), o) = Towards(q, o)
      BY <1>1, <2>1, <3>1, TowardsOfTail
    <3> QED
      BY <2>2, <2>3, <2>5, <3>2 DEF q, rest, pass
  <2> QED
    BY <2>4, <2>5
<1>4. CASE ~Leaves(i, pass)
  <2>1. pass[o] # i /\ rest = q
    BY <1>4 DEF Leaves
  <2> QED
    BY <1>1, <2>1
<1> QED
  BY <1>3, <1>4

(* What an output is locked to, in the terms of NocChannels.                *)
LEMMA OwnerAfterEdge ==
  ASSUME IInv, NEW rdy \in [Outputs -> BOOLEAN], NEW hold \in Holders \cup {None},
         NEW o \in Outputs
  PROVE  LET i == PassOf(rdy, hold)[o]
         IN  /\ i = None => LockAfter(o, PassOf(rdy, hold)) = lock[o]
             /\ i # None =>
                  /\ HeadOf(i) # None
                  /\ LockAfter(o, PassOf(rdy, hold)) =
                       IF HeadOf(i).lock THEN HeadOf(i).src ELSE None
<1> DEFINE pass == PassOf(rdy, hold)
           i == pass[o]
<1>1. CASE i = None
  BY <1>1 DEF LockAfter
<1>2. CASE i # None
  <2>1. i = Offer(o, hold) /\ Offer(o, hold) # None
    BY <1>2 DEF PassOf, Offers
  <2>2. i \in Inputs /\ HasHead(i) /\ lock[o] \in {None, HeadOf(i).src}
    BY <2>1, OfferIsServable
  <2>3. HeadOf(i) \in Packet
    BY <2>2, HeadIsPacket DEF IInv
  <2>4. HeadOf(i) # None
    BY <2>3, EnvironmentAssumption
  <2>5. LockAfter(o, pass) = IF HeadOf(i).lock THEN HeadOf(i).src
                             ELSE IF lock[o] = HeadOf(i).src THEN None ELSE lock[o]
    BY <1>2 DEF LockAfter
  <2> HIDE DEF pass, i
  <2>6. LockAfter(o, pass) = IF HeadOf(i).lock THEN HeadOf(i).src ELSE None
    BY <2>2, <2>5
  <2> QED
    BY <1>2, <2>4, <2>6 DEF pass, i
<1> QED
  BY <1>1, <1>2

(* The channels at an edge: each loses what its output takes, and at most   *)
(* one of an input's is joined by a packet.                                 *)
LEMMA ChannelsAfterEdge ==
  ASSUME IInv, NEW arr \in Presented, NEW rdy \in [Outputs -> BOOLEAN],
         NEW hold \in Holders \cup {None}, Clock(arr, rdy, Offers(hold)),
         NEW i \in Inputs
  PROVE  LET from == PassOf(rdy, hold)
             Rest(o) == IF from[o] = i THEN Tail(Towards(fifo[i], o))
                        ELSE Towards(fifo[i], o)
         IN  \/ \A o \in Outputs : Towards(fifo'[i], o) = Rest(o)
             \/ \E o \in Outputs :
                  /\ \E pkt \in UNION {Arrivals[j] : j \in Inputs} :
                       pkt.dst = o /\ Towards(fifo'[i], o) = Append(Rest(o), pkt)
                  /\ \A p \in Outputs \ {o} : Towards(fifo'[i], p) = Rest(p)
<1> DEFINE from == PassOf(rdy, hold)
           Rest(o) == IF from[o] = i THEN Tail(Towards(fifo[i], o)) ELSE Towards(fifo[i], o)
           rest == IF Leaves(i, from) THEN Tail(fifo[i]) ELSE fifo[i]
<1>1. \A o \in Outputs : rest \in Seq(Packet) /\ Towards(rest, o) = Rest(o)
  BY ChannelAfterLeaving
<1>2. fifo'[i] = IF arr[i] # None /\ Ready(i) THEN Append(rest, arr[i]) ELSE rest
  BY DEF Clock, Update, PassOf, FifoAfter
<1> HIDE DEF Rest, rest, from
<1>3. CASE ~(arr[i] # None /\ Ready(i))
  <2>1. \A o \in Outputs : Towards(fifo'[i], o) = Rest(o)
    BY <1>1, <1>2, <1>3
  <2> QED
    BY <2>1 DEF Rest, from
<1>4. CASE arr[i] # None /\ Ready(i)
  <2> DEFINE x == arr[i]
  <2>1. x \in Arrivals[i] /\ x \in UNION {Arrivals[j] : j \in Inputs} /\ x \in Packet
    BY <1>4, EnvironmentAssumption DEF Presented
  <2>2. fifo'[i] = Append(rest, x)
    BY <1>2, <1>4
  <2> HIDE DEF x
  <2>3. \A o \in Outputs :
          Towards(fifo'[i], o) = IF x.dst = o THEN Append(Rest(o), x) ELSE Rest(o)
    BY <1>1, <2>1, <2>2, TowardsOfAppend
  <2>4. CASE x.dst \in Outputs
    <3>1. Towards(fifo'[i], x.dst) = Append(Rest(x.dst), x)
      BY <2>3, <2>4
    <3>2. \A p \in Outputs \ {x.dst} : Towards(fifo'[i], p) = Rest(p)
      BY <2>3
    <3> QED
      BY <2>1, <2>4, <3>1, <3>2 DEF Rest, from
  <2>5. CASE x.dst \notin Outputs
    <3>1. \A o \in Outputs : Towards(fifo'[i], o) = Rest(o)
      BY <2>3, <2>5
    <3> QED
      BY <3>1 DEF Rest, from
  <2> QED
    BY <2>4, <2>5
<1> QED
  BY <1>3, <1>4

(* An edge of the router is an edge of the channels.                        *)
LEMMA EdgeIsChannelStep ==
  ASSUME IInv, NEW arr \in Presented, NEW rdy \in [Outputs -> BOOLEAN],
         NEW hold \in Holders \cup {None}, Clock(arr, rdy, Offers(hold))
  PROVE  Channels!Next
<1> DEFINE from == PassOf(rdy, hold)
           chan == [i \in Inputs |-> [o \in Outputs |-> Towards(fifo[i], o)]]
<1>1. ASSUME NEW o \in Outputs, from[o] # None
      PROVE  /\ from[o] \in Inputs /\ HasHead(from[o]) /\ HeadOf(from[o]).dst = o
             /\ lock[o] \in {None, HeadOf(from[o]).src}
  <2>1. from[o] = Offer(o, hold)
    BY <1>1 DEF PassOf, Offers
  <2> QED
    BY <1>1, <2>1, OfferIsServable
<1>2. ASSUME NEW o \in Outputs, from[o] # None
      PROVE  chan[from[o]][o] # <<>> /\ Head(chan[from[o]][o]) = HeadOf(from[o])
  <2>1. fifo[from[o]] \in Seq(Packet) /\ fifo[from[o]] # <<>>
    BY <1>1, <1>2 DEF IInv, TypeOK, HasHead
  <2>2. /\ Towards(fifo[from[o]], o) # <<>>
        /\ Head(Towards(fifo[from[o]], o)) = Head(fifo[from[o]])
    BY <1>1, <1>2, <2>1, TowardsOfTail DEF HeadOf
  <2>3. chan[from[o]][o] = Towards(fifo[from[o]], o)
    BY <1>1, <1>2
  <2> QED
    BY <2>2, <2>3 DEF HeadOf
<1>3. from \in [Outputs -> Inputs \cup {None}]
  <2>1. from = [o \in Outputs |-> from[o]]
    BY DEF PassOf
  <2> QED
    BY <1>1, <2>1
<1>4. \A o \in Outputs : from[o] # None => Channels!MayTake(from[o], o)
  BY <1>1, <1>2 DEF Channels!MayTake
<1>5. /\ taken' = [o \in Outputs |-> IF from[o] = None THEN None ELSE HeadOf(from[o])]
      /\ lock' = [o \in Outputs |-> LockAfter(o, from)]
  BY DEF Clock, Update, PassOf
<1>6. taken' = [o \in Outputs |-> IF from[o] = None THEN None ELSE Head(chan[from[o]][o])]
  BY <1>2, <1>5
<1>7. lock' = [o \in Outputs |-> Channels!OwnerAfter(o, taken'[o])]
  <2>1. ASSUME NEW o \in Outputs
        PROVE  LockAfter(o, from) = Channels!OwnerAfter(o, taken'[o])
    <3>1. taken'[o] = IF from[o] = None THEN None ELSE HeadOf(from[o])
      BY <1>5
    <3>2. /\ from[o] = None => LockAfter(o, from) = lock[o]
          /\ from[o] # None =>
               /\ HeadOf(from[o]) # None
               /\ LockAfter(o, from) =
                    IF HeadOf(from[o]).lock THEN HeadOf(from[o]).src ELSE None
      BY OwnerAfterEdge
    <3> HIDE DEF from
    <3>3. CASE from[o] = None
      BY <3>1, <3>2, <3>3 DEF Channels!OwnerAfter
    <3>4. CASE from[o] # None
      BY <3>1, <3>2, <3>4 DEF Channels!OwnerAfter
    <3> QED
      BY <3>3, <3>4
  <2> QED
    BY <1>5, <2>1
<1>8. ASSUME NEW i \in Inputs
      PROVE  LET rest(o) == IF from[o] = i THEN Tail(chan[i][o]) ELSE chan[i][o]
             IN \/ \A o \in Outputs : chan'[i][o] = rest(o)
                \/ \E o \in Outputs :
                     /\ \E pkt \in UNION {Arrivals[j] : j \in Inputs} :
                          pkt.dst = o /\ chan'[i][o] = Append(rest(o), pkt)
                     /\ \A p \in Outputs \ {o} : chan'[i][p] = rest(p)
  <2>1. \A o \in Outputs : chan[i][o] = Towards(fifo[i], o) /\ chan'[i][o] = Towards(fifo'[i], o)
    OBVIOUS
  <2> HIDE DEF from, chan
  <2> DEFINE Rest(o) == IF from[o] = i THEN Tail(Towards(fifo[i], o)) ELSE Towards(fifo[i], o)
  <2>2. \/ \A o \in Outputs : Towards(fifo'[i], o) = Rest(o)
        \/ \E o \in Outputs :
             /\ \E pkt \in UNION {Arrivals[j] : j \in Inputs} :
                  pkt.dst = o /\ Towards(fifo'[i], o) = Append(Rest(o), pkt)
             /\ \A p \in Outputs \ {o} : Towards(fifo'[i], p) = Rest(p)
    BY ChannelsAfterEdge DEF from
  <2> QED
    BY <2>1, <2>2
<1>9. Channels!Edge(from)
  BY <1>4, <1>6, <1>7, <1>8 DEF Channels!Edge
<1> QED
  BY <1>3, <1>9 DEF Channels!Next

(* However many ports the router has and whatever the senders present, it   *)
(* is a set of reliable first-in first-out channels under exclusive locks   *)
(* (noc_router.v, "Ordering" and "Atomics").                                *)
THEOREM RouterIsChannels == Spec => ImplementsChannels
<1>1. Init => Channels!Init
  <2> SUFFICES ASSUME Init
               PROVE  Channels!Init
    OBVIOUS
  <2>1. \A i \in Inputs, o \in Outputs : Towards(fifo[i], o) = <<>>
    BY TowardsOfEmpty DEF Init
  <2> QED
    BY <2>1 DEF Init, Channels!Init
<1>2. IInv /\ [Next]_vars => [Channels!Next]_(Channels!vars)
  <2>1. CASE UNCHANGED vars
    BY <2>1 DEF vars, Channels!vars
  <2>2. ASSUME IInv, Next
        PROVE  Channels!Next
    BY <2>2, EdgeIsChannelStep, NextIsClock
  <2> QED
    BY <2>1, <2>2
<1> QED
  BY <1>1, <1>2, Invariance, PTL DEF Spec, ImplementsChannels, Channels!Spec
=============================================================================
