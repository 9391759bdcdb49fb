---------------------------- MODULE NocChannels ----------------------------
(***************************************************************************)
(* What the router promises to the network interfaces around it, with      *)
(* nothing said about buffers, grants or priorities: between each input    *)
(* and each output there is a channel that is reliable and first in first  *)
(* out, and an output that has passed a packet with `lock` set passes      *)
(* nobody else's until a packet with `lock` clear of the same source has   *)
(* gone (rtl/soc/noc_router.v, "Ordering" and "Atomics").                  *)
(***************************************************************************)
EXTENDS Sequences, Naturals

CONSTANTS
  Inputs,       \* the input ports
  Outputs,      \* the output ports
  Packet,       \* the packets, records with at least src, dst and lock
  None          \* no packet, no input, no owner

VARIABLES
  chan,         \* chan[i][o]: the packets on their way from input i to output o
  owner,        \* owner[o]: the source a locked sequence keeps o for, or None
  taken         \* taken[o]: what o's receiver took at the last edge, or None

vars == <<chan, owner, taken>>

Init ==
  /\ chan = [i \in Inputs |-> [o \in Outputs |-> <<>>]]
  /\ owner = [o \in Outputs |-> None]
  /\ taken = [o \in Outputs |-> None]

(* Output o may take the oldest packet of its channel from i. *)
MayTake(i, o) ==
  /\ chan[i][o] # <<>>
  /\ owner[o] \in {None, Head(chan[i][o]).src}

OwnerAfter(o, pkt) ==
  CASE pkt = None -> owner[o]
    [] pkt # None /\ pkt.lock -> pkt.src
    [] OTHER -> None

(* One edge: from[o] is the input that output o takes from, or None, and   *)
(* each input may be given one packet, which joins the channel it names.   *)
Edge(from) ==
  /\ \A o \in Outputs : from[o] # None => MayTake(from[o], o)
  /\ taken' = [o \in Outputs |->
       IF from[o] = None THEN None ELSE Head(chan[from[o]][o])]
  /\ owner' = [o \in Outputs |-> OwnerAfter(o, taken'[o])]
  /\ \A i \in Inputs :
       LET rest(o) == IF from[o] = i THEN Tail(chan[i][o]) ELSE chan[i][o]
       IN \/ \A o \in Outputs : chan'[i][o] = rest(o)
          \/ \E o \in Outputs :
               /\ \E pkt \in Packet : pkt.dst = o /\ chan'[i][o] = Append(rest(o), pkt)
               /\ \A p \in Outputs \ {o} : chan'[i][p] = rest(p)

Next == \E from \in [Outputs -> Inputs \cup {None}] : Edge(from)

Spec == Init /\ [][Next]_vars
=============================================================================
