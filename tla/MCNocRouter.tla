---------------------------- MODULE MCNocRouter ----------------------------
(* Two inputs, two outputs, two-deep FIFOs: locked sequences from both      *)
(* inputs, a destination that is no port, every receiver back-pressure.     *)
EXTENDS NocRouter, TLC

Pkt(d, s, l) == [dst |-> d, src |-> s, lock |-> l, qos |-> 0, body |-> 0]

MCBody == {0}

(* Input 0 locks either output; input 1 locks output 0 and sends one packet *)
(* to a port that is not there.                                             *)
MCArrivals ==
  (0 :> {Pkt(d, 0, l) : d \in 0 .. 1, l \in BOOLEAN}) @@
  (1 :> {Pkt(0, 1, TRUE), Pkt(0, 1, FALSE), Pkt(2, 1, FALSE)})
=============================================================================
