--------------------------- MODULE MCNocRouterAge ---------------------------
(* How long a head waits.  Several inputs contend for one output whose      *)
(* receiver never refuses for more than MaxStall cycles running, and input  *)
(* i's packets are of class QosOf[i].                                       *)
EXTENDS NocRouter, TLC

CONSTANTS
  MaxStall,   \* the longest run of cycles a receiver refuses for (environment bound)
  QosOf       \* the class of each input's packets

VARIABLE stall  \* stall[o]: cycles the receiver of o has refused for

MCBody == {0}
MCArrivals == [i \in Inputs |->
  {[dst |-> 0, src |-> i, lock |-> FALSE, qos |-> QosOf[i], body |-> 0]}]
LastIsBulk == [i \in Inputs |-> IF i = NumIn - 1 THEN 0 ELSE 1]

ageVars == <<vars, stall>>

AgeInit == Init /\ stall = [o \in Outputs |-> 0]

AgeClock(rdy) ==
  /\ \A o \in Outputs : stall[o] = MaxStall => rdy[o]
  /\ stall' = [o \in Outputs |-> IF rdy[o] THEN 0 ELSE stall[o] + 1]
  /\ \E arr \in Presented : Clock(arr, rdy, Offers(None))

AgeNext == \E rdy \in [Outputs -> BOOLEAN] : AgeClock(rdy)

AgeSpec == AgeInit /\ [][AgeNext]_ageVars

(* The cycles that one service of every input takes.                        *)
Round == NumIn * (MaxStall + 1)

(* A head waits no longer than the ageing limit and one service of every    *)
(* other input, however the other inputs' traffic comes (noc_router.v, "The *)
(* wait of any packet is then bounded by AGE_LIMIT plus the time to serve   *)
(* every other aged head ahead of it, whatever the traffic").               *)
WaitBounded == \A i \in Inputs : age[i] <= AgeLimit + Round
=============================================================================
