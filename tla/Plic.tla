-------------------------------- MODULE Plic --------------------------------
(***************************************************************************)
(* The interrupt controller (rtl/plic.v) behind its bus bridge             *)
(* (rtl/soc/wb_periph_bridge.v), with the devices that raise its lines and *)
(* the handlers that claim and complete (software/soc/plictest.c).         *)
(*                                                                         *)
(* The bus gives the bridge one access at a time and holds it until its    *)
(* ack.  A handler completes what it has claimed and nothing else.         *)
(***************************************************************************)
EXTENDS Naturals

CONSTANTS
  NumSources, NumContexts,
  BootPriority, BootThreshold, BootEnable,   \* what the firmware has set up
  Settings,   \* the writes of those registers that may come later
  Droppers,   \* the devices whose line may fall though nobody served them
  None

Sources == 1 .. NumSources
Contexts == 0 .. NumContexts - 1
SettingOps == {"enable", "threshold", "priority"}
HandlerOps == {"claim", "complete", "fetch"}

(* An access: which register, of which context (or source), and the data.  *)
Access == [op : SettingOps \cup HandlerOps, at : Nat, val : Nat, mask : SUBSET Sources]

ASSUME PlicAssumption ==
  /\ NumSources \in Nat /\ NumContexts \in Nat
  /\ BootPriority \in [Sources -> Nat]
  /\ BootThreshold \in [Contexts -> Nat]
  /\ BootEnable \in [Contexts -> SUBSET Sources]
  /\ Settings \subseteq {a \in Access : a.op \in SettingOps}
  /\ None \notin Access

VARIABLES
  \* the bridge's wires and registers
  req,        \* the access on the bus, or None (wb_cyc and wb_stb)
  ackR,       \* ack_r
  rdata,      \* rdata_r: the source a claim register's read captured
  \* the controller
  pending, inService, enable, priority, threshold,
  \* the devices and the handlers
  level,      \* the sources whose line is high (irq_sources)
  phase,      \* phase[c]: "out", "claiming", "serving" or "completing"
  held        \* held[c]: the source that c's handler has claimed

bridgeVars == <<req, ackR, rdata>>
plicVars == <<pending, inService, enable, priority, threshold>>
handlerVars == <<phase, held>>
vars == <<bridgeVars, plicVars, level, handlerVars>>

Claim(c) == [op |-> "claim", at |-> c, val |-> 0, mask |-> {}]
Complete(c, s) == [op |-> "complete", at |-> c, val |-> s, mask |-> {}]

(* A fetch that strays to the claim register: a read, of no data master.    *)
Stray(c) == [op |-> "fetch", at |-> c, val |-> 0, mask |-> {}]

Init ==
  /\ req = None
  /\ ackR = FALSE
  /\ rdata = 0
  /\ pending = {}
  /\ inService = {}
  /\ enable = BootEnable
  /\ priority = BootPriority
  /\ threshold = BootThreshold
  /\ level = {}
  /\ phase = [c \in Contexts |-> "out"]
  /\ held = [c \in Contexts |-> 0]
-----------------------------------------------------------------------------
(* The encoder: the eligible source of the highest priority, and of those   *)
(* the lowest, or 0 when there is none.  The rest of the module uses        *)
(* ClaimId, which EncoderPicksBest ties to the code's loop.                 *)

Eligible(c) == {s \in pending : s \in enable[c] /\ priority[s] > threshold[c]}

EncoderOverwrites(c) ==                       \* mutant: no comparison of priorities
  LET scan[n \in 0 .. NumSources] ==
        IF n = 0 THEN 0 ELSE IF n \in Eligible(c) THEN n ELSE scan[n - 1]
  IN scan[NumSources]

(* The loop: after n sources, the one it would name so far.                 *)
Encoder(c) ==
  LET scan[n \in 0 .. NumSources] ==
        IF n = 0 THEN 0
        ELSE LET best == scan[n - 1]
             IN IF n \in Eligible(c) /\ (best = 0 \/ priority[n] > priority[best])
                THEN n ELSE best
  IN scan[NumSources]

(* And what it is for.                                                      *)
Beats(s, t) == priority[s] > priority[t] \/ (priority[s] = priority[t] /\ s < t)

Best(c) == {s \in Eligible(c) : \A t \in Eligible(c) \ {s} : Beats(s, t)}

ClaimId(c) == IF Best(c) = {} THEN 0 ELSE CHOOSE s \in Best(c) : TRUE

Eip(c) == ClaimId(c) # 0
-----------------------------------------------------------------------------
(* The clock edge. *)

FirstUngated == req # None                    \* mutant: the strobe lasts as long as wb_stb
First == req # None /\ ~ackR
Does(op) == First /\ req.op = op

Claimed == IF Does("claim") THEN {ClaimId(req.at)} \ {0} ELSE {}

CompletedShort ==                             \* mutant: the last source is out of range
  IF Does("complete") THEN {req.val} \cap (1 .. NumSources - 1) ELSE {}
Completed == IF Does("complete") THEN {req.val} \cap Sources ELSE {}

(* A line that is high is latched unless its source is in service, a line   *)
(* that is low drops it, and a claim clears it whatever the line does.      *)
PendingRelatched == (pending \cup level) \cap level   \* mutant: neither in_service nor a claim
PendingAfter == ((pending \cup (level \ inService)) \cap level) \ Claimed

Acked == req # None /\ ackR

HandlerAfter ==
  /\ phase' = [c \in Contexts |->
       IF Acked /\ req.at = c /\ req.op = "claim"
       THEN IF rdata = 0 THEN "out" ELSE "serving"
       ELSE IF Acked /\ req.at = c /\ req.op = "complete" THEN "out"
       ELSE phase[c]]
  /\ held' = [c \in Contexts |->
       IF Acked /\ req.at = c /\ req.op = "claim" THEN rdata ELSE held[c]]

Edge ==
  /\ ackR' = First
  /\ rdata' = IF First /\ req.op \in HandlerOps THEN ClaimId(req.at) ELSE rdata
  /\ req' = IF Acked THEN None ELSE req
  /\ pending' = PendingAfter
  /\ inService' = (inService \cup Claimed) \ Completed
  /\ enable' = [c \in Contexts |->
       IF Does("enable") /\ req.at = c THEN req.mask ELSE enable[c]]
  /\ threshold' = [c \in Contexts |->
       IF Does("threshold") /\ req.at = c THEN req.val ELSE threshold[c]]
  /\ priority' = [s \in Sources |->
       IF Does("priority") /\ req.at = s THEN req.val ELSE priority[s]]
  /\ HandlerAfter
  /\ UNCHANGED level
-----------------------------------------------------------------------------
(* Between the edges. *)

(* The hart takes the interrupt while the line is up.                       *)
Trap(c) ==
  /\ phase[c] = "out"
  /\ Eip(c)
  /\ phase' = [phase EXCEPT ![c] = "claiming"]
  /\ UNCHANGED <<bridgeVars, plicVars, level, held>>

(* The handler's next access reaches the bridge.                            *)
Issue(c) ==
  /\ req = None
  /\ \/ phase[c] = "claiming" /\ req' = Claim(c)
     \/ phase[c] = "completing" /\ req' = Complete(c, held[c])
  /\ UNCHANGED <<ackR, rdata, plicVars, level, handlerVars>>

(* The handler fixes what made the device raise its line.                   *)
Serve(c) ==
  /\ phase[c] = "serving"
  /\ phase' = [phase EXCEPT ![c] = "completing"]
  /\ level' = level \ {held[c]}
  /\ UNCHANGED <<bridgeVars, plicVars, held>>

(* Other software changes a setting, or a fetch strays.                     *)
OtherAccess ==
  /\ req = None
  /\ req' \in Settings \cup {Stray(c) : c \in Contexts}
  /\ UNCHANGED <<ackR, rdata, plicVars, level, handlerVars>>

Raise(s) ==
  /\ level' = level \cup {s}
  /\ UNCHANGED <<bridgeVars, plicVars, handlerVars>>

Drop(s) ==
  /\ s \in Droppers
  /\ level' = level \ {s}
  /\ UNCHANGED <<bridgeVars, plicVars, handlerVars>>

Next ==
  \/ Edge
  \/ \E c \in Contexts : Trap(c) \/ Issue(c) \/ Serve(c)
  \/ OtherAccess
  \/ \E s \in Sources : Raise(s) \/ Drop(s)

Spec == Init /\ [][Next]_vars

(* The clock runs, a hart takes the interrupts it is shown, a handler ends, *)
(* and the bus lets every hart through again and again.                     *)
Fairness ==
  /\ WF_vars(Edge)
  /\ \A c \in Contexts : WF_vars(Trap(c)) /\ WF_vars(Serve(c)) /\ SF_vars(Issue(c))

FairSpec == Spec /\ Fairness
-----------------------------------------------------------------------------
PlicTypeOK ==
  /\ req \in Access \cup {None}
  /\ ackR \in BOOLEAN /\ (ackR => req # None)
  /\ rdata \in Sources \cup {0}
  /\ pending \subseteq Sources
  /\ inService \subseteq Sources
  /\ enable \in [Contexts -> SUBSET Sources]
  /\ priority \in [Sources -> Nat]
  /\ threshold \in [Contexts -> Nat]
  /\ level \subseteq Sources
  /\ phase \in [Contexts -> {"out", "claiming", "serving", "completing"}]
  /\ held \in [Contexts -> Sources \cup {0}]

(* The loop names the best eligible source, and 0 only when there is none   *)
(* (plic.v, "a loop that just overwrites on every eligible match            *)
(* degenerates into "lowest eligible ID wins" regardless of priority, which *)
(* is a bug this module has already shipped once").                         *)
EncoderPicksBest == \A c \in Contexts : Encoder(c) = ClaimId(c)

(* What every claim is answered from is in range, and is the best source.   *)
EncoderIsRight == PlicTypeOK /\ EncoderPicksBest

(* c's handler owns s: from the edge that claims it, while the ack is on    *)
(* its way, to the edge that completes it.                                  *)
Owns(c, s) ==
  \/ phase[c] = "claiming" /\ req = Claim(c) /\ ackR /\ s = rdata
  \/ phase[c] = "serving" /\ s = held[c]
  \/ phase[c] = "completing" /\ ~(req = Complete(c, held[c]) /\ ackR) /\ s = held[c]

(* No source is handled twice at the same time (plic.v, "A source in        *)
(* service is never handed out again, to either context").                  *)
OneOwner ==
  \A c, d \in Contexts, s \in Sources : Owns(c, s) /\ Owns(d, s) => c = d

(* A source is in service exactly while a handler owns it: none is claimed  *)
(* by an access that nobody looks at, after which it would never be         *)
(* delivered again (wb_periph_bridge.v: the strobe "fires twice. ... for    *)
(* p_re it would claim two interrupts"; "a stray instruction fetch that     *)
(* lands in MMIO space can't claim an interrupt").                          *)
NoneSwallowed == inService = {s \in Sources : \E c \in Contexts : Owns(c, s)}

(* A raised line is served, unless better ones keep coming: whatever the    *)
(* order of claims, completions and new edges of the line, and though lines *)
(* rise and fall while their source is in service.                          *)
NoneForgotten ==
  \A s \in Sources : []<>(s \notin level \/ \E t \in level : Beats(t, s))
=============================================================================
