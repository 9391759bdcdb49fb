---------------------------- MODULE SlaveProofs ----------------------------
(***************************************************************************)
(* Two of the controllers behind the buses, each for every value of its    *)
(* constants.  The platform interrupt controller: however many sources and *)
(* contexts there are, whatever the settings and whatever the lines do, no *)
(* source is handled twice at once, none is in service that nobody         *)
(* handles, and the encoder's loop names the best eligible source.  The    *)
(* SDRAM controller: whatever the geometry, and at every clock it derives  *)
(* its counts for, the part refuses nothing it is asked, and a read        *)
(* returns what the acknowledged writes left.                              *)
(***************************************************************************)
EXTENDS Plic, WbSdram, NatSets, SequenceTheorems, TLAPS

(***************************************************************************)
(* The platform interrupt controller.                                      *)
(***************************************************************************)

(* The access on the bus is the one its handler waits for. *)
RequestIsCurrent ==
  req # None =>
    /\ req.op = "claim" =>
         req.at \in Contexts /\ req = Claim(req.at) /\ phase[req.at] = "claiming"
    /\ req.op = "complete" =>
         /\ req.at \in Contexts /\ req = Complete(req.at, held[req.at])
         /\ phase[req.at] = "completing"

HeldIsSource ==
  \A c \in Contexts : phase[c] \in {"serving", "completing"} => held[c] \in Sources

(* Why a claim never names a source in service.                             *)
PendingIsFree == pending \cap inService = {}

IInv ==
  /\ PlicTypeOK
  /\ RequestIsCurrent
  /\ HeldIsSource
  /\ PendingIsFree
  /\ OneOwner
  /\ NoneSwallowed

(* What the encoder names is pending.                                       *)
LEMMA ClaimIsPending ==
  ASSUME NEW c, pending \subseteq Sources
  PROVE  ClaimId(c) \in pending \cup {0} /\ ClaimId(c) \in Sources \cup {0}
<1>1. CASE Best(c) = {}
  BY <1>1 DEF ClaimId
<1>2. CASE Best(c) # {}
  <2>1. \E s \in Best(c) : TRUE
    BY <1>2
  <2>2. (CHOOSE s \in Best(c) : TRUE) \in Best(c)
    BY <2>1
  <2>3. Best(c) \subseteq pending
    BY DEF Best, Eligible
  <2> QED
    BY <1>2, <2>2, <2>3 DEF ClaimId
<1> QED
  BY <1>1, <1>2

(* A handler's accesses are accesses, and none of them is None.             *)
LEMMA HandlerAccesses ==
  ASSUME NEW d \in Contexts, NEW h \in Sources \cup {0}
  PROVE  None \notin Access /\ Claim(d) \in Access /\ Complete(d, h) \in Access
<1>1. d \in Nat /\ h \in Nat
  BY DEF Contexts, Sources
<1> QED
  BY <1>1, PlicAssumption DEF Access, Claim, Complete, HandlerOps

(* The controller at reset.                                                 *)
LEMMA InitEstablishesIInv == Init => IInv
<1> SUFFICES ASSUME Init
             PROVE  IInv
  OBVIOUS
<1>1. PlicTypeOK
  BY PlicAssumption DEF Init, PlicTypeOK
<1>2. RequestIsCurrent
  BY DEF Init, RequestIsCurrent
<1>3. \A c \in Contexts : phase[c] = "out"
  BY DEF Init
<1>4. \A c \in Contexts, s \in Sources : ~Owns(c, s)
  BY <1>3 DEF Owns
<1>5. HeldIsSource /\ PendingIsFree
  BY <1>3 DEF Init, HeldIsSource, PendingIsFree
<1>6. OneOwner
  BY <1>4 DEF OneOwner
<1>7. NoneSwallowed
  BY <1>4 DEF Init, NoneSwallowed
<1> QED
  BY <1>1, <1>2, <1>5, <1>6, <1>7 DEF IInv

(* The registers stay in their ranges over an edge.                         *)
LEMMA EdgeKeepsTypes ==
  ASSUME IInv, Edge
  PROVE  PlicTypeOK'
<1> USE DEF IInv, PlicTypeOK
<1>1. req \in Access \cup {None} /\ None \notin Access
  BY PlicAssumption
<1>2. req' \in Access \cup {None} /\ ackR' \in BOOLEAN /\ (ackR' => req' # None)
  BY <1>1 DEF Edge, First, Acked
<1>3. rdata' \in Sources \cup {0}
  BY ClaimIsPending DEF Edge
<1>4. pending' \subseteq Sources /\ level' \subseteq Sources
  BY DEF Edge, PendingAfter
<1>5. inService' \subseteq Sources
  BY ClaimIsPending DEF Edge, Claimed
<1>6. /\ enable' \in [Contexts -> SUBSET Sources]
      /\ priority' \in [Sources -> Nat]
      /\ threshold' \in [Contexts -> Nat]
  BY <1>1 DEF Edge, Does, First, Access
<1>7. phase' \in [Contexts -> {"out", "claiming", "serving", "completing"}]
  BY DEF Edge, HandlerAfter
<1>8. held' \in [Contexts -> Sources \cup {0}]
  BY DEF Edge, HandlerAfter
<1> QED
  BY <1>2, <1>3, <1>4, <1>5, <1>6, <1>7, <1>8

(* The edge that claims: the source goes from pending to its claimant.      *)
LEMMA ClaimingKeepsOwners ==
  ASSUME IInv, Edge, Does("claim")
  PROVE  OneOwner' /\ NoneSwallowed' /\ PendingIsFree' /\ RequestIsCurrent' /\ HeldIsSource'
<1> DEFINE c == req.at
           id == ClaimId(c)
<1>1. c \in Contexts /\ req = Claim(c) /\ phase[c] = "claiming" /\ req # None /\ ~ackR
  BY DEF IInv, RequestIsCurrent, Does, First
<1>2. id \in pending \cup {0} /\ id \in Sources \cup {0} /\ 0 \notin Sources
  BY ClaimIsPending DEF IInv, PlicTypeOK, Sources
<1>3. /\ req' = req /\ ackR' = TRUE /\ rdata' = id /\ phase' = phase /\ held' = held
      /\ inService' = inService \cup ({id} \ {0})
      /\ pending' \subseteq (pending \cup (Sources \ inService)) \ ({id} \ {0})
  <2>1. req.op = "claim" /\ First /\ ~Acked
    BY DEF Does, First, Acked
  <2>2. Claimed = {id} \ {0} /\ Completed = {}
    BY <2>1 DEF Claimed, Completed, Does
  <2>3. phase' = phase /\ held' = held
    BY <2>1 DEF Edge, HandlerAfter, IInv, PlicTypeOK
  <2>4. req' = req /\ ackR' = TRUE /\ rdata' = id
    BY <2>1 DEF Edge, HandlerOps
  <2> QED
    BY <2>2, <2>3, <2>4 DEF Edge, PendingAfter, IInv, PlicTypeOK
<1>4. \A d \in Contexts, s \in Sources : Owns(d, s)' <=> Owns(d, s) \/ (d = c /\ s = id)
  BY <1>1, <1>3 DEF Owns, Claim, Complete
<1>5. \A s \in Sources, d \in Contexts : s = id => ~Owns(d, s)
  BY <1>2 DEF IInv, PendingIsFree, NoneSwallowed
<1>6. OneOwner'
  BY <1>4, <1>5 DEF OneOwner, IInv
<1>7. NoneSwallowed'
  BY <1>1, <1>2, <1>3, <1>4 DEF NoneSwallowed, IInv
<1>8. PendingIsFree'
  BY <1>3 DEF PendingIsFree, IInv
<1>9. RequestIsCurrent' /\ HeldIsSource'
  BY <1>3 DEF RequestIsCurrent, HeldIsSource, IInv, Claim, Complete
<1> QED
  BY <1>6, <1>7, <1>8, <1>9

(* The edge that completes: its owner lets the source go.                   *)
LEMMA CompletingKeepsOwners ==
  ASSUME IInv, Edge, Does("complete")
  PROVE  OneOwner' /\ NoneSwallowed' /\ PendingIsFree' /\ RequestIsCurrent' /\ HeldIsSource'
<1> DEFINE c == req.at
<1>1. /\ c \in Contexts /\ req = Complete(c, held[c]) /\ phase[c] = "completing"
      /\ req # None /\ ~ackR /\ held[c] \in Sources
  BY DEF IInv, RequestIsCurrent, HeldIsSource, Does, First
<1>2. /\ req' = req /\ ackR' = TRUE /\ phase' = phase /\ held' = held
      /\ inService' = inService \ {held[c]}
      /\ pending' \subseteq pending \cup (Sources \ inService)
  <2>1. req.op = "complete" /\ First /\ ~Acked
    BY DEF Does, First, Acked
  <2>2. Claimed = {} /\ Completed = {held[c]}
    BY <1>1, <2>1 DEF Claimed, Completed, Does, Complete
  <2>3. phase' = phase /\ held' = held
    BY <2>1 DEF Edge, HandlerAfter, IInv, PlicTypeOK
  <2>4. req' = req /\ ackR' = TRUE
    BY <2>1 DEF Edge
  <2> QED
    BY <2>2, <2>3, <2>4 DEF Edge, PendingAfter, IInv, PlicTypeOK
<1>3. \A d \in Contexts, s \in Sources : Owns(d, s)' <=> Owns(d, s) /\ d # c
  BY <1>1, <1>2 DEF Owns, Claim, Complete
<1>4. Owns(c, held[c])
  BY <1>1 DEF Owns
<1>5. \A d \in Contexts : Owns(d, held[c]) => d = c
  BY <1>1, <1>4 DEF IInv, OneOwner
<1>6. OneOwner'
  BY <1>3 DEF OneOwner, IInv
<1>7. \A s \in Sources : Owns(c, s) => s = held[c]
  BY <1>1 DEF Owns, Claim
<1>8. NoneSwallowed'
  BY <1>1, <1>2, <1>3, <1>5, <1>7 DEF NoneSwallowed, IInv
<1>9. PendingIsFree'
  BY <1>1, <1>2, <1>4 DEF PendingIsFree, NoneSwallowed, IInv
<1>10. RequestIsCurrent' /\ HeldIsSource'
  BY <1>2 DEF RequestIsCurrent, HeldIsSource, IInv, Claim, Complete
<1> QED
  BY <1>6, <1>8, <1>9, <1>10

(* What the other edges have in common: nothing is claimed or completed.    *)
LEMMA PlainEdge ==
  ASSUME IInv, Edge, ~Does("claim"), ~Does("complete")
  PROVE  inService' = inService /\ PendingIsFree'
<1>1. Claimed = {} /\ Completed = {}
  BY DEF Claimed, Completed
<1>2. inService' = inService /\ pending' \subseteq pending \cup (level \ inService)
  BY <1>1 DEF Edge, PendingAfter
<1> QED
  BY <1>2 DEF PendingIsFree, IInv

(* The edge that acks a claim: the handler looks at what it has claimed.    *)
LEMMA AckedClaimKeepsOwners ==
  ASSUME IInv, Edge, Acked, req.op = "claim"
  PROVE  OneOwner' /\ NoneSwallowed' /\ PendingIsFree' /\ RequestIsCurrent' /\ HeldIsSource'
<1> DEFINE c == req.at
<1>1. c \in Contexts /\ req = Claim(c) /\ phase[c] = "claiming" /\ req # None /\ ackR
  BY DEF IInv, RequestIsCurrent, Acked
<1>2. rdata \in Sources \cup {0} /\ 0 \notin Sources
  BY DEF IInv, PlicTypeOK, Sources
<1>3. /\ req' = None
      /\ phase' = [phase EXCEPT ![c] = IF rdata = 0 THEN "out" ELSE "serving"]
      /\ held' = [held EXCEPT ![c] = rdata]
  BY DEF Edge, HandlerAfter, IInv, PlicTypeOK
<1>4. inService' = inService /\ PendingIsFree'
  BY PlainEdge DEF Does, First, Acked
<1>5. \A d \in Contexts, s \in Sources : Owns(d, s)' <=> Owns(d, s)
  <2> TAKE d \in Contexts, s \in Sources
  <2>0. held'[d] \in Sources \cup {0}
    BY <1>2, <1>3 DEF IInv, PlicTypeOK
  <2>1. None \notin Access /\ Claim(d) \in Access /\ Complete(d, held'[d]) \in Access
    BY <2>0, HandlerAccesses
  <2>2. CASE d = c
    BY <1>1, <1>2, <1>3, <2>1, <2>2 DEF Owns, IInv, PlicTypeOK
  <2>3. CASE d # c
    <3>1. phase'[d] = phase[d] /\ held'[d] = held[d]
      BY <1>3, <2>3 DEF IInv, PlicTypeOK
    <3>2. /\ req # Claim(d) /\ req # Complete(d, held[d])
          /\ req' # Claim(d) /\ req' # Complete(d, held[d])
      BY <1>1, <1>3, <2>1, <2>3, <3>1 DEF Claim, Complete
    <3> QED
      BY <3>1, <3>2 DEF Owns
  <2> QED
    BY <2>2, <2>3
<1>6. OneOwner' /\ NoneSwallowed'
  BY <1>4, <1>5 DEF OneOwner, NoneSwallowed, IInv
<1>7. RequestIsCurrent'
  BY <1>3 DEF RequestIsCurrent
<1>8. HeldIsSource'
  BY <1>2, <1>3 DEF HeldIsSource, IInv, PlicTypeOK
<1> QED
  BY <1>4, <1>6, <1>7, <1>8

(* The edge that acks a completion: the handler returns.                    *)
LEMMA AckedCompletionKeepsOwners ==
  ASSUME IInv, Edge, Acked, req.op = "complete"
  PROVE  OneOwner' /\ NoneSwallowed' /\ PendingIsFree' /\ RequestIsCurrent' /\ HeldIsSource'
<1> DEFINE c == req.at
<1>1. /\ c \in Contexts /\ req = Complete(c, held[c]) /\ phase[c] = "completing"
      /\ req # None /\ ackR
  BY DEF IInv, RequestIsCurrent, Acked
<1>2. req' = None /\ phase' = [phase EXCEPT ![c] = "out"] /\ held' = held
  BY DEF Edge, HandlerAfter, IInv, PlicTypeOK
<1>3. inService' = inService /\ PendingIsFree'
  BY PlainEdge DEF Does, First, Acked
<1>4. \A d \in Contexts, s \in Sources : Owns(d, s)' <=> Owns(d, s)
  <2> TAKE d \in Contexts, s \in Sources
  <2>1. None \notin Access /\ Claim(d) \in Access /\ Complete(d, held[d]) \in Access
    BY HandlerAccesses DEF IInv, PlicTypeOK
  <2>2. CASE d = c
    BY <1>1, <1>2, <2>2 DEF Owns, IInv, PlicTypeOK
  <2>3. CASE d # c
    <3>1. phase'[d] = phase[d] /\ held'[d] = held[d]
      BY <1>2, <2>3 DEF IInv, PlicTypeOK
    <3>2. /\ req # Claim(d) /\ req # Complete(d, held[d])
          /\ req' # Claim(d) /\ req' # Complete(d, held[d])
      BY <1>1, <1>2, <2>1, <2>3 DEF Claim, Complete
    <3> QED
      BY <3>1, <3>2 DEF Owns
  <2> QED
    BY <2>2, <2>3
<1>5. OneOwner' /\ NoneSwallowed'
  BY <1>3, <1>4 DEF OneOwner, NoneSwallowed, IInv
<1>6. RequestIsCurrent' /\ HeldIsSource'
  BY <1>2 DEF RequestIsCurrent, HeldIsSource, IInv, PlicTypeOK
<1> QED
  BY <1>3, <1>5, <1>6

(* Any other edge: no handler's access is begun or ended.                   *)
LEMMA OtherEdgeKeepsOwners ==
  ASSUME IInv, Edge, ~Does("claim"), ~Does("complete"),
         ~(Acked /\ req.op \in {"claim", "complete"})
  PROVE  OneOwner' /\ NoneSwallowed' /\ PendingIsFree' /\ RequestIsCurrent' /\ HeldIsSource'
<1>1. req = None \/ req.op \notin {"claim", "complete"}
  BY DEF Does, First, Acked
<1>2. phase' = phase /\ held' = held /\ (req' = req \/ req' = None)
  BY <1>1 DEF Edge, HandlerAfter, Acked, IInv, PlicTypeOK
<1>3. inService' = inService /\ PendingIsFree'
  BY PlainEdge
<1>4. \A d \in Contexts, s \in Sources :
        req # Claim(d) /\ req # Complete(d, held[d]) /\ req' # Claim(d) /\ req' # Complete(d, held[d])
  <2> TAKE d \in Contexts, s \in Sources
  <2>1. None \notin Access /\ Claim(d) \in Access /\ Complete(d, held[d]) \in Access
    BY HandlerAccesses DEF IInv, PlicTypeOK
  <2> QED
    BY <1>1, <1>2, <2>1 DEF Claim, Complete
<1>5. \A d \in Contexts, s \in Sources : Owns(d, s)' <=> Owns(d, s)
  BY <1>2, <1>4 DEF Owns
<1>6. OneOwner' /\ NoneSwallowed'
  BY <1>3, <1>5 DEF OneOwner, NoneSwallowed, IInv
<1>7. RequestIsCurrent' /\ HeldIsSource'
  BY <1>1, <1>2 DEF RequestIsCurrent, HeldIsSource, IInv
<1> QED
  BY <1>3, <1>6, <1>7

(* Every edge keeps the invariant.                                          *)
LEMMA EdgeKeepsIInv ==
  ASSUME IInv, Edge
  PROVE  IInv'
<1>1. PlicTypeOK'
  BY EdgeKeepsTypes
<1>2. OneOwner' /\ NoneSwallowed' /\ PendingIsFree' /\ RequestIsCurrent' /\ HeldIsSource'
  <2>1. CASE Does("claim")
    BY <2>1, ClaimingKeepsOwners
  <2>2. CASE Does("complete")
    BY <2>2, CompletingKeepsOwners
  <2>3. CASE Acked /\ req.op = "claim"
    BY <2>3, AckedClaimKeepsOwners
  <2>4. CASE Acked /\ req.op = "complete"
    BY <2>4, AckedCompletionKeepsOwners
  <2>5. CASE ~Does("claim") /\ ~Does("complete") /\ ~(Acked /\ req.op \in {"claim", "complete"})
    BY <2>5, OtherEdgeKeepsOwners
  <2> QED
    BY <2>1, <2>2, <2>3, <2>4, <2>5
<1> QED
  BY <1>1, <1>2 DEF IInv

(* So does what happens between edges.                                      *)
LEMMA TrapKeepsIInv ==
  ASSUME IInv, NEW c \in Contexts, Trap(c)
  PROVE  IInv'
<1>1. /\ phase[c] = "out" /\ phase' = [phase EXCEPT ![c] = "claiming"] /\ held' = held
      /\ UNCHANGED <<req, ackR, rdata, level>> /\ UNCHANGED plicVars
  BY DEF Trap, bridgeVars
<1>2. PlicTypeOK'
  BY <1>1 DEF IInv, PlicTypeOK, plicVars
<1>3. req # Claim(c) /\ (req # None /\ req.op \in {"claim", "complete"} => req.at # c)
  <2>1. Claim(c) \in Access /\ None \notin Access
    BY PlicAssumption DEF Claim, Access, HandlerOps, Contexts
  <2> QED
    BY <1>1, <2>1 DEF IInv, RequestIsCurrent, Claim
<1>4. \A d \in Contexts, s \in Sources : Owns(d, s)' <=> Owns(d, s)
  BY <1>1, <1>3 DEF Owns, IInv, PlicTypeOK
<1>5. OneOwner' /\ NoneSwallowed'
  BY <1>1, <1>4 DEF OneOwner, NoneSwallowed, IInv, plicVars
<1>6. RequestIsCurrent'
  BY <1>1, <1>3 DEF RequestIsCurrent, IInv, PlicTypeOK
<1>7. HeldIsSource' /\ PendingIsFree'
  BY <1>1 DEF HeldIsSource, PendingIsFree, IInv, PlicTypeOK, plicVars
<1> QED
  BY <1>2, <1>5, <1>6, <1>7 DEF IInv

(* A handler's request changes nobody's ownership.                          *)
LEMMA IssueKeepsIInv ==
  ASSUME IInv, NEW c \in Contexts, Issue(c)
  PROVE  IInv'
<1>1. /\ req = None /\ UNCHANGED <<ackR, rdata, level, phase, held>> /\ UNCHANGED plicVars
      /\ ~ackR
  BY DEF Issue, handlerVars, IInv, PlicTypeOK
<1>2. \/ phase[c] = "claiming" /\ req' = Claim(c)
      \/ phase[c] = "completing" /\ req' = Complete(c, held[c])
  BY DEF Issue
<1>3. Claim(c) \in Access /\ Complete(c, held[c]) \in Access
  BY DEF Claim, Complete, Access, HandlerOps, Contexts, Sources, IInv, PlicTypeOK
<1>4. PlicTypeOK'
  BY <1>1, <1>2, <1>3 DEF IInv, PlicTypeOK, plicVars
<1>5. \A d \in Contexts, s \in Sources : Owns(d, s)' <=> Owns(d, s)
  BY <1>1 DEF Owns
<1>6. OneOwner' /\ NoneSwallowed'
  BY <1>1, <1>5 DEF OneOwner, NoneSwallowed, IInv, plicVars
<1>7. RequestIsCurrent'
  BY <1>1, <1>2 DEF RequestIsCurrent, Claim, Complete
<1>8. HeldIsSource' /\ PendingIsFree'
  BY <1>1 DEF HeldIsSource, PendingIsFree, IInv, plicVars
<1> QED
  BY <1>4, <1>6, <1>7, <1>8 DEF IInv

(* A handler that has served its device still owns the source.              *)
LEMMA ServeKeepsIInv ==
  ASSUME IInv, NEW c \in Contexts, Serve(c)
  PROVE  IInv'
<1>1. /\ phase[c] = "serving" /\ phase' = [phase EXCEPT ![c] = "completing"] /\ held' = held
      /\ UNCHANGED <<req, ackR, rdata>> /\ UNCHANGED plicVars
      /\ level' \subseteq level
  BY DEF Serve, bridgeVars
<1>2. PlicTypeOK'
  BY <1>1 DEF IInv, PlicTypeOK, plicVars
<1>3. /\ req # Complete(c, held[c])
      /\ req # None /\ req.op \in {"claim", "complete"} => req.at # c
  <2>1. Complete(c, held[c]) \in Access /\ None \notin Access
    BY PlicAssumption DEF Complete, Access, HandlerOps, Contexts, Sources, IInv, PlicTypeOK
  <2> QED
    BY <1>1, <2>1 DEF IInv, RequestIsCurrent, Complete
<1>4. \A d \in Contexts, s \in Sources : Owns(d, s)' <=> Owns(d, s)
  BY <1>1, <1>3 DEF Owns, IInv, PlicTypeOK
<1>5. OneOwner' /\ NoneSwallowed'
  BY <1>1, <1>4 DEF OneOwner, NoneSwallowed, IInv, plicVars
<1>6. RequestIsCurrent'
  BY <1>1, <1>3 DEF RequestIsCurrent, IInv, PlicTypeOK
<1>7. HeldIsSource' /\ PendingIsFree'
  BY <1>1 DEF HeldIsSource, PendingIsFree, IInv, PlicTypeOK, plicVars
<1> QED
  BY <1>2, <1>5, <1>6, <1>7 DEF IInv

(* An access of other software is no handler's.                             *)
LEMMA OtherAccessKeepsIInv ==
  ASSUME IInv, OtherAccess
  PROVE  IInv'
<1>1. /\ req = None /\ UNCHANGED <<ackR, rdata, level, phase, held>> /\ UNCHANGED plicVars
      /\ ~ackR
  BY DEF OtherAccess, handlerVars, IInv, PlicTypeOK
<1>2. req' \in Access /\ req'.op \notin {"claim", "complete"}
  <2>1. \A c \in Contexts : Stray(c) \in Access /\ Stray(c).op = "fetch"
    BY DEF Stray, Access, HandlerOps, Contexts
  <2> QED
    BY <2>1, PlicAssumption DEF OtherAccess, SettingOps
<1>3. PlicTypeOK'
  BY <1>1, <1>2 DEF IInv, PlicTypeOK, plicVars
<1>4. \A d \in Contexts, s \in Sources : Owns(d, s)' <=> Owns(d, s)
  BY <1>1 DEF Owns
<1>5. OneOwner' /\ NoneSwallowed'
  BY <1>1, <1>4 DEF OneOwner, NoneSwallowed, IInv, plicVars
<1>6. RequestIsCurrent' /\ HeldIsSource' /\ PendingIsFree'
  BY <1>1, <1>2 DEF RequestIsCurrent, HeldIsSource, PendingIsFree, IInv, plicVars
<1> QED
  BY <1>3, <1>5, <1>6 DEF IInv

(* The lines' changes touch neither the controller nor the handlers.        *)
LEMMA LineKeepsIInv ==
  ASSUME IInv, NEW s \in Sources, Raise(s) \/ Drop(s)
  PROVE  IInv'
<1>1. UNCHANGED <<req, ackR, rdata, phase, held>> /\ UNCHANGED plicVars /\ level' \subseteq Sources
  BY DEF Raise, Drop, bridgeVars, handlerVars, IInv, PlicTypeOK
<1>2. PlicTypeOK'
  BY <1>1 DEF IInv, PlicTypeOK, plicVars
<1>3. \A d \in Contexts, t \in Sources : Owns(d, t)' <=> Owns(d, t)
  BY <1>1 DEF Owns
<1>4. OneOwner' /\ NoneSwallowed'
  BY <1>1, <1>3 DEF OneOwner, NoneSwallowed, IInv, plicVars
<1>5. RequestIsCurrent' /\ HeldIsSource' /\ PendingIsFree'
  BY <1>1 DEF RequestIsCurrent, HeldIsSource, PendingIsFree, IInv, plicVars
<1> QED
  BY <1>2, <1>4, <1>5 DEF IInv

(* The invariant holds always.                                              *)
THEOREM Invariance == Spec => []IInv
<1>1. IInv /\ [Next]_vars => IInv'
  <2> SUFFICES ASSUME IInv, [Next]_vars
               PROVE  IInv'
    OBVIOUS
  <2>1. CASE Edge
    BY <2>1, EdgeKeepsIInv
  <2>2. ASSUME NEW c \in Contexts, Trap(c)
        PROVE  IInv'
    BY <2>2, TrapKeepsIInv
  <2>3. ASSUME NEW c \in Contexts, Issue(c)
        PROVE  IInv'
    BY <2>3, IssueKeepsIInv
  <2>4. ASSUME NEW c \in Contexts, Serve(c)
        PROVE  IInv'
    BY <2>4, ServeKeepsIInv
  <2>5. CASE OtherAccess
    BY <2>5, OtherAccessKeepsIInv
  <2>6. ASSUME NEW s \in Sources, Raise(s) \/ Drop(s)
        PROVE  IInv'
    BY <2>6, LineKeepsIInv
  <2>7. CASE UNCHANGED vars
    BY <2>7 DEF vars, bridgeVars, plicVars, handlerVars, IInv, PlicTypeOK, RequestIsCurrent,
                HeldIsSource, PendingIsFree, OneOwner, NoneSwallowed, Owns, Claim, Complete
  <2> QED
    BY <2>1, <2>2, <2>3, <2>4, <2>5, <2>6, <2>7 DEF Next
<1> QED
  BY <1>1, InitEstablishesIInv, PTL DEF Spec

(* No source is ever handled by two contexts at once.                       *)
THEOREM SourcesHaveOneOwner == Spec => []OneOwner
<1>1. IInv => OneOwner
  BY DEF IInv
<1> QED
  BY <1>1, Invariance, PTL

(* No source is ever in service without a handler that will complete it.    *)
THEOREM NoSourceIsSwallowed == Spec => []NoneSwallowed
<1>1. IInv => NoneSwallowed
  BY DEF IInv
<1> QED
  BY <1>1, Invariance, PTL

-----------------------------------------------------------------------------
(* The loop of the encoder, as the function it computes: what it names      *)
(* after n sources, of a set E of eligible ones whose priorities are p.     *)
ScanFrom(f, k, E, p) ==
  f = [n \in 0 .. k |->
         IF n = 0 THEN 0
         ELSE IF n \in E /\ (f[n - 1] = 0 \/ p[n] > p[f[n - 1]]) THEN n ELSE f[n - 1]]

(* There is such a function.                                                *)
LEMMA ScansExist ==
  ASSUME NEW E, NEW p, NEW N \in Nat
  PROVE  \E f : ScanFrom(f, N, E, p)
<1> DEFINE G == [x \in Nat \X Nat |->
                   IF x[1] \in E /\ (x[2] = 0 \/ p[x[1]] > p[x[2]]) THEN x[1] ELSE x[2]]
<1>1. G \in [Nat \X Nat -> Nat]
  OBVIOUS
<1>2. PICK f : Follows(f, Nat, 0, G, N)
  <2> HIDE DEF G
  <2>1. 0 \in Nat
    OBVIOUS
  <2> QED
    BY <1>1, <2>1, RecursionExists
<1>3. ASSUME NEW n \in 1 .. N
      PROVE  f[n] = IF n \in E /\ (f[n - 1] = 0 \/ p[n] > p[f[n - 1]])
                    THEN n ELSE f[n - 1]
  <2>1. <<n, f[n - 1]>> \in Nat \X Nat
    BY <1>2 DEF Follows
  <2> QED
    BY <1>2, <2>1 DEF Follows
<1>4. \A n \in 0 .. N : n # 0 => n \in 1 .. N
  OBVIOUS
<1> HIDE DEF G
<1>5. ScanFrom(f, N, E, p)
  BY <1>2, <1>3, <1>4 DEF ScanFrom, Follows
<1> QED
  BY <1>5

(* After n sources the loop names 0 if none of them is eligible, and else   *)
(* an eligible one that beats every other of them.  (The loop of            *)
(* rtl/plic.v that compares with the best so far.)                          *)
ScanNames(v, n, E, p) ==
  /\ v = 0 => \A s \in E : s > n
  /\ v # 0 => /\ v \in E /\ v <= n
              /\ \A t \in E : t # v /\ t <= n =>
                   p[v] > p[t] \/ (p[v] = p[t] /\ v < t)

LEMMA ScansAreRight ==
  ASSUME NEW N \in Nat, NEW E \in SUBSET (1 .. N), NEW p \in [1 .. N -> Nat],
         NEW f, ScanFrom(f, N, E, p)
  PROVE  \A n \in 0 .. N : ScanNames(f[n], n, E, p)
<1> DEFINE Wrong == {n \in 0 .. N : ~ScanNames(f[n], n, E, p)}
<1>1. SUFFICES ASSUME Wrong # {}
               PROVE  FALSE
  OBVIOUS
<1>2. PICK n \in Wrong : \A m \in Wrong : n <= m
  <2>1. Wrong \in SUBSET Nat
    OBVIOUS
  <2> HIDE DEF Wrong
  <2> QED
    BY <1>1, <2>1, LeastOfNats
<1>3. n \in 0 .. N /\ n \in Nat /\ ~ScanNames(f[n], n, E, p)
  BY <1>2
<1>4. n # 0
  <2>1. SUFFICES ASSUME n = 0
                 PROVE  FALSE
    OBVIOUS
  <2>2. f[0] = 0
    BY DEF ScanFrom
  <2> QED
    BY <1>3, <2>1, <2>2 DEF ScanNames
<1>5. n - 1 \in 0 .. N /\ n - 1 \notin Wrong
  BY <1>2, <1>3, <1>4
<1>6. ScanNames(f[n - 1], n - 1, E, p)
  BY <1>5
<1> DEFINE b == f[n - 1]
<1>7. f[n] = IF n \in E /\ (b = 0 \/ p[n] > p[b]) THEN n ELSE b
  BY <1>3, <1>4 DEF ScanFrom
<1> HIDE DEF b
<1>8. ScanNames(b, n - 1, E, p)
  BY <1>6 DEF b
<1>9. \A s \in E : s \in 1 .. N /\ s \in Nat /\ p[s] \in Nat
  OBVIOUS
<1>10. CASE n \notin E
  <2>1. f[n] = b /\ \A s \in E : s <= n => s <= n - 1
    BY <1>3, <1>7, <1>9, <1>10
  <2>2. CASE b = 0
    <3>1. \A s \in E : s > n - 1
      BY <1>8, <2>2 DEF ScanNames
    <3>2. \A s \in E : s > n
      BY <1>3, <1>9, <2>1, <3>1
    <3> QED
      BY <1>3, <2>1, <2>2, <3>2 DEF ScanNames
  <2>3. CASE b # 0
    <3>1. b \in E /\ b <= n - 1
      BY <1>8, <2>3 DEF ScanNames
    <3>2. b <= n
      BY <1>3, <1>9, <3>1
    <3>3. \A t \in E : t # b /\ t <= n => p[b] > p[t] \/ (p[b] = p[t] /\ b < t)
      BY <1>8, <2>1, <2>3 DEF ScanNames
    <3> QED
      BY <1>3, <2>1, <2>3, <3>1, <3>2, <3>3 DEF ScanNames
  <2> QED
    BY <2>2, <2>3
<1>11. CASE n \in E /\ b = 0
  <2>1. f[n] = n
    BY <1>7, <1>11
  <2>2. \A s \in E : s > n - 1
    BY <1>8, <1>11 DEF ScanNames
  <2> QED
    BY <1>3, <1>4, <1>9, <1>11, <2>1, <2>2 DEF ScanNames
<1>12. CASE n \in E /\ b # 0
  <2>1. b \in E /\ b <= n - 1 /\ b \in Nat /\ p[b] \in Nat /\ p[n] \in Nat
    BY <1>8, <1>9, <1>12 DEF ScanNames
  <2>2. \A t \in E : t # b /\ t <= n - 1 => p[b] > p[t] \/ (p[b] = p[t] /\ b < t)
    BY <1>8, <1>12 DEF ScanNames
  <2>3. \A t \in E : t # n /\ t <= n => t <= n - 1
    BY <1>3, <1>9
  <2>4. CASE p[n] > p[b]
    <3>1. f[n] = n
      BY <1>7, <1>12, <2>4
    <3>2. \A t \in E : t # n /\ t <= n => p[n] > p[t]
      BY <1>9, <2>1, <2>2, <2>3, <2>4
    <3> QED
      BY <1>3, <1>4, <1>9, <1>12, <3>1, <3>2 DEF ScanNames
  <2>5. CASE ~(p[n] > p[b])
    <3>1. f[n] = b
      BY <1>7, <1>12, <2>5
    <3>2. p[b] > p[n] \/ (p[b] = p[n] /\ b < n)
      BY <1>3, <2>1, <2>5
    <3> QED
      BY <1>3, <1>9, <1>12, <2>1, <2>2, <2>3, <3>1, <3>2 DEF ScanNames
  <2> QED
    BY <2>4, <2>5
<1> QED
  BY <1>3, <1>10, <1>11, <1>12

(* The loop names what the rest of the model claims.                        *)
LEMMA EncoderIsClaimId ==
  ASSUME PlicTypeOK, NEW c \in Contexts
  PROVE  Encoder(c) = ClaimId(c)
<1> DEFINE E == Eligible(c)
           Loop(f) == [n \in 0 .. NumSources |->
                        IF n = 0 THEN 0
                        ELSE IF n \in E /\ (f[n - 1] = 0 \/ priority[n] > priority[f[n - 1]])
                             THEN n ELSE f[n - 1]]
           scan == CHOOSE f : f = Loop(f)
<1>1. Encoder(c) = scan[NumSources]
  BY DEF Encoder
<1>2. NumSources \in Nat /\ E \in SUBSET (1 .. NumSources)
      /\ priority \in [1 .. NumSources -> Nat]
  BY PlicAssumption DEF PlicTypeOK, Eligible, Sources
<1>3. scan = Loop(scan)
  <2>1. \E f : f = Loop(f)
    <3> HIDE DEF E
    <3>1. \E f : ScanFrom(f, NumSources, E, priority)
      BY <1>2, ScansExist
    <3> QED
      BY <3>1 DEF ScanFrom
  <2> HIDE DEF Loop
  <2> QED
    BY <2>1
<1>4. ScanFrom(scan, NumSources, E, priority)
  <2> HIDE DEF scan
  <2> QED
    BY <1>3 DEF ScanFrom
<1> DEFINE v == Encoder(c)
<1>5. ScanNames(v, NumSources, E, priority)
  <2> HIDE DEF scan, E
  <2>1. \A n \in 0 .. NumSources : ScanNames(scan[n], n, E, priority)
    BY <1>2, <1>4, ScansAreRight
  <2> QED
    BY <1>1, <1>2, <2>1
<1> HIDE DEF v
<1>6. \A s \in E : s \in 1 .. NumSources /\ s \in Nat /\ priority[s] \in Nat
  BY <1>2
<1>7. CASE v = 0
  <2>1. E = {}
    BY <1>2, <1>5, <1>6, <1>7 DEF ScanNames
  <2>2. Best(c) = {}
    BY <2>1 DEF Best
  <2> QED
    BY <1>7, <2>2 DEF ClaimId, v
<1>8. CASE v # 0
  <2>1. v \in E /\ \A t \in E \ {v} : Beats(v, t)
    BY <1>5, <1>6, <1>8 DEF ScanNames, Beats
  <2>2. v \in Best(c)
    BY <2>1 DEF Best
  <2>3. ASSUME NEW s \in Best(c), s # v
        PROVE  FALSE
    <3>1. s \in E /\ Beats(s, v)
      BY <2>1, <2>3 DEF Best
    <3>2. Beats(v, s)
      BY <2>1, <2>3, <3>1
    <3> QED
      BY <1>6, <2>1, <3>1, <3>2 DEF Beats
  <2>4. Best(c) = {v}
    BY <2>2, <2>3
  <2> QED
    BY <2>4 DEF ClaimId, v
<1> QED
  BY <1>7, <1>8 DEF v

(* Whatever the priorities, the enables and the thresholds, the encoder's   *)
(* loop names the eligible source of the highest priority, the lowest of    *)
(* those, and what it captures is in range (rtl/plic.v, the loop for        *)
(* claim_id).                                                               *)
THEOREM EncoderNamesBest == Spec => []EncoderIsRight
<1>1. IInv => EncoderIsRight
  BY EncoderIsClaimId DEF IInv, EncoderIsRight, EncoderPicksBest
<1> QED
  BY <1>1, Invariance, PTL

-----------------------------------------------------------------------------
(***************************************************************************)
(* The SDRAM controller.                                                   *)
(***************************************************************************)

(* The states before the controller is ready, and those of a transfer with  *)
(* its row open.                                                            *)
InitStates == {"INIT_WAIT", "INIT_PRE", "INIT_REF", "INIT_MRS"}
ReadStates == {"READ", "READ_LO", "READ_HI", "BR_LO", "BR_HI"}
WriteStates == {"WRITE_LO", "WRITE_HI"}
States == InitStates \cup ReadStates \cup WriteStates
            \cup {"IDLE", "REFRESH", "ACTIVE", "PRECHARGE"}

BankIds == 0 .. Banks - 1
RowIds == 0 .. Rows - 1

(* Records that have the fields of the controller, of the part, of pins.    *)
IsController(r) ==
  r = [state |-> r.state, tmr |-> r.tmr, initRefs |-> r.initRefs, pins |-> r.pins,
       open |-> r.open, openBank |-> r.openBank, openRow |-> r.openRow,
       rdata |-> r.rdata, ack |-> r.ack, refi |-> r.refi, due |-> r.due,
       req |-> r.req, idx |-> r.idx]

IsPart(p) ==
  p = [open |-> p.open, sinceAct |-> p.sinceAct, sincePre |-> p.sincePre,
       sinceWrite |-> p.sinceWrite, sinceMrs |-> p.sinceMrs, sinceRef |-> p.sinceRef,
       up |-> p.up, cl |-> p.cl, bl |-> p.bl, pipe |-> p.pipe, wrLeft |-> p.wrLeft,
       wrBank |-> p.wrBank, wrCol |-> p.wrCol, faults |-> p.faults]

(* A request inside the part: an even column, and a line's columns in a row.*)
IsRequest(r) ==
  /\ r = [row |-> r.row, bank |-> r.bank, col |-> r.col, w |-> r.w, we |-> r.we,
          sel |-> r.sel, dat |-> r.dat, burst |-> r.burst]
  /\ r.row \in RowIds /\ r.bank \in BankIds /\ r.we \in BOOLEAN /\ r.burst \in BOOLEAN
  /\ r.col \in Nat /\ r.col + 2 <= Cols
  /\ r.burst => ~r.we /\ r.col % 8 = 0 /\ r.col + 8 <= Cols

(* How long the timer of a state may run.                                   *)
TimerMax(s) ==
  CASE s = "INIT_WAIT" -> PowerUp
    [] s \in {"INIT_PRE", "PRECHARGE", "REFRESH"} -> T_RP - 1
    [] s \in {"INIT_REF", "IDLE"} -> T_RFC
    [] s \in {"INIT_MRS", "READ_LO", "BR_LO"} -> 1
    [] s \in {"READ", "WRITE_LO"} -> T_RCD - 1
    [] OTHER -> 0

RegisterTypes ==
  /\ IsController(ctl)
  /\ ctl.state \in States /\ ctl.tmr \in Nat
  /\ ctl.initRefs \in 0 .. 8 /\ ctl.refi \in 0 .. TRefi /\ ctl.idx \in 0 .. 3
  /\ ctl.open \in BOOLEAN /\ ctl.ack \in BOOLEAN /\ ctl.due \in BOOLEAN
  /\ ctl.openBank \in BankIds /\ ctl.openRow \in RowIds
  /\ IsRequest(ctl.req)

TimerIsShort == ctl.tmr <= TimerMax(ctl.state)

(* Where the controller has its row open, and what it is serving.           *)
RowOpenFor == ctl.open /\ ctl.openBank = ctl.req.bank /\ ctl.openRow = ctl.req.row
Places ==
  /\ ctl.state \in {"INIT_WAIT", "INIT_PRE"} => ctl.initRefs = 8
  /\ ctl.state \in InitStates \cup {"REFRESH", "PRECHARGE"} => ~ctl.open
  /\ ctl.state \in ReadStates => ~ctl.req.we
  /\ ctl.state \in WriteStates => ctl.req.we
  /\ ctl.state \in {"BR_LO", "BR_HI"} => ctl.req.burst
  /\ ctl.state \in ReadStates \cup WriteStates => RowOpenFor

ControllerTypes == RegisterTypes /\ TimerIsShort /\ Places

MasterTypes ==
  /\ mhz \in Clocks
  /\ wb # Absent => IsRequest(wb)

-----------------------------------------------------------------------------
(* Numbers. *)

(* The controller's counts are as long as the part's intervals, at every clock. *)
LEMMA Intervals ==
  ASSUME mhz \in Clocks
  PROVE  /\ T_RP \in 1 .. 3 /\ T_RCD = T_RP /\ T_RFC \in 1 .. 9
         /\ T(mhz).rp \in 0 .. T_RP /\ T(mhz).rcd \in 0 .. T_RCD
         /\ T(mhz).rc \in 0 .. T_RCD + 3 + T_RP
         /\ T(mhz).ras \in 0 .. T_RCD + 3 /\ T(mhz).ras <= T(mhz).rc
         /\ T(mhz).rcd <= T(mhz).rc
         /\ T(mhz).rfc \in 0 .. T_RFC /\ T(mhz).rfc <= PowerUp
         /\ T(mhz).mrd \in 0 .. 2 /\ T(mhz).wr \in 0 .. 2
         /\ TRefi >= 12 + 3 * T_RP
<1> USE SdramAssumption
<1>1. mhz \in 1 .. 133 /\ PowerUp >= Periods(60, mhz) /\ TRefi >= 3 * Periods(20, mhz) + 12
  OBVIOUS
<1>2. Periods(20, mhz) \in 1 .. 3 /\ Periods(66, mhz) \in 1 .. 9
  BY <1>1 DEF Periods
<1>3. T_RP = Periods(20, mhz) /\ T_RCD = T_RP /\ T_RFC = Periods(66, mhz)
  BY <1>2 DEF T_RP, T_RCD, T_RFC, Cycles, Periods
<1>4. /\ Periods(18, mhz) \in 0 .. Periods(20, mhz)
      /\ Periods(60, mhz) \in 0 .. 2 * Periods(20, mhz) + 3
      /\ Periods(60, mhz) <= Periods(66, mhz)
      /\ Periods(42, mhz) \in 0 .. Periods(20, mhz) + 3
      /\ Periods(42, mhz) <= Periods(60, mhz) /\ Periods(18, mhz) <= Periods(60, mhz)
      /\ Periods(12, mhz) \in 0 .. 2 /\ Periods(15, mhz) \in 0 .. 2
  BY <1>1 DEF Periods
<1> QED
  BY <1>1, <1>2, <1>3, <1>4 DEF T

(* Time passes for every age at once.  Each command is allowed from some     *)
(* moment on, and the ages are held to the moment the controller will next  *)
(* be there: ctl.tmr + 1 cycles on for a row to be opened or a refresh to be *)
(* issued, ctl.tmr + ToClose cycles on for a row to be closed.               *)
ToClose(s) ==
  CASE s = "READ" -> 5
    [] s = "WRITE_LO" -> 4
    [] s \in {"READ_LO", "BR_LO", "WRITE_HI"} -> 3
    [] s \in {"READ_HI", "BR_HI"} -> 2
    [] OTHER -> 1

PartTypes ==
  /\ IsPart(part)
  /\ part.sinceAct \in [BankIds -> Nat] /\ part.sincePre \in [BankIds -> Nat]
  /\ part.sinceWrite \in [BankIds -> Nat]
  /\ part.sinceMrs \in Nat /\ part.sinceRef \in Nat /\ part.up \in Nat
  /\ part.wrBank \in BankIds /\ part.wrCol \in Nat

(* The part has open the row the controller thinks it has, and no other.    *)
RowsAgree ==
  part.open = [b \in BankIds |-> IF ctl.open /\ b = ctl.openBank THEN ctl.openRow ELSE -1]

(* The mode is set once powered up, and a write takes one cycle more.       *)
ModeAgrees ==
  /\ part.cl = IF ctl.state \in {"INIT_WAIT", "INIT_PRE", "INIT_REF"} THEN 0 ELSE 2
  /\ part.cl # 0 => part.bl = 2
  /\ part.wrLeft = IF ctl.state = "WRITE_HI" THEN 1 ELSE 0

(* A sequence of n things.                                                  *)
HasLength(s, n) == \E S : s \in Seq(S) /\ Len(s) = n

(* How many edges the words of a read are from having left the part, and    *)
(* that the controller drives the bus only when there are none.             *)
PipeAgrees ==
  /\ HasLength(part.pipe, CASE ctl.state \in {"READ_LO", "BR_LO"} -> 2 + ctl.tmr
                            [] ctl.state = "READ_HI" -> 1
                            [] ctl.state = "BR_HI" -> IF ctl.idx = 3 THEN 1 ELSE 3
                            [] OTHER -> 0)
  /\ ctl.pins.oe => ctl.state \in {"WRITE_HI", "IDLE"}

Ages ==
  /\ \A b \in BankIds : part.sincePre[b] + ctl.tmr + 1 >= T(mhz).rp
  /\ \A b \in BankIds : part.sinceWrite[b] + ctl.tmr + ToClose(ctl.state) >= T(mhz).wr
  /\ \A b \in BankIds :
       part.sinceAct[b] + (IF ctl.open THEN ctl.tmr + ToClose(ctl.state) + T_RP
                                       ELSE ctl.tmr + 1) >= T(mhz).rc
  /\ ctl.open =>
       /\ part.sinceAct[ctl.openBank] + ctl.tmr + 1 >= T(mhz).rcd
       /\ part.sinceAct[ctl.openBank] + ctl.tmr + ToClose(ctl.state) >= T(mhz).ras
  /\ part.sinceMrs + ctl.tmr + 1 >= T(mhz).mrd
  /\ part.sinceRef + ctl.tmr + 1 >= T(mhz).rfc
  /\ part.up + (IF ctl.state = "INIT_WAIT" THEN ctl.tmr ELSE 0) >= PowerUp

(* The most cycles the controller can be from the next refresh, once it is  *)
(* owed.                                                                    *)
ToRefresh(s, i) ==
  CASE s = "REFRESH" -> 1
    [] s = "IDLE" -> 1 + T_RP
    [] s = "READ_HI" -> 2 + T_RP
    [] s = "READ_LO" -> 3 + T_RP
    [] s = "BR_HI" -> 2 + T_RP + 2 * (3 - i)
    [] s = "BR_LO" -> 3 + T_RP + 2 * (3 - i)
    [] s = "READ" -> 11 + T_RP
    [] s = "WRITE_HI" -> 3 + T_RP
    [] s = "WRITE_LO" -> 4 + T_RP
    [] s = "PRECHARGE" -> 11 + T_RCD + T_RP
    [] OTHER -> 11 + T_RCD + 2 * T_RP

RefreshInTime ==
  /\ ~ctl.due => part.sinceRef + ctl.refi <= TRefi
  /\ ctl.state \in {"INIT_REF", "INIT_MRS"} =>
       part.sinceRef + ctl.tmr <= T_RFC + (IF ctl.state = "INIT_MRS" THEN 2 ELSE 0)
  /\ ctl.due /\ ctl.state \notin InitStates =>
       part.sinceRef + ctl.tmr + ToRefresh(ctl.state, ctl.idx) <= 2 * TRefi

PartInv ==
  /\ MasterTypes /\ ControllerTypes
  /\ PartTypes /\ RowsAgree /\ ModeAgrees /\ PipeAgrees /\ Ages /\ RefreshInTime
  /\ NothingRefused

(* Division by a divisor that is not a number written out.                  *)
LEMMA Division ==
  ASSUME NEW a \in Nat, NEW d \in Nat \ {0}
  PROVE  /\ a \div d \in Nat /\ a % d \in 0 .. d - 1
         /\ a = (a \div d) * d + (a % d)
OBVIOUS

(* A smaller multiple is smaller by a whole d at least.                     *)
LEMMA Times ==
  ASSUME NEW a \in Nat, NEW b \in Nat, NEW d \in Nat, a < b
  PROVE  a * d + d <= b * d /\ a * d \in Nat
<1>1. b = a + (b - a) /\ b - a \in Nat /\ b - a >= 1
  OBVIOUS
<1>2. b * d = a * d + (b - a) * d
  BY <1>1
<1>3. (b - a) * d >= d
  BY <1>1
<1> QED
  BY <1>2, <1>3

(* Quotient and remainder are the only ones.                                *)
LEMMA Quotient ==
  ASSUME NEW a \in Nat, NEW d \in Nat \ {0}, NEW q \in Nat, NEW r \in 0 .. d - 1,
         a = q * d + r
  PROVE  a \div d = q /\ a % d = r
<1> DEFINE p == a \div d
<1>1. p \in Nat /\ a % d \in 0 .. d - 1 /\ a = p * d + (a % d)
  BY Division
<1> HIDE DEF p
<1>2. ~(p < q)
  <2> SUFFICES ASSUME p < q PROVE FALSE
    OBVIOUS
  <2>1. p * d + d <= q * d /\ p * d \in Nat
    BY <1>1, Times
  <2> QED
    BY <1>1, <2>1
<1>3. ~(q < p)
  <2> SUFFICES ASSUME q < p PROVE FALSE
    OBVIOUS
  <2>1. q * d + d <= p * d /\ q * d \in Nat
    BY <1>1, Times
  <2> QED
    BY <1>1, <2>1
<1>4. p = q
  BY <1>1, <1>2, <1>3
<1> QED
  BY <1>1, <1>4 DEF p

(* Where a word is: its row, bank and column are in the part, and they are  *)
(* the place of its first halfword.                                         *)
LEMMA WordIsPlaced ==
  ASSUME NEW w \in Nat, 2 * w + 1 \in Halfwords
  PROVE  /\ Decompose(w).row \in RowIds /\ Decompose(w).bank \in BankIds
         /\ Decompose(w).col \in Nat /\ Decompose(w).col + 2 <= Cols
         /\ FlatAddr(Decompose(w).bank, Decompose(w).row, Decompose(w).col) = 2 * w
         /\ w % 4 = 0 => Decompose(w).col % 8 = 0 /\ Decompose(w).col + 8 <= Cols
<1> DEFINE n == 2 * w
           q == n \div Cols
           r == n % Cols
           s == q \div Banks
           k == q % Banks
<1>1. /\ n \in Nat /\ Cols \in Nat \ {0} /\ Banks \in Nat \ {0} /\ Rows \in Nat \ {0}
      /\ Cols % 8 = 0 /\ Rows * Banks * Cols \in Nat /\ n < Rows * Banks * Cols
  BY PartAssumption, SdramAssumption DEF Halfwords
<1>2. q \in Nat /\ r \in 0 .. Cols - 1 /\ n = q * Cols + r
  BY <1>1, Division
<1> HIDE DEF q
<1>3. s \in Nat /\ k \in 0 .. Banks - 1 /\ q = s * Banks + k
  BY <1>1, <1>2, Division
<1> HIDE DEF s, k, r
<1>4. k * Cols + Cols <= Banks * Cols /\ k * Cols \in Nat
  BY <1>1, <1>3, Times
<1>5. n = s * (Cols * Banks) + (k * Cols + r)
  BY <1>1, <1>2, <1>3
<1>6. Cols * Banks \in Nat \ {0} /\ k * Cols + r \in 0 .. Cols * Banks - 1
  BY <1>1, <1>2, <1>3, <1>4
<1>7. n \div (Cols * Banks) = s
  BY <1>1, <1>3, <1>5, <1>6, Quotient
<1>8. s \in 0 .. Rows - 1
  <2> SUFFICES ASSUME ~(s < Rows) PROVE FALSE
    BY <1>1, <1>3
  <2>1. Rows * (Cols * Banks) <= s * (Cols * Banks)
    BY <1>1, <1>3, <1>6, Times
  <2>2. Rows * (Cols * Banks) = Rows * Banks * Cols
    BY <1>1
  <2> QED
    BY <1>1, <1>3, <1>5, <1>6, <2>1, <2>2
<1>9. PICK j \in Nat : Cols = 8 * j
  <2>1. Cols = (Cols \div 8) * 8 /\ Cols \div 8 \in Nat
    BY <1>1
  <2> QED
    BY <2>1
<1>10. q * Cols = 8 * (q * j) /\ q * j \in Nat
  BY <1>2, <1>9
<1>11. r % 2 = 0 /\ (w % 4 = 0 => r % 8 = 0)
  <2> DEFINE x == q * j
  <2>1. 2 * w = 8 * x + r /\ x \in Nat /\ r \in Nat
    BY <1>2, <1>10 DEF n
  <2> HIDE DEF x
  <2> QED
    BY <2>1
<1>12. r + 2 <= Cols /\ (w % 4 = 0 => r + 8 <= Cols)
  BY <1>2, <1>9, <1>11
<1>13. (s * Banks + k) * Cols + r = n
  BY <1>2, <1>3
<1>14. /\ Decompose(w).row = s /\ Decompose(w).bank = k /\ Decompose(w).col = r
  BY <1>7 DEF Decompose, s, k, q, r
<1> QED
  BY <1>2, <1>3, <1>8, <1>11, <1>12, <1>13, <1>14 DEF RowIds, BankIds, FlatAddr

-----------------------------------------------------------------------------
(* What an edge does to the controller. *)

(* The master asks for what is inside the part.                             *)
LEMMA RequestsAreInside ==
  ASSUME NEW r \in Choices
  PROVE  r = Absent \/ IsRequest(r)
<1>1. ASSUME NEW w \in Words, NEW sel, NEW dat, NEW we \in BOOLEAN
      PROVE  IsRequest(Request(w, we, sel, dat, FALSE))
  <2>1. w \in Nat /\ 2 * w + 1 \in Halfwords
    BY SdramAssumption
  <2> QED
    BY <2>1, WordIsPlaced DEF Request, IsRequest
<1>2. ASSUME NEW w \in LineWords
      PROVE  IsRequest(Request(w, FALSE, <<>>, <<>>, TRUE))
  <2>1. w \in Nat /\ 2 * w + 1 \in Halfwords /\ w % 4 = 0
    BY SdramAssumption, PartAssumption DEF Halfwords
  <2> QED
    BY <2>1, WordIsPlaced DEF Request, IsRequest
<1>3. r = Absent \/ r \in Reads \/ r \in Lines \/ r \in Stores(writes' + 1)
  BY DEF Choices
<1>4. r \in Reads => \E w \in Words : r = Request(w, FALSE, <<>>, <<>>, FALSE)
  BY DEF Reads
<1>5. r \in Lines => \E w \in LineWords : r = Request(w, FALSE, <<>>, <<>>, TRUE)
  BY DEF Lines
<1>6. r \in Stores(writes' + 1) =>
        \E w \in Words, sel \in Lanes :
          r = Request(w, TRUE, sel, [k \in 1 .. 4 |-> writes' + 1], FALSE)
  BY DEF Stores, Request
<1> QED
  BY <1>1, <1>2, <1>3, <1>4, <1>5, <1>6

(* The master asks only for words inside the part.                          *)
LEMMA MasterTypesAfter ==
  ASSUME MasterTypes, Cycle
  PROVE  MasterTypes'
<1>1. wb' = wb \/ wb' \in Choices
  BY DEF Cycle, Master
<1>2. wb' = Absent \/ IsRequest(wb') \/ wb' = wb
  BY <1>1, RequestsAreInside
<1> QED
  BY <1>2 DEF MasterTypes, Cycle, IsRequest

(* The parts of what an edge does to the controller's registers.            *)
Moves(next, timer, pins) ==
  ctl'.state = next /\ ctl'.tmr = timer /\ ctl'.pins = pins
KeepsRow == UNCHANGED <<ctl.open, ctl.openBank, ctl.openRow>>
Closes == ctl'.open = FALSE /\ UNCHANGED <<ctl.openBank, ctl.openRow>>
Opens == ctl'.open = TRUE /\ ctl'.openBank = ctl.req.bank /\ ctl'.openRow = ctl.req.row
AnswersNothing == ctl'.ack = FALSE /\ ctl'.rdata = IF ctl.ack THEN <<>> ELSE ctl.rdata
KeepsRequest == UNCHANGED <<ctl.req, ctl.initRefs, ctl.idx>>

Refreshing == [Quiet EXCEPT !.cmd = "REF"]
SettingMode == [Quiet EXCEPT !.cmd = "MRS"]
WritingLow == [Data(1) EXCEPT !.cmd = "WRITE", !.a = ctl.req.col, !.ba = ctl.req.bank]

(* A refresh falls due each time the interval has run, in every state.      *)
Ticks ==
  /\ IsController(ctl)'
  /\ ctl'.refi = IF ctl.refi = 0 THEN TRefi ELSE ctl.refi - 1
  /\ ctl'.due = IF ctl.refi = 0 THEN TRUE
                ELSE ctl.due /\ ~(ctl.state = "REFRESH" /\ ctl.tmr = 0)

(* While its timer runs the controller waits.                               *)
LEMMA ControllerWaits ==
  ASSUME ControllerTypes, Cycle, ctl.tmr # 0
  PROVE  /\ Ticks /\ Moves(ctl.state, ctl.tmr - 1, Quiet)
         /\ KeepsRow /\ AnswersNothing /\ KeepsRequest
<1>1. ctl' = Controller /\ IsController(ctl)
  BY DEF Cycle, ControllerTypes, RegisterTypes
<1> QED
  BY <1>1
     DEF IsController, Controller, Default, Ticks, RefreshTaken, Moves, KeepsRow,
         AnswersNothing, KeepsRequest

(* Powering up, and refreshing.                                             *)
LEMMA ControllerRefreshes ==
  ASSUME ControllerTypes, Cycle, ctl.tmr = 0
  PROVE  /\ ctl.state \in InitStates \cup {"REFRESH"} => Ticks
         /\ ctl.state = "INIT_WAIT" =>
              Moves("INIT_PRE", T_RP - 1, PreAll) /\ Closes /\ AnswersNothing /\ KeepsRequest
         /\ ctl.state = "INIT_PRE" \/ (ctl.state = "INIT_REF" /\ ctl.initRefs # 0) =>
              /\ Moves("INIT_REF", T_RFC - 1, Refreshing) /\ KeepsRow /\ AnswersNothing
              /\ ctl'.initRefs = ctl.initRefs - 1 /\ UNCHANGED <<ctl.req, ctl.idx>>
         /\ ctl.state = "INIT_REF" /\ ctl.initRefs = 0 =>
              Moves("INIT_MRS", 1, SettingMode) /\ KeepsRow /\ AnswersNothing /\ KeepsRequest
         /\ ctl.state = "INIT_MRS" =>
              Moves("IDLE", 0, Quiet) /\ KeepsRow /\ AnswersNothing /\ KeepsRequest
         /\ ctl.state = "REFRESH" =>
              Moves("IDLE", T_RFC - 1, Refreshing) /\ KeepsRow /\ AnswersNothing /\ KeepsRequest
<1>0. ctl' = Controller /\ IsController(ctl)
  BY DEF Cycle, ControllerTypes, RegisterTypes
<1>9. Wait(T_MRD) = 1 /\ Wait(CAS_LATENCY) = 1 /\ Wait(T_WR) = 1
  BY DEF Wait, T_MRD, CAS_LATENCY, T_WR
<1>1. CASE ctl.state = "INIT_WAIT"
  BY <1>0, <1>1 DEF IsController, Controller, Default, Assigned, Closed, Wait,
              Ticks, RefreshTaken, InitStates, Moves, Closes, AnswersNothing, KeepsRequest
<1>2. CASE ctl.state = "INIT_PRE" \/ (ctl.state = "INIT_REF" /\ ctl.initRefs # 0)
  BY <1>0, <1>2, ZenonT(60) DEF IsController, Controller, Default, Assigned, Refreshed, Wait,
              Ticks, RefreshTaken, InitStates, Moves, KeepsRow, AnswersNothing, Refreshing
<1>3. CASE ctl.state = "INIT_REF" /\ ctl.initRefs = 0
  BY <1>0, <1>3, <1>9 DEF IsController, Controller, Default, Assigned,
              Ticks, RefreshTaken, InitStates, Moves, KeepsRow, AnswersNothing, KeepsRequest,
              SettingMode
<1>4. CASE ctl.state = "INIT_MRS"
  BY <1>0, <1>4 DEF IsController, Controller, Default, Assigned,
              Ticks, RefreshTaken, InitStates, Moves, KeepsRow, AnswersNothing, KeepsRequest
<1>5. CASE ctl.state = "REFRESH"
  BY <1>0, <1>5 DEF IsController, Controller, Default, Assigned, Refreshed, Wait,
              Ticks, RefreshTaken, InitStates, Moves, KeepsRow, AnswersNothing, KeepsRequest,
              Refreshing
<1> QED
  BY <1>1, <1>2, <1>3, <1>4, <1>5 DEF InitStates

(* Deciding what to do next.                                                *)
LEMMA ControllerDecides ==
  ASSUME ControllerTypes, Cycle, ctl.tmr = 0
  PROVE  /\ ctl.state \in {"IDLE", "ACTIVE", "PRECHARGE"} => Ticks
         /\ ctl.state = "IDLE" /\ ctl.due /\ ctl.open =>
              Moves("REFRESH", T_RP - 1, PreAll) /\ Closes /\ AnswersNothing /\ KeepsRequest
         /\ ctl.state = "IDLE" /\ ctl.due /\ ~ctl.open =>
              Moves("REFRESH", 0, Quiet) /\ KeepsRow /\ AnswersNothing /\ KeepsRequest
         /\ ctl.state = "IDLE" /\ ~ctl.due /\ Asked =>
              /\ Moves("ACTIVE", 0, Quiet) /\ KeepsRow /\ AnswersNothing
              /\ ctl'.req = [wb EXCEPT !.burst = BurstAsked(wb)]
              /\ UNCHANGED <<ctl.initRefs, ctl.idx>>
         /\ ctl.state = "IDLE" /\ ~ctl.due /\ ~Asked =>
              /\ Moves("IDLE", 0, Quiet) /\ KeepsRow /\ AnswersNothing
              /\ ctl'.req = NoRequest /\ UNCHANGED <<ctl.initRefs, ctl.idx>>
         /\ ctl.state = "ACTIVE" /\ RowHit =>
              Moves(AccessState, 0, Quiet) /\ KeepsRow /\ AnswersNothing /\ KeepsRequest
         /\ ctl.state = "ACTIVE" /\ ~RowHit /\ ctl.open =>
              Moves("PRECHARGE", T_RP - 1, PreAll) /\ Closes /\ AnswersNothing /\ KeepsRequest
         /\ ctl.state = "PRECHARGE" \/ (ctl.state = "ACTIVE" /\ ~ctl.open) =>
              /\ Moves(AccessState, T_RCD - 1, Act(ctl.req))
              /\ Opens /\ AnswersNothing /\ KeepsRequest
<1>0. ctl' = Controller /\ IsController(ctl)
  BY DEF Cycle, ControllerTypes, RegisterTypes
<1> USE DEF IsController, Controller, Default, Assigned, Wait,
            Ticks, RefreshTaken, Moves, KeepsRow, Closes, Opens, AnswersNothing, KeepsRequest
<1>1. CASE ctl.state = "IDLE" /\ ctl.due
  BY <1>0, <1>1, ZenonT(60) DEF Idle, Closed
<1>2. CASE ctl.state = "IDLE" /\ ~ctl.due
  BY <1>0, <1>2, ZenonT(60) DEF Idle
<1>3. CASE ctl.state = "ACTIVE" /\ RowHit
  BY <1>0, <1>3 DEF Active, RowHit
<1>4. CASE ctl.state = "ACTIVE" /\ ~RowHit /\ ctl.open
  BY <1>0, <1>4 DEF Active, Closed
<1>5. CASE ctl.state = "PRECHARGE" \/ (ctl.state = "ACTIVE" /\ ~ctl.open)
  BY <1>0, <1>5, ZenonT(60) DEF Active, Opened, RowHit
<1> QED
  BY <1>1, <1>2, <1>3, <1>4, <1>5

(* Reading and writing.                                                     *)
LEMMA ControllerTransfers ==
  ASSUME ControllerTypes, Cycle, ctl.tmr = 0
  PROVE  /\ ctl.state \in ReadStates \cup WriteStates => Ticks
         /\ ctl.state = "READ" =>
              /\ Moves(IF ctl.req.burst THEN "BR_LO" ELSE "READ_LO", 1, Read(0))
              /\ KeepsRow /\ AnswersNothing /\ ctl'.idx = 0
              /\ UNCHANGED <<ctl.req, ctl.initRefs>>
         /\ ctl.state = "READ_LO" =>
              /\ Moves("READ_HI", 0, Quiet) /\ KeepsRow /\ KeepsRequest
              /\ ctl'.ack = FALSE /\ ctl'.rdata = Dq
         /\ ctl.state = "READ_HI" =>
              /\ Moves("IDLE", 0, Quiet) /\ KeepsRow /\ KeepsRequest
              /\ ctl'.ack = TRUE /\ ctl'.rdata = ctl.rdata \o Dq
         /\ ctl.state = "BR_LO" =>
              /\ Moves("BR_HI", 0, IF ctl.idx # 3 THEN Read(ctl.idx + 1) ELSE Quiet)
              /\ KeepsRow /\ KeepsRequest /\ ctl'.ack = FALSE /\ ctl'.rdata = Dq
         /\ ctl.state = "BR_HI" =>
              /\ Moves(IF ctl.idx = 3 THEN "IDLE" ELSE "BR_LO", 0, Quiet) /\ KeepsRow
              /\ ctl'.ack = TRUE /\ ctl'.rdata = ctl.rdata \o Dq
              /\ ctl'.idx = IF ctl.idx = 3 THEN 3 ELSE ctl.idx + 1
              /\ UNCHANGED <<ctl.req, ctl.initRefs>>
         /\ ctl.state = "WRITE_LO" =>
              Moves("WRITE_HI", 0, WritingLow) /\ KeepsRow /\ KeepsRequest /\ AnswersNothing
         /\ ctl.state = "WRITE_HI" =>
              /\ Moves("IDLE", 1, Data(2)) /\ KeepsRow /\ KeepsRequest
              /\ ctl'.ack = TRUE /\ ctl'.rdata = IF ctl.ack THEN <<>> ELSE ctl.rdata
<1>0. ctl' = Controller /\ IsController(ctl)
  BY DEF Cycle, ControllerTypes, RegisterTypes
<1>9. Wait(T_MRD) = 1 /\ Wait(CAS_LATENCY) = 1 /\ Wait(T_WR) = 1
  BY DEF Wait, T_MRD, CAS_LATENCY, T_WR
<1> USE DEF IsController, Controller, Default, Assigned,
            Ticks, RefreshTaken, ReadStates, WriteStates, Moves, KeepsRow, AnswersNothing,
            KeepsRequest
<1>1. CASE ctl.state = "READ"
  BY <1>0, <1>1, <1>9
<1>2. CASE ctl.state = "READ_LO"
  BY <1>0, <1>2
<1>3. CASE ctl.state = "READ_HI"
  BY <1>0, <1>3
<1>4. CASE ctl.state = "BR_LO"
  BY <1>0, <1>4
<1>5. CASE ctl.state = "BR_HI"
  BY <1>0, <1>5
<1>6. CASE ctl.state = "WRITE_LO"
  BY <1>0, <1>6, ZenonT(60) DEF WritingLow
<1>7. CASE ctl.state = "WRITE_HI"
  BY <1>0, <1>7, <1>9
<1> QED
  BY <1>1, <1>2, <1>3, <1>4, <1>5, <1>6, <1>7 DEF ReadStates, WriteStates


(* Whatever it does, the registers stay what they are.                      *)
LEMMA RegisterTypesAfter ==
  ASSUME ControllerTypes, MasterTypes, Cycle
  PROVE  Ticks /\ RegisterTypes'
<1> USE DEF ControllerTypes
<1>1. /\ PowerUp \in Nat /\ TRefi \in Nat /\ 0 \in BankIds /\ 0 \in RowIds
      /\ T_RP \in 1 .. 3 /\ T_RCD \in 1 .. 3 /\ T_RFC \in 1 .. 9
  BY Intervals, PartAssumption DEF MasterTypes, BankIds, RowIds
<1>2. IsRequest(NoRequest)
  BY <1>1, SdramAssumption, PartAssumption DEF NoRequest, IsRequest
<1>3. ASSUME wb # Absent PROVE IsRequest([wb EXCEPT !.burst = BurstAsked(wb)])
  <2>1. IsRequest(wb)
    BY <1>3 DEF MasterTypes
  <2> QED
    BY <2>1 DEF IsRequest, BurstAsked
<1>4. ctl.tmr = 0 => \/ ctl.state \in InitStates \cup {"REFRESH"}
                      \/ ctl.state \in {"IDLE", "ACTIVE", "PRECHARGE"}
                      \/ ctl.state \in ReadStates \cup WriteStates
  BY DEF RegisterTypes, States
<1>5. Ticks
  <2>1. CASE ctl.tmr # 0
    BY <1>1, <1>2, <1>3, <2>1, ControllerWaits
  <2>2. CASE ctl.tmr = 0 /\ ctl.state \in InitStates \cup {"REFRESH"}
    BY <1>1, <1>2, <1>3, <2>2, ControllerRefreshes
  <2>3. CASE ctl.tmr = 0 /\ ctl.state \in {"IDLE", "ACTIVE", "PRECHARGE"}
    BY <1>1, <1>2, <1>3, <2>3, ControllerDecides
  <2>4. CASE ctl.tmr = 0 /\ ctl.state \in ReadStates \cup WriteStates
    BY <1>1, <1>2, <1>3, <2>4, ControllerTransfers
  <2> QED
    BY <1>4, <2>1, <2>2, <2>3, <2>4 DEF RegisterTypes
<1>6. KeepsRow \/ Closes \/ Opens
  <2>1. CASE ctl.tmr # 0
    BY <1>1, <1>2, <1>3, <2>1, ControllerWaits DEF InitStates, ReadStates, WriteStates
  <2>2. CASE ctl.tmr = 0 /\ ctl.state \in InitStates \cup {"REFRESH"}
    BY <1>1, <1>2, <1>3, <2>2, ControllerRefreshes DEF InitStates, ReadStates, WriteStates
  <2>3. CASE ctl.tmr = 0 /\ ctl.state \in {"IDLE", "ACTIVE", "PRECHARGE"}
    BY <1>1, <1>2, <1>3, <2>3, ControllerDecides DEF InitStates, ReadStates, WriteStates
  <2>4. CASE ctl.tmr = 0 /\ ctl.state \in ReadStates \cup WriteStates
    BY <1>1, <1>2, <1>3, <2>4, ControllerTransfers DEF InitStates, ReadStates, WriteStates
  <2> QED
    BY <1>4, <2>1, <2>2, <2>3, <2>4 DEF RegisterTypes
<1>7. ctl'.initRefs \in 0 .. 8 /\ ctl'.idx \in 0 .. 3
  <2>1. CASE ctl.tmr # 0
    BY <1>1, <1>2, <1>3, <2>1, ControllerWaits
       DEF RegisterTypes, KeepsRequest, InitStates, ReadStates, WriteStates, Places
  <2>2. CASE ctl.tmr = 0 /\ ctl.state \in InitStates \cup {"REFRESH"}
    BY <1>1, <1>2, <1>3, <2>2, ControllerRefreshes
       DEF RegisterTypes, KeepsRequest, InitStates, ReadStates, WriteStates, Places
  <2>3. CASE ctl.tmr = 0 /\ ctl.state \in {"IDLE", "ACTIVE", "PRECHARGE"}
    BY <1>1, <1>2, <1>3, <2>3, ControllerDecides
       DEF RegisterTypes, KeepsRequest, InitStates, ReadStates, WriteStates, Places
  <2>4. CASE ctl.tmr = 0 /\ ctl.state \in ReadStates \cup WriteStates
    <3>1. UNCHANGED ctl.initRefs
      BY <2>4, ControllerTransfers DEF KeepsRequest, ReadStates, WriteStates
    <3>2. ctl'.idx = ctl.idx \/ ctl'.idx = 0 \/ ctl'.idx = IF ctl.idx = 3 THEN 3 ELSE ctl.idx + 1
      BY <2>4, ControllerTransfers DEF KeepsRequest, ReadStates, WriteStates
    <3> QED
      BY <3>1, <3>2 DEF RegisterTypes
  <2> QED
    BY <1>4, <2>1, <2>2, <2>3, <2>4 DEF RegisterTypes
<1>8. ctl'.state \in States
  <2>1. CASE ctl.tmr # 0
    BY <1>1, <1>2, <1>3, <2>1, ControllerWaits
       DEF RegisterTypes, Moves, States, AccessState, InitStates, ReadStates, WriteStates
  <2>2. CASE ctl.tmr = 0 /\ ctl.state \in InitStates \cup {"REFRESH"}
    BY <1>1, <1>2, <1>3, <2>2, ControllerRefreshes
       DEF RegisterTypes, Moves, States, AccessState, InitStates, ReadStates, WriteStates
  <2>3. CASE ctl.tmr = 0 /\ ctl.state \in {"IDLE", "ACTIVE", "PRECHARGE"}
    BY <1>1, <1>2, <1>3, <2>3, ControllerDecides
       DEF RegisterTypes, Moves, States, AccessState, InitStates, ReadStates, WriteStates
  <2>4. CASE ctl.tmr = 0 /\ ctl.state \in ReadStates \cup WriteStates
    BY <1>1, <1>2, <1>3, <2>4, ControllerTransfers
       DEF RegisterTypes, Moves, States, AccessState, InitStates, ReadStates, WriteStates
  <2> QED
    BY <1>4, <2>1, <2>2, <2>3, <2>4 DEF RegisterTypes
<1>9. ctl'.tmr \in Nat
  <2>1. CASE ctl.tmr # 0
    BY <1>1, <1>2, <1>3, <2>1, ControllerWaits
       DEF RegisterTypes, Moves, InitStates, ReadStates, WriteStates
  <2>2. CASE ctl.tmr = 0 /\ ctl.state \in InitStates \cup {"REFRESH"}
    BY <1>1, <1>2, <1>3, <2>2, ControllerRefreshes
       DEF RegisterTypes, Moves, InitStates, ReadStates, WriteStates
  <2>3. CASE ctl.tmr = 0 /\ ctl.state \in {"IDLE", "ACTIVE", "PRECHARGE"}
    BY <1>1, <1>2, <1>3, <2>3, ControllerDecides
       DEF RegisterTypes, Moves, InitStates, ReadStates, WriteStates
  <2>4. CASE ctl.tmr = 0 /\ ctl.state \in ReadStates \cup WriteStates
    <3>1. ctl'.tmr = 0 \/ ctl'.tmr = 1
      BY <2>4, ControllerTransfers DEF Moves, ReadStates, WriteStates
    <3> QED
      BY <3>1
  <2> QED
    BY <1>4, <2>1, <2>2, <2>3, <2>4 DEF RegisterTypes
<1>10. ctl'.ack \in BOOLEAN
  <2>1. CASE ctl.tmr # 0
    BY <1>1, <1>2, <1>3, <2>1, ControllerWaits
       DEF RegisterTypes, AnswersNothing, InitStates, ReadStates, WriteStates
  <2>2. CASE ctl.tmr = 0 /\ ctl.state \in InitStates \cup {"REFRESH"}
    BY <1>1, <1>2, <1>3, <2>2, ControllerRefreshes
       DEF RegisterTypes, AnswersNothing, InitStates, ReadStates, WriteStates
  <2>3. CASE ctl.tmr = 0 /\ ctl.state \in {"IDLE", "ACTIVE", "PRECHARGE"}
    BY <1>1, <1>2, <1>3, <2>3, ControllerDecides
       DEF RegisterTypes, AnswersNothing, InitStates, ReadStates, WriteStates
  <2>4. CASE ctl.tmr = 0 /\ ctl.state \in ReadStates \cup WriteStates
    BY <1>1, <1>2, <1>3, <2>4, ControllerTransfers
       DEF RegisterTypes, AnswersNothing, InitStates, ReadStates, WriteStates
  <2> QED
    BY <1>4, <2>1, <2>2, <2>3, <2>4 DEF RegisterTypes
<1>11. IsRequest(ctl'.req)
  <2>1. CASE ctl.tmr # 0
    BY <1>1, <1>2, <1>3, <2>1, ControllerWaits
       DEF RegisterTypes, KeepsRequest, Asked, InitStates, ReadStates, WriteStates
  <2>2. CASE ctl.tmr = 0 /\ ctl.state \in InitStates \cup {"REFRESH"}
    BY <1>1, <1>2, <1>3, <2>2, ControllerRefreshes
       DEF RegisterTypes, KeepsRequest, Asked, InitStates, ReadStates, WriteStates
  <2>3. CASE ctl.tmr = 0 /\ ctl.state \in {"IDLE", "ACTIVE", "PRECHARGE"}
    BY <1>1, <1>2, <1>3, <2>3, ControllerDecides
       DEF RegisterTypes, KeepsRequest, Asked, InitStates, ReadStates, WriteStates
  <2>4. CASE ctl.tmr = 0 /\ ctl.state \in ReadStates \cup WriteStates
    BY <1>1, <1>2, <1>3, <2>4, ControllerTransfers
       DEF RegisterTypes, KeepsRequest, Asked, InitStates, ReadStates, WriteStates
  <2> QED
    BY <1>4, <2>1, <2>2, <2>3, <2>4 DEF RegisterTypes
<1>12. ctl'.open \in BOOLEAN /\ ctl'.openBank \in BankIds /\ ctl'.openRow \in RowIds
  BY <1>1, <1>6 DEF RegisterTypes, KeepsRow, Closes, Opens, IsRequest
<1>13. ctl'.refi \in 0 .. TRefi
  BY <1>1, <1>5 DEF RegisterTypes, Ticks
<1>14. ctl'.due \in BOOLEAN
  BY <1>5 DEF RegisterTypes, Ticks
<1> QED
  BY <1>5, <1>7, <1>8, <1>9, <1>10, <1>11, <1>12, <1>13, <1>14 DEF RegisterTypes, Ticks


(* The states fall into three kinds, each with its lemma below.             *)
LEMMA WhichStep ==
  ASSUME RegisterTypes, ctl.tmr = 0
  PROVE  \/ ctl.state \in InitStates \cup {"REFRESH"}
         \/ ctl.state \in {"IDLE", "ACTIVE", "PRECHARGE"}
         \/ ctl.state \in ReadStates \cup WriteStates
BY DEF RegisterTypes, States

(* A timer starts no longer than its state allows.                          *)
LEMMA TimerIsShortAfter ==
  ASSUME ControllerTypes, MasterTypes, Cycle
  PROVE  TimerIsShort'
<1> USE DEF ControllerTypes
<1>1. /\ T_RP \in 1 .. 3 /\ T_RCD \in 1 .. 3 /\ T_RFC \in 1 .. 9 /\ PowerUp \in Nat
      /\ ctl.tmr \in Nat /\ ctl.tmr <= TimerMax(ctl.state)
  BY Intervals, PartAssumption DEF MasterTypes, RegisterTypes, TimerIsShort
<1>2. ctl.tmr = 0 => \/ ctl.state \in InitStates \cup {"REFRESH"}
                    \/ ctl.state \in {"IDLE", "ACTIVE", "PRECHARGE"}
                    \/ ctl.state \in ReadStates \cup WriteStates
  BY WhichStep
<1>3. \A s : TimerMax(s) >= 0 /\ TimerMax(s)' = TimerMax(s)
  BY <1>1 DEF TimerMax, T_RP, T_RCD, T_RFC, Cycles, Cycle
<1>4. ctl'.tmr <= TimerMax(ctl'.state)
  <2>1. CASE ctl.tmr # 0
    BY <1>1, <2>1, ControllerWaits
       DEF Moves, TimerMax, AccessState, InitStates, ReadStates, WriteStates
  <2>2. CASE ctl.tmr = 0 /\ ctl.state \in InitStates \cup {"REFRESH"}
    BY <1>1, <2>2, ControllerRefreshes
       DEF Moves, TimerMax, AccessState, InitStates, ReadStates, WriteStates
  <2>3. CASE ctl.tmr = 0 /\ ctl.state \in {"IDLE", "ACTIVE", "PRECHARGE"}
    BY <1>1, <2>3, ControllerDecides
       DEF Moves, TimerMax, AccessState, InitStates, ReadStates, WriteStates
  <2>4. CASE ctl.tmr = 0 /\ ctl.state \in ReadStates \cup WriteStates
    <3>1. ctl.state = "READ" => ctl'.state \in {"READ_LO", "BR_LO"} /\ ctl'.tmr = 1
      BY <2>4, ControllerTransfers DEF Moves, ReadStates
    <3>2. ctl.state = "WRITE_HI" => ctl'.state = "IDLE" /\ ctl'.tmr = 1
      BY <2>4, ControllerTransfers DEF Moves, WriteStates
    <3>3. ctl.state \notin {"READ", "WRITE_HI"} => ctl'.tmr = 0
      BY <2>4, ControllerTransfers DEF Moves, ReadStates, WriteStates
    <3> QED
      BY <1>1, <1>3, <3>1, <3>2, <3>3 DEF TimerMax
  <2> QED
    BY <1>2, <2>1, <2>2, <2>3, <2>4
<1> QED
  BY <1>3, <1>4 DEF TimerIsShort

(* Where the controller goes: a row is open for each transfer, none while   *)
(* powering up, refreshing or opening another.                              *)
LEMMA PlacesAfter ==
  ASSUME ControllerTypes, MasterTypes, Cycle
  PROVE  Places'
<1> USE DEF ControllerTypes, RegisterTypes
<1>1. ctl.tmr = 0 => \/ ctl.state \in InitStates \cup {"REFRESH"}
                    \/ ctl.state \in {"IDLE", "ACTIVE", "PRECHARGE"}
                    \/ ctl.state \in ReadStates \cup WriteStates
  BY WhichStep
<1>2. ASSUME ctl.tmr # 0 PROVE Places'
  <2>1. ctl'.state = ctl.state /\ KeepsRow /\ KeepsRequest
    BY <1>2, ControllerWaits DEF Moves
  <2> QED
    BY <2>1 DEF Places, RowOpenFor, KeepsRow, KeepsRequest
<1>3. ASSUME ctl.tmr = 0, ctl.state \in InitStates \cup {"REFRESH"} PROVE Places'
  <2>1. ctl'.state \in InitStates \cup {"IDLE"}
    BY <1>3, ControllerRefreshes DEF Moves, InitStates
  <2>2. ~ctl.open /\ (ctl'.open = ctl.open \/ ctl'.open = FALSE)
    BY <1>3, ControllerRefreshes DEF Places, Closes, KeepsRow, InitStates
  <2>3. ctl'.state \in {"INIT_WAIT", "INIT_PRE"} => ctl'.initRefs = 8
    BY <1>3, ControllerRefreshes DEF Places, Moves, KeepsRequest, InitStates
  <2> QED
    BY <2>1, <2>2, <2>3 DEF Places, InitStates, ReadStates, WriteStates
<1>4. ASSUME ctl.tmr = 0, ctl.state \in {"IDLE", "ACTIVE", "PRECHARGE"} PROVE Places'
  <2>1. \/ ctl'.state \in {"IDLE", "ACTIVE"}
        \/ ctl'.state \in {"REFRESH", "PRECHARGE"} /\ ~ctl'.open
        \/ ctl'.state = AccessState /\ ctl'.open /\ ctl'.openBank = ctl.req.bank
             /\ ctl'.openRow = ctl.req.row /\ ctl'.req = ctl.req
    BY <1>4, ControllerDecides
       DEF Moves, Places, Closes, Opens, KeepsRow, KeepsRequest, RowHit
  <2> QED
    BY <2>1 DEF AccessState, Places, RowOpenFor, InitStates, ReadStates, WriteStates, IsRequest
<1>5. ASSUME ctl.tmr = 0, ctl.state \in ReadStates \cup WriteStates PROVE Places'
  <2>1. ctl.state \in ReadStates => ctl'.state \in {"READ_LO", "READ_HI", "BR_LO", "BR_HI", "IDLE"}
    BY <1>5, ControllerTransfers DEF Moves, ReadStates
  <2>2. ctl.state \in WriteStates => ctl'.state \in {"WRITE_HI", "IDLE"}
    BY <1>5, ControllerTransfers DEF Moves, WriteStates
  <2>3. ctl'.state \in {"BR_LO", "BR_HI"} => ctl.req.burst
    BY <1>5, ControllerTransfers DEF Moves, Places, ReadStates, WriteStates
  <2>4. KeepsRow /\ ctl'.req = ctl.req
    BY <1>5, ControllerTransfers DEF KeepsRequest, ReadStates, WriteStates
  <2> QED
    BY <1>5, <2>1, <2>2, <2>3, <2>4
       DEF Places, RowOpenFor, KeepsRow, InitStates, ReadStates, WriteStates
<1> QED
  BY <1>1, <1>2, <1>3, <1>4, <1>5

(* The controller's registers keep their types.                             *)
LEMMA ControllerTypesAfter ==
  ASSUME ControllerTypes, MasterTypes, Cycle
  PROVE  Ticks /\ ControllerTypes'
BY RegisterTypesAfter, TimerIsShortAfter, PlacesAfter DEF ControllerTypes

-----------------------------------------------------------------------------
(* What an edge does to the part. *)

(* A shift takes one slot away.                                             *)
LEMMA TailIsShorter ==
  ASSUME NEW s, NEW n \in Nat \ {0}, HasLength(s, n)
  PROVE  s # <<>> /\ HasLength(Tail(s), n - 1)
<1>1. PICK S : s \in Seq(S) /\ Len(s) = n
  BY DEF HasLength
<1>2. s # <<>> /\ Tail(s) \in Seq(S) /\ Len(Tail(s)) = n - 1
  BY <1>1
<1> QED
  BY <1>2 DEF HasLength

(* No slots is an empty pipeline.                                           *)
LEMMA NothingIsEmpty ==
  ASSUME NEW s
  PROVE  HasLength(s, 0) <=> s = <<>>
<1>1. <<>> \in Seq({}) /\ Len(<<>>) = 0
  OBVIOUS
<1>2. ASSUME NEW S, s \in Seq(S), Len(s) = 0 PROVE s = <<>>
  BY <1>2
<1> QED
  BY <1>1, <1>2 DEF HasLength

(* A read's two words, one edge out, make three slots.                      *)
LEMMA AheadIsThree ==
  ASSUME NEW s, NEW n \in 0 .. 3, HasLength(s, n), NEW d, HasLength(d, 2)
  PROVE  HasLength(Ahead(s, 1, d), 3)
<1>1. Len(s) = n /\ Len(d) = 2
  BY DEF HasLength
<1> DEFINE e(i) == IF i > 1 /\ i <= 3 THEN d[i - 1] ELSE IF i <= n THEN s[i] ELSE <<>>
           S == {e(i) : i \in 1 .. 3}
<1>2. Ahead(s, 1, d) = [i \in 1 .. 3 |-> e(i)]
  BY <1>1 DEF Ahead
<1>3. [i \in 1 .. 3 |-> e(i)] \in [1 .. 3 -> S]
  OBVIOUS
<1> HIDE DEF e, S
<1>4. [i \in 1 .. 3 |-> e(i)] \in Seq(S) /\ Len([i \in 1 .. 3 |-> e(i)]) = 3
  BY <1>3
<1> QED
  BY <1>2, <1>4 DEF HasLength

(* The part a cycle older, and the rest of a write taken from the bus.      *)
Aging == Burst(Aged(part, mhz), ctl'.pins)

(* Each field of the part, a cycle older.                                   *)
LEMMA AgingIs ==
  ASSUME PartTypes, RowsAgree, ModeAgrees, NothingRefused,
         ctl.state = "WRITE_HI" => ctl'.pins.oe = TRUE
  PROVE  /\ IsPart(Aging) /\ Aging.open = part.open
         /\ Aging.sinceAct = [b \in BankIds |-> Older(part.sinceAct[b], T(mhz).rc)]
         /\ Aging.sincePre = [b \in BankIds |-> Older(part.sincePre[b], T(mhz).rp)]
         /\ Aging.sinceWrite = [b \in BankIds |->
              IF ctl.state = "WRITE_HI" /\ b = part.wrBank THEN 0
              ELSE Older(part.sinceWrite[b], T(mhz).wr)]
         /\ Aging.sinceMrs = Older(part.sinceMrs, T(mhz).mrd)
         /\ Aging.sinceRef = Older(part.sinceRef, 2 * TRefi + 1)
         /\ Aging.up = Older(part.up, PowerUp)
         /\ Aging.cl = part.cl /\ Aging.bl = part.bl
         /\ Aging.pipe = (IF part.pipe = <<>> THEN <<>> ELSE Tail(part.pipe))
         /\ Aging.wrLeft = 0 /\ Aging.wrBank = part.wrBank
         /\ Aging.wrCol \in Nat /\ Aging.faults = {}
<1> DEFINE p == Aged(part, mhz)
<1>1. DOMAIN part.sinceAct = BankIds /\ DOMAIN part.sincePre = BankIds
      /\ DOMAIN part.sinceWrite = BankIds /\ part.wrBank \in BankIds
  BY DEF PartTypes
<1>2. p = [open |-> part.open,
           sinceAct |-> [b \in BankIds |-> Older(part.sinceAct[b], T(mhz).rc)],
           sincePre |-> [b \in BankIds |-> Older(part.sincePre[b], T(mhz).rp)],
           sinceWrite |-> [b \in BankIds |-> Older(part.sinceWrite[b], T(mhz).wr)],
           sinceMrs |-> Older(part.sinceMrs, T(mhz).mrd),
           sinceRef |-> Older(part.sinceRef, 2 * TRefi + 1),
           up |-> Older(part.up, PowerUp), cl |-> part.cl, bl |-> part.bl,
           pipe |-> (IF part.pipe = <<>> THEN part.pipe ELSE Tail(part.pipe)),
           wrLeft |-> part.wrLeft, wrBank |-> part.wrBank, wrCol |-> part.wrCol,
           faults |-> part.faults]
  <2>1. p = [part EXCEPT
               !.sinceAct = [b \in BankIds |-> Older(part.sinceAct[b], T(mhz).rc)],
               !.sincePre = [b \in BankIds |-> Older(part.sincePre[b], T(mhz).rp)],
               !.sinceWrite = [b \in BankIds |-> Older(part.sinceWrite[b], T(mhz).wr)],
               !.sinceMrs = Older(part.sinceMrs, T(mhz).mrd),
               !.sinceRef = Older(part.sinceRef, 2 * TRefi + 1),
               !.up = Older(part.up, PowerUp),
               !.pipe = IF part.pipe = <<>> THEN part.pipe ELSE Tail(part.pipe)]
    BY <1>1 DEF Aged
  <2>2. IsPart(part)
    BY DEF PartTypes
  <2> HIDE DEF p
  <2> QED
    BY <2>1, <2>2 DEF IsPart
<1> HIDE DEF p
<1>3. CASE ctl.state # "WRITE_HI"
  <2>1. Aging = p
    BY <1>2, <1>3 DEF Aging, Burst, ModeAgrees, p
  <2> QED
    BY <1>2, <1>3, <2>1 DEF IsPart, PartTypes, ModeAgrees, NothingRefused
<1>4. CASE ctl.state = "WRITE_HI"
  <2>1. p.wrLeft = 1 /\ p.faults = {} /\ ctl'.pins.oe = TRUE
    BY <1>2, <1>4 DEF ModeAgrees, NothingRefused
  <2>2. Aging = [p EXCEPT !.wrLeft = 0, !.wrCol = (p.wrCol + 1) % Cols,
                          !.sinceWrite[p.wrBank] = 0, !.faults = {}]
    <3>1. /\ p.wrLeft # 0 /\ p.wrLeft - 1 = 0 /\ ~(p.wrLeft > 1)
          /\ p.faults \union {} \union {} = {}
      BY <2>1
    <3> QED
      BY <2>1, <3>1 DEF Aging, Burst, p
  <2>3. (part.wrCol + 1) % Cols \in Nat
    BY PartAssumption DEF PartTypes
  <2> QED
    BY <1>1, <1>2, <1>4, <2>2, <2>3 DEF IsPart
<1> QED
  BY <1>3, <1>4

(* What the part is after a command it does not refuse.                     *)
LEMMA EdgeIs ==
  ASSUME PartTypes, RowsAgree, ModeAgrees, NothingRefused, Cycle,
         ctl.state = "WRITE_HI" => ctl'.pins.oe = TRUE,
         ctl'.pins.cmd # "NOP" => Refused(Aging, ctl'.pins, T(mhz)) = {},
         ~Late(Aged(part, mhz))
  PROVE  part' = IF ctl'.pins.cmd = "NOP" THEN Aging ELSE Commanded(Aging, ctl'.pins, store)
<1>1. part' = EdgePart(Aged(part, mhz), ctl'.pins, store, mhz)
  BY DEF Cycle
<1>2. IsPart(Aging) /\ Aging.faults = {}
  BY AgingIs
<1>3. [Aging EXCEPT !.faults = Aging.faults \union {}] = Aging
  BY <1>2 DEF IsPart
<1> QED
  BY <1>1, <1>3 DEF EdgePart, Aging

-----------------------------------------------------------------------------
(* The commands an edge may put on the pins, and where each leads. *)

Rests ==
  /\ ctl'.pins.cmd = "NOP" /\ KeepsRow
  /\ ctl'.pins.oe = (ctl.state = "WRITE_HI")
  /\ ctl.state \notin {"READ", "WRITE_LO"} \/ ctl.tmr # 0
Precharges ==
  /\ ctl'.pins = PreAll /\ Closes /\ ctl.tmr = 0 /\ ctl'.tmr = T_RP - 1
  /\ ctl.state \in {"INIT_WAIT", "IDLE", "ACTIVE"}
  /\ ctl'.state = IF ctl.state = "INIT_WAIT" THEN "INIT_PRE"
                  ELSE IF ctl.state = "IDLE" THEN "REFRESH" ELSE "PRECHARGE"
Activates ==
  /\ ctl'.pins = Act(ctl.req) /\ Opens /\ ~ctl.open /\ ctl.tmr = 0 /\ ctl'.tmr = T_RCD - 1
  /\ ctl.state \in {"ACTIVE", "PRECHARGE"} /\ ctl'.state = AccessState
Refreshes ==
  /\ ctl'.pins = Refreshing /\ KeepsRow /\ ~ctl.open /\ ctl.tmr = 0 /\ ctl'.tmr = T_RFC - 1
  /\ ctl.state \in {"INIT_PRE", "INIT_REF", "REFRESH"}
  /\ ctl'.state = IF ctl.state = "REFRESH" THEN "IDLE" ELSE "INIT_REF"
SetsMode ==
  /\ ctl'.pins = SettingMode /\ KeepsRow /\ ~ctl.open /\ ctl.tmr = 0 /\ ctl'.tmr = 1
  /\ ctl.state = "INIT_REF" /\ ctl'.state = "INIT_MRS"
ReadsWord ==
  /\ KeepsRow /\ ctl.open /\ ctl.tmr = 0
  /\ \E k \in 0 .. 3 : ctl'.pins = Read(k) /\ ctl.req.col + 2 * k + 2 <= Cols
  /\ \/ ctl.state = "READ" /\ ctl'.state \in {"READ_LO", "BR_LO"} /\ ctl'.tmr = 1
     \/ ctl.state = "BR_LO" /\ ctl'.state = "BR_HI" /\ ctl'.tmr = 0 /\ ctl.idx # 3
  /\ ctl.openBank = ctl.req.bank
WritesWord ==
  /\ ctl'.pins = WritingLow /\ KeepsRow /\ ctl.open /\ ctl.tmr = 0 /\ ctl'.tmr = 0
  /\ ctl.state = "WRITE_LO" /\ ctl'.state = "WRITE_HI"
  /\ ctl.openBank = ctl.req.bank

(* A cycle puts one of the seven commands on the pins.                      *)
LEMMA Commands ==
  ASSUME ControllerTypes, MasterTypes, Cycle
  PROVE  Rests \/ Precharges \/ Activates \/ Refreshes \/ SetsMode \/ ReadsWord \/ WritesWord
<1> USE DEF ControllerTypes
<1>1. ctl.tmr = 0 => \/ ctl.state \in InitStates \cup {"REFRESH"}
                    \/ ctl.state \in {"IDLE", "ACTIVE", "PRECHARGE"}
                    \/ ctl.state \in ReadStates \cup WriteStates
  BY WhichStep
<1>2. Quiet.cmd = "NOP" /\ Quiet.oe = FALSE /\ Data(2).cmd = "NOP" /\ Data(2).oe = TRUE
  BY DEF Quiet, Data
<1>3. CASE ctl.tmr # 0
  <2>1. ctl'.pins = Quiet /\ KeepsRow
    BY <1>3, ControllerWaits DEF Moves
  <2>2. ctl.state # "WRITE_HI"
    BY <1>3 DEF TimerIsShort, TimerMax, RegisterTypes
  <2> QED
    BY <1>2, <1>3, <2>1, <2>2 DEF Rests
<1>4. CASE ctl.tmr = 0 /\ ctl.state = "INIT_WAIT"
  BY <1>4, ControllerRefreshes DEF Precharges, Moves
<1>5. CASE ctl.tmr = 0 /\ ctl.state \in {"INIT_PRE", "INIT_REF"}
  <2>1. ~ctl.open
    BY <1>5 DEF Places, InitStates
  <2>2. ctl.state = "INIT_REF" /\ ctl.initRefs = 0 => SetsMode
    BY <1>5, <2>1, ControllerRefreshes DEF SetsMode, Moves
  <2>3. ~(ctl.state = "INIT_REF" /\ ctl.initRefs = 0) => Refreshes
    BY <1>5, <2>1, ControllerRefreshes DEF Refreshes, Moves
  <2> QED
    BY <2>2, <2>3
<1>6. CASE ctl.tmr = 0 /\ ctl.state = "INIT_MRS"
  BY <1>2, <1>6, ControllerRefreshes DEF Rests, Moves
<1>7. CASE ctl.tmr = 0 /\ ctl.state = "REFRESH"
  <2>1. ~ctl.open
    BY <1>7 DEF Places
  <2> QED
    BY <1>7, <2>1, ControllerRefreshes DEF Refreshes, Moves
<1>8. CASE ctl.tmr = 0 /\ ctl.state = "IDLE"
  <2>1. ctl.due /\ ctl.open => Precharges
    BY <1>8, ControllerDecides DEF Precharges, Moves
  <2>2. ~(ctl.due /\ ctl.open) => ctl'.pins = Quiet /\ KeepsRow
    BY <1>8, ControllerDecides DEF Moves
  <2> QED
    BY <1>2, <1>8, <2>1, <2>2 DEF Rests
<1>9. CASE ctl.tmr = 0 /\ ctl.state \in {"ACTIVE", "PRECHARGE"}
  <2>1. CASE ctl.state = "ACTIVE" /\ RowHit
    BY <1>2, <1>9, <2>1, ControllerDecides DEF Rests, Moves
  <2>2. CASE ctl.state = "ACTIVE" /\ ~RowHit /\ ctl.open
    BY <1>9, <2>2, ControllerDecides DEF Precharges, Moves
  <2>3. CASE ctl.state = "PRECHARGE" \/ (ctl.state = "ACTIVE" /\ ~ctl.open)
    <3>1. ~ctl.open
      BY <2>3 DEF Places
    <3> QED
      BY <1>9, <2>3, <3>1, ControllerDecides DEF Activates, Moves
  <2> QED
    BY <1>9, <2>1, <2>2, <2>3 DEF RowHit
<1>10. CASE ctl.tmr = 0 /\ ctl.state \in ReadStates
  <2>1. ctl.open /\ ctl.openBank = ctl.req.bank /\ IsRequest(ctl.req)
    BY <1>10 DEF Places, RowOpenFor, RegisterTypes
  <2>2. CASE ctl.state = "READ"
    <3>1. ctl'.pins = Read(0) /\ KeepsRow /\ ctl'.tmr = 1 /\ ctl'.state \in {"READ_LO", "BR_LO"}
      BY <1>10, <2>2, ControllerTransfers DEF Moves
    <3> QED
      BY <1>10, <2>1, <2>2, <3>1 DEF ReadsWord, IsRequest
  <2>3. CASE ctl.state = "BR_LO" /\ ctl.idx # 3
    <3>1. ctl'.pins = Read(ctl.idx + 1) /\ KeepsRow /\ ctl'.tmr = 0 /\ ctl'.state = "BR_HI"
      BY <1>10, <2>3, ControllerTransfers DEF Moves
    <3>2. ctl.idx + 1 \in 0 .. 3
      BY <2>3 DEF RegisterTypes
    <3>3. ctl.req.col + 2 * (ctl.idx + 1) + 2 <= Cols
      <4>1. ctl.req.col \in Nat /\ ctl.req.col + 8 <= Cols
        BY <2>1, <2>3 DEF Places, IsRequest
      <4> QED
        BY <3>2, <4>1, PartAssumption
    <3>4. \E k \in 0 .. 3 : ctl'.pins = Read(k) /\ ctl.req.col + 2 * k + 2 <= Cols
      BY <3>1, <3>2, <3>3
    <3> QED
      BY <1>10, <2>1, <2>3, <3>1, <3>4 DEF ReadsWord
  <2>4. CASE ctl.state \in {"READ_LO", "READ_HI", "BR_HI"} \/ (ctl.state = "BR_LO" /\ ctl.idx = 3)
    <3>1. ctl'.pins = Quiet /\ KeepsRow
      BY <1>10, <2>4, ControllerTransfers DEF Moves
    <3> QED
      BY <1>2, <2>4, <3>1 DEF Rests
  <2> QED
    BY <1>10, <2>2, <2>3, <2>4 DEF ReadStates
<1>11. CASE ctl.tmr = 0 /\ ctl.state \in WriteStates
  <2>1. ctl.open /\ ctl.openBank = ctl.req.bank
    BY <1>11 DEF Places, RowOpenFor
  <2>2. ctl.state = "WRITE_LO" => WritesWord
    BY <1>11, <2>1, ControllerTransfers DEF WritesWord, Moves
  <2>3. ctl.state = "WRITE_HI" => Rests
    BY <1>2, <1>11, ControllerTransfers DEF Rests, Moves
  <2> QED
    BY <1>11, <2>2, <2>3 DEF WriteStates
<1> QED
  BY <1>1, <1>3, <1>4, <1>5, <1>6, <1>7, <1>8, <1>9, <1>10, <1>11 DEF InitStates, RegisterTypes

(* A step brings the next command at most one cycle nearer.                 *)
LEMMA Slack ==
  ASSUME ControllerTypes, MasterTypes, Cycle
  PROVE  /\ ctl'.tmr + 1 >= ctl.tmr
         /\ ctl'.tmr + ToClose(ctl'.state) + 1 >= ctl.tmr + ToClose(ctl.state)
<1> USE DEF ControllerTypes
<1>1. ctl.tmr \in Nat /\ ctl'.tmr \in Nat /\ T_RP \in 1 .. 3 /\ T_RCD \in 1 .. 3 /\ T_RFC \in 1 .. 9
  BY RegisterTypesAfter, Intervals DEF RegisterTypes, MasterTypes
<1>2. ctl.tmr = 0 => \/ ctl.state \in InitStates \cup {"REFRESH"}
                    \/ ctl.state \in {"IDLE", "ACTIVE", "PRECHARGE"}
                    \/ ctl.state \in ReadStates \cup WriteStates
  BY WhichStep
<1>3. \A s : ToClose(s) \in 1 .. 5
  BY DEF ToClose
<1>4. CASE ctl.tmr # 0
  <2>1. ctl'.state = ctl.state /\ ctl'.tmr = ctl.tmr - 1
    BY <1>4, ControllerWaits DEF Moves
  <2> QED
    BY <1>1, <1>3, <1>4, <2>1
<1>5. CASE ctl.tmr = 0 /\ ctl.state \notin ReadStates \cup WriteStates
  <2>1. ToClose(ctl.state) = 1
    BY <1>5 DEF ToClose, ReadStates, WriteStates
  <2> QED
    BY <1>1, <1>3, <1>5, <2>1
<1>6. CASE ctl.tmr = 0 /\ ctl.state \in {"READ", "BR_LO", "BR_HI"}
  <2>1. /\ ctl.state = "READ" => ctl'.state \in {"READ_LO", "BR_LO"} /\ ctl'.tmr = 1
        /\ ctl.state = "BR_LO" => ctl'.state = "BR_HI"
        /\ ctl.state = "BR_HI" => ctl'.state \in {"BR_LO", "IDLE"}
    BY <1>6, ControllerTransfers DEF Moves
  <2> QED
    BY <1>1, <1>6, <2>1 DEF ToClose
<1>7. CASE ctl.tmr = 0 /\ ctl.state \in {"READ_LO", "READ_HI"} \cup WriteStates
  <2>1. /\ ctl.state = "READ_LO" => ctl'.state = "READ_HI"
        /\ ctl.state = "READ_HI" => ctl'.state = "IDLE"
        /\ ctl.state = "WRITE_LO" => ctl'.state = "WRITE_HI"
        /\ ctl.state = "WRITE_HI" => ctl'.state = "IDLE" /\ ctl'.tmr = 1
    BY <1>7, ControllerTransfers DEF Moves
  <2> QED
    BY <1>1, <1>7, <2>1 DEF ToClose, WriteStates
<1> QED
  BY <1>4, <1>5, <1>6, <1>7 DEF ReadStates, WriteStates

-----------------------------------------------------------------------------
(* No command is refused. *)

(* What suffices for each command to be taken.                              *)
LEMMA WhenNotRefused ==
  ASSUME NEW q, NEW c, NEW t, ~(q.up < PowerUp)
  PROVE  /\ c.cmd = "PRE" /\ c.a10 = TRUE
            /\ (\A x \in DOMAIN q.open : q.open[x] # -1 =>
                  ~(q.sinceAct[x] < t.ras) /\ ~(q.sinceWrite[x] < t.wr))
            => Refused(q, c, t) = {}
         /\ c.cmd = "ACT" /\ q.cl # 0 /\ ~(q.sinceMrs < t.mrd) /\ ~(q.sinceRef < t.rfc)
            /\ q.open[c.ba] = -1 /\ ~(q.sincePre[c.ba] < t.rp) /\ ~(q.sinceAct[c.ba] < t.rc)
            => Refused(q, c, t) = {}
         /\ c.cmd = "REF" /\ (\A x \in DOMAIN q.open : q.open[x] = -1)
            /\ ~(q.sinceRef < t.rfc)
            => Refused(q, c, t) = {}
         /\ c.cmd = "MRS" /\ (\A x \in DOMAIN q.open : q.open[x] = -1) /\ c.mode = Mode
            => Refused(q, c, t) = {}
         /\ c.cmd \in {"READ", "WRITE"} /\ q.open[c.ba] # -1 /\ ~(q.sinceAct[c.ba] < t.rcd)
            /\ c.a10 = FALSE /\ ~(c.a + q.bl > Cols) /\ (c.cmd = "WRITE" => c.oe = TRUE)
            => Refused(q, c, t) = {}
<1>1. ASSUME c.cmd = "PRE", c.a10 = TRUE,
             \A x \in DOMAIN q.open : q.open[x] # -1 =>
               ~(q.sinceAct[x] < t.ras) /\ ~(q.sinceWrite[x] < t.wr)
      PROVE  Refused(q, c, t) = {}
  BY <1>1 DEF Refused
<1>2. ASSUME c.cmd = "ACT", q.cl # 0, ~(q.sinceMrs < t.mrd), ~(q.sinceRef < t.rfc),
             q.open[c.ba] = -1, ~(q.sincePre[c.ba] < t.rp), ~(q.sinceAct[c.ba] < t.rc)
      PROVE  Refused(q, c, t) = {}
  BY <1>2 DEF Refused
<1>3. ASSUME c.cmd = "REF", \A x \in DOMAIN q.open : q.open[x] = -1, ~(q.sinceRef < t.rfc)
      PROVE  Refused(q, c, t) = {}
  BY <1>3 DEF Refused
<1>4. ASSUME c.cmd = "MRS", \A x \in DOMAIN q.open : q.open[x] = -1, c.mode = Mode
      PROVE  Refused(q, c, t) = {}
  <2>1. c.mode.bl = 2 /\ c.mode.cl = 2
    BY <1>4 DEF Mode
  <2> QED
    BY <1>4, <2>1 DEF Refused
<1>5. ASSUME c.cmd \in {"READ", "WRITE"}, q.open[c.ba] # -1, ~(q.sinceAct[c.ba] < t.rcd),
             c.a10 = FALSE, ~(c.a + q.bl > Cols), c.cmd = "WRITE" => c.oe = TRUE
      PROVE  Refused(q, c, t) = {}
  BY <1>5 DEF Refused
<1> QED
  BY <1>1, <1>2, <1>3, <1>4, <1>5

(* What a command has on the pins.                                          *)
LEMMA PinsAre ==
  /\ PreAll.cmd = "PRE" /\ PreAll.a10 = TRUE /\ PreAll.oe = FALSE
  /\ \A r : /\ Act(r).cmd = "ACT" /\ Act(r).a = r.row /\ Act(r).ba = r.bank
            /\ Act(r).oe = FALSE
  /\ Refreshing.cmd = "REF" /\ Refreshing.oe = FALSE
  /\ SettingMode.cmd = "MRS" /\ SettingMode.mode = Mode /\ SettingMode.oe = FALSE
  /\ \A k : /\ Read(k).cmd = "READ" /\ Read(k).a = ctl.req.col + 2 * k
            /\ Read(k).ba = ctl.req.bank /\ Read(k).a10 = FALSE /\ Read(k).oe = FALSE
  /\ WritingLow.cmd = "WRITE" /\ WritingLow.a = ctl.req.col /\ WritingLow.oe = TRUE
  /\ WritingLow.ba = ctl.req.bank /\ WritingLow.a10 = FALSE
BY DEF Quiet, PreAll, Act, Refreshing, SettingMode, Read, WritingLow, Data

(* A refresh is never so late that the part notices.                        *)
LEMMA NeverLate ==
  ASSUME PartInv
  PROVE  ~Late(Aged(part, mhz))
<1> USE DEF PartInv
<1>1. /\ T_RP \in 1 .. 3 /\ T_RCD \in 1 .. 3 /\ T_RFC \in 1 .. 9 /\ TRefi \in Nat /\ TRefi >= 15
      /\ part.sinceRef \in Nat /\ ctl.tmr \in Nat /\ ctl.refi \in Nat /\ ctl.idx \in 0 .. 3
      /\ ctl.due \in BOOLEAN
  BY Intervals, PartAssumption DEF PartTypes, ControllerTypes, RegisterTypes, MasterTypes
<1>2. /\ Aged(part, mhz).cl = part.cl
      /\ Aged(part, mhz).sinceRef = Older(part.sinceRef, 2 * TRefi + 1)
  <2>1. IsPart(part)
    BY DEF PartTypes
  <2> QED
    BY <2>1 DEF IsPart, Aged
<1>3. part.cl # 0 => part.sinceRef + 1 <= 2 * TRefi
  <2>1. CASE ctl.state \in {"INIT_WAIT", "INIT_PRE", "INIT_REF"}
    BY <2>1 DEF ModeAgrees
  <2>2. CASE ctl.state = "INIT_MRS"
    BY <1>1, <2>2 DEF RefreshInTime
  <2>3. CASE ctl.state \notin InitStates /\ ~ctl.due
    BY <1>1, <2>3 DEF RefreshInTime
  <2>4. CASE ctl.state \notin InitStates /\ ctl.due
    <3>1. ToRefresh(ctl.state, ctl.idx) >= 1
      BY <1>1 DEF ToRefresh
    <3>2. ToRefresh(ctl.state, ctl.idx) \in Int
      BY <1>1 DEF ToRefresh
    <3> QED
      BY <1>1, <2>4, <3>1, <3>2 DEF RefreshInTime
  <2> QED
    BY <1>1, <2>1, <2>2, <2>3, <2>4 DEF InitStates
<1>4. Older(part.sinceRef, 2 * TRefi + 1) <= part.sinceRef + 1
  BY <1>1
    DEF Older
<1>5. Older(part.sinceRef, 2 * TRefi + 1) \in Nat
  BY <1>1
    DEF Older
<1> QED
  BY <1>1, <1>2, <1>3, <1>4, <1>5 DEF Late

(* Every command comes when the part allows it.                             *)
LEMMA NothingIsRefused ==
  ASSUME PartInv, Cycle
  PROVE  /\ ctl.state = "WRITE_HI" => ctl'.pins.oe = TRUE
         /\ ctl'.pins.cmd # "NOP" => Refused(Aging, ctl'.pins, T(mhz)) = {}
<1> USE DEF PartInv
<1> DEFINE t == T(mhz)
<1>1. /\ T_RP \in 1 .. 3 /\ T_RCD \in 1 .. 3 /\ T_RFC \in 1 .. 9 /\ PowerUp \in Nat /\ TRefi \in Nat
      /\ t.rp \in Nat /\ t.rcd \in Nat /\ t.rc \in Nat /\ t.ras \in Nat /\ t.rfc \in Nat
      /\ t.mrd \in Nat /\ t.wr \in Nat /\ t.ras <= t.rc /\ t.rcd <= t.rc /\ t.rfc <= 2 * TRefi + 1
      /\ ctl.tmr \in Nat
  BY Intervals, PartAssumption DEF MasterTypes, ControllerTypes, RegisterTypes
<1>2. Rests \/ Precharges \/ Activates \/ Refreshes \/ SetsMode \/ ReadsWord \/ WritesWord
  BY Commands
<1>3. ctl.state = "WRITE_HI" => ctl'.pins.oe = TRUE
  BY <1>2 DEF Rests, Precharges, Activates, Refreshes, SetsMode, ReadsWord, WritesWord
<1>4. /\ Aging.open = part.open /\ Aging.cl = part.cl /\ Aging.bl = part.bl
      /\ Aging.up = Older(part.up, PowerUp)
      /\ Aging.sinceMrs = Older(part.sinceMrs, t.mrd)
      /\ Aging.sinceRef = Older(part.sinceRef, 2 * TRefi + 1)
      /\ \A b \in BankIds : /\ Aging.sinceAct[b] = Older(part.sinceAct[b], t.rc)
                            /\ Aging.sincePre[b] = Older(part.sincePre[b], t.rp)
                            /\ Aging.sinceWrite[b] = IF ctl.state = "WRITE_HI" /\ b = part.wrBank
                                 THEN 0 ELSE Older(part.sinceWrite[b], t.wr)
  <2>1. /\ Aging.sinceAct = [b \in BankIds |-> Older(part.sinceAct[b], T(mhz).rc)]
        /\ Aging.sincePre = [b \in BankIds |-> Older(part.sincePre[b], T(mhz).rp)]
        /\ Aging.sinceWrite = [b \in BankIds |->
             IF ctl.state = "WRITE_HI" /\ b = part.wrBank THEN 0
             ELSE Older(part.sinceWrite[b], T(mhz).wr)]
    BY <1>3, AgingIs
  <2>2. /\ Aging.open = part.open /\ Aging.cl = part.cl /\ Aging.bl = part.bl
        /\ Aging.up = Older(part.up, PowerUp)
        /\ Aging.sinceMrs = Older(part.sinceMrs, t.mrd)
        /\ Aging.sinceRef = Older(part.sinceRef, 2 * TRefi + 1)
    BY <1>3, AgingIs
  <2> QED
    BY <2>1, <2>2
<1>5. /\ part.up \in Nat /\ part.sinceMrs \in Nat /\ part.sinceRef \in Nat
      /\ \A b \in BankIds : /\ part.sinceAct[b] \in Nat /\ part.sincePre[b] \in Nat
                            /\ part.sinceWrite[b] \in Nat
  BY DEF PartTypes
<1> HIDE DEF t
<1>6. \A b \in BankIds : part.open[b] = IF ctl.open /\ b = ctl.openBank THEN ctl.openRow ELSE -1
  BY DEF RowsAgree
<1>7. DOMAIN part.open = BankIds /\ ctl.openRow # -1 /\ ctl.openBank \in BankIds
      /\ ctl.req.bank \in BankIds /\ IsRequest(ctl.req)
  BY PartAssumption DEF RowsAgree, ControllerTypes, RegisterTypes, IsRequest, RowIds
<1>8. ctl.tmr = 0 => /\ ~(Aging.up < PowerUp) /\ ~(Aging.sinceMrs < t.mrd)
                     /\ ~(Aging.sinceRef < t.rfc)
                     /\ \A b \in BankIds : ~(Aging.sincePre[b] < t.rp)
  <2> SUFFICES ASSUME ctl.tmr = 0
               PROVE  /\ ~(Aging.up < PowerUp) /\ ~(Aging.sinceMrs < t.mrd)
                      /\ ~(Aging.sinceRef < t.rfc)
                      /\ \A b \in BankIds : ~(Aging.sincePre[b] < t.rp)
    OBVIOUS
  <2>1. /\ part.up >= PowerUp /\ part.sinceMrs + 1 >= t.mrd /\ part.sinceRef + 1 >= t.rfc
        /\ \A b \in BankIds : part.sincePre[b] + 1 >= t.rp
    BY <1>1, <1>5 DEF Ages, t
  <2>2. Aging.up >= PowerUp /\ Aging.sinceMrs >= t.mrd /\ Aging.sinceRef >= t.rfc
    BY <1>1, <1>4, <1>5, <2>1
    DEF Older
  <2>3. \A b \in BankIds : Aging.sincePre[b] >= t.rp
    BY <1>1, <1>4, <1>5, <2>1
    DEF Older
  <2>4. Aging.up \in Nat /\ Aging.sinceMrs \in Nat /\ Aging.sinceRef \in Nat
        /\ \A b \in BankIds : Aging.sincePre[b] \in Nat
    BY <1>1, <1>4, <1>5
    DEF Older
  <2> QED
    BY <1>1, <2>2, <2>3, <2>4
<1>9. \A b \in BankIds : Aging.sinceAct[b] \in Nat
  BY <1>1, <1>4, <1>5
    DEF Older
<1>10. CASE Precharges
  <2>1. ctl'.pins.cmd = "PRE" /\ ctl'.pins.a10 = TRUE /\ ctl.tmr = 0
    BY <1>10, PinsAre DEF Precharges
  <2>2. ASSUME NEW x \in BankIds, part.open[x] # -1
        PROVE  ~(Aging.sinceAct[x] < t.ras) /\ ~(Aging.sinceWrite[x] < t.wr)
    <3>1. ctl.open /\ x = ctl.openBank
      BY <1>6, <2>2
    <3>2. ctl.state \in {"INIT_WAIT", "IDLE", "ACTIVE"} /\ ToClose(ctl.state) = 1
      BY <1>10 DEF Precharges, ToClose
    <3>3. part.sinceAct[x] + 1 >= t.ras /\ part.sinceWrite[x] + 1 >= t.wr
      BY <1>1, <1>5, <2>1, <3>1, <3>2 DEF Ages, t
    <3>4. Aging.sinceAct[x] >= t.ras
      BY <1>1, <1>4, <1>5, <3>3
       DEF Older
    <3>5. Aging.sinceWrite[x] >= t.wr /\ Aging.sinceWrite[x] \in Nat
      BY <1>1, <1>4, <1>5, <3>2, <3>3
       DEF Older
    <3> QED
      BY <1>1, <1>9, <3>4, <3>5
  <2> QED
    BY <1>3, <1>4, <1>7, <1>8, <2>1, <2>2, WhenNotRefused, ZenonT(60) DEF t
<1>11. CASE Activates
  <2>1. ctl'.pins.cmd = "ACT" /\ ctl'.pins.ba = ctl.req.bank /\ ctl.tmr = 0 /\ ~ctl.open
    BY <1>11, PinsAre DEF Activates
  <2>2. Aging.cl # 0
    BY <1>4, <1>11 DEF ModeAgrees, Activates
  <2>3. part.sinceAct[ctl.req.bank] + 1 >= t.rc
    BY <1>1, <1>5, <1>7, <2>1 DEF Ages, t
  <2>4. Aging.sinceAct[ctl.req.bank] >= t.rc
    BY <1>1, <1>4, <1>5, <1>7, <2>3
    DEF Older
  <2>5. ~(Aging.sinceAct[ctl.req.bank] < t.rc)
    BY <1>1, <1>7, <1>9, <2>4
  <2>6. Aging.open[ctl.req.bank] = -1
    BY <1>4, <1>6, <1>7, <2>1
  <2> QED
    BY <1>3, <1>7, <1>8, <2>1, <2>2, <2>5, <2>6, WhenNotRefused DEF t
<1>12. CASE Refreshes \/ SetsMode
  <2>1. ctl.tmr = 0 /\ \A x \in DOMAIN Aging.open : Aging.open[x] = -1
    BY <1>4, <1>6, <1>7, <1>12 DEF Refreshes, SetsMode
  <2>2. \/ ctl'.pins.cmd = "REF"
        \/ ctl'.pins.cmd = "MRS" /\ ctl'.pins.mode = Mode
    BY <1>12, PinsAre DEF Refreshes, SetsMode
  <2> QED
    BY <1>3, <1>8, <2>1, <2>2, WhenNotRefused DEF t
<1>13. CASE ReadsWord \/ WritesWord
  <2>1. /\ ctl'.pins.cmd \in {"READ", "WRITE"} /\ ctl'.pins.ba = ctl.req.bank
        /\ ctl'.pins.a10 = FALSE /\ (ctl'.pins.cmd = "WRITE" => ctl'.pins.oe = TRUE)
        /\ ctl.tmr = 0 /\ ctl.open /\ ctl.openBank = ctl.req.bank
    BY <1>13, PinsAre DEF ReadsWord, WritesWord
  <2>2. Aging.bl = 2
    <3>1. part.cl # 0
      BY <1>13 DEF ModeAgrees, ReadsWord, WritesWord
    <3> QED
      BY <1>4, <3>1 DEF ModeAgrees
  <2>3. ~(ctl'.pins.a + Aging.bl > Cols)
    <3>1. Cols \in Nat /\ ctl.req.col \in Nat /\ ctl.req.col + 2 <= Cols
      BY <1>7, PartAssumption DEF IsRequest
    <3>2. CASE WritesWord
      BY <2>2, <3>1, <3>2, PinsAre DEF WritesWord
    <3>3. CASE ReadsWord
      <4>1. PICK k \in 0 .. 3 : ctl'.pins = Read(k) /\ ctl.req.col + 2 * k + 2 <= Cols
        BY <3>3 DEF ReadsWord
      <4>2. ctl'.pins.a = ctl.req.col + 2 * k
        BY <4>1, PinsAre
      <4> QED
        BY <2>2, <3>1, <4>1, <4>2
    <3> QED
      BY <1>13, <3>2, <3>3
  <2>4. part.sinceAct[ctl.req.bank] + 1 >= t.rcd
    BY <1>1, <1>5, <1>7, <2>1 DEF Ages, t
  <2>5. Aging.sinceAct[ctl.req.bank] >= t.rcd
    BY <1>1, <1>4, <1>5, <1>7, <2>4
    DEF Older
  <2>6. ~(Aging.sinceAct[ctl.req.bank] < t.rcd)
    BY <1>1, <1>7, <1>9, <2>5
  <2>7. Aging.open[ctl.req.bank] # -1
    BY <1>4, <1>6, <1>7, <2>1
  <2> QED
    BY <1>3, <1>8, <2>1, <2>3, <2>6, <2>7, WhenNotRefused DEF t
<1>14. CASE Rests
  BY <1>3, <1>14 DEF Rests
<1> QED
  BY <1>2, <1>10, <1>11, <1>12, <1>13, <1>14

(* What the part is after an edge.                                          *)
Cmd == ctl'.pins.cmd
RowsGo ==
  part'.open = [b \in BankIds |->
    IF Cmd = "PRE" THEN -1
    ELSE IF Cmd = "ACT" /\ b = ctl.req.bank THEN ctl.req.row ELSE part.open[b]]
ActGoes ==
  part'.sinceAct = [b \in BankIds |->
    IF Cmd = "ACT" /\ b = ctl.req.bank THEN 0 ELSE Older(part.sinceAct[b], T(mhz).rc)]
PreGoes ==
  part'.sincePre = [b \in BankIds |->
    IF Cmd = "PRE" /\ part.open[b] # -1 THEN 0 ELSE Older(part.sincePre[b], T(mhz).rp)]
WriteGoes ==
  part'.sinceWrite = [b \in BankIds |->
    IF \/ Cmd = "WRITE" /\ b = ctl.req.bank
       \/ ctl.state = "WRITE_HI" /\ b = part.wrBank
      THEN 0 ELSE Older(part.sinceWrite[b], T(mhz).wr)]
TimesGo ==
  /\ part'.sinceMrs = (IF Cmd = "MRS" THEN 0 ELSE Older(part.sinceMrs, T(mhz).mrd))
  /\ part'.sinceRef = (IF Cmd = "REF" THEN 0 ELSE Older(part.sinceRef, 2 * TRefi + 1))
  /\ part'.up = Older(part.up, PowerUp)
ModeGoes ==
  /\ part'.cl = (IF Cmd = "MRS" THEN 2 ELSE part.cl)
  /\ part'.bl = (IF Cmd = "MRS" THEN 2 ELSE part.bl)
  /\ part'.wrLeft = (IF Cmd = "WRITE" THEN 1 ELSE 0)
  /\ part'.wrBank \in BankIds /\ part'.wrCol \in Nat
Left == IF part.pipe = <<>> THEN <<>> ELSE Tail(part.pipe)
PipeGoes ==
  /\ Cmd # "READ" => part'.pipe = Left
  /\ Cmd = "READ" => \E d : HasLength(d, 2) /\ part'.pipe = Ahead(Left, 1, d)
PartGrows ==
  /\ IsPart(part)' /\ part'.faults = {}
  /\ RowsGo /\ ActGoes /\ PreGoes /\ WriteGoes /\ TimesGo /\ ModeGoes /\ PipeGoes

(* The part after an edge, command by command.                              *)
LEMMA PartAfter ==
  ASSUME PartInv, Cycle
  PROVE  PartGrows
<1> USE DEF PartInv
<1>1. part' = IF Cmd = "NOP" THEN Aging ELSE Commanded(Aging, ctl'.pins, store)
  BY NothingIsRefused, NeverLate, EdgeIs DEF Cmd
<1>2. ctl.state = "WRITE_HI" => ctl'.pins.oe = TRUE
  BY NothingIsRefused
<1>3. /\ IsPart(Aging) /\ Aging.open = part.open
      /\ Aging.sinceAct = [b \in BankIds |-> Older(part.sinceAct[b], T(mhz).rc)]
      /\ Aging.sincePre = [b \in BankIds |-> Older(part.sincePre[b], T(mhz).rp)]
      /\ Aging.sinceWrite = [b \in BankIds |->
           IF ctl.state = "WRITE_HI" /\ b = part.wrBank THEN 0
           ELSE Older(part.sinceWrite[b], T(mhz).wr)]
  BY <1>2, AgingIs
<1>4. /\ Aging.sinceMrs = Older(part.sinceMrs, T(mhz).mrd)
      /\ Aging.sinceRef = Older(part.sinceRef, 2 * TRefi + 1)
      /\ Aging.up = Older(part.up, PowerUp)
      /\ Aging.cl = part.cl /\ Aging.bl = part.bl
      /\ Aging.pipe = (IF part.pipe = <<>> THEN <<>> ELSE Tail(part.pipe))
      /\ Aging.wrLeft = 0 /\ Aging.wrBank = part.wrBank
      /\ Aging.wrCol \in Nat /\ Aging.faults = {}
  BY <1>2, AgingIs
<1>5. /\ DOMAIN part.open = BankIds /\ part.open = [b \in BankIds |-> part.open[b]]
      /\ part.wrBank \in BankIds /\ ctl.req.bank \in BankIds
  BY DEF RowsAgree, PartTypes, ControllerTypes, RegisterTypes, IsRequest
<1>6. Rests \/ Precharges \/ Activates \/ Refreshes \/ SetsMode \/ ReadsWord \/ WritesWord
  BY Commands
<1>7. CASE Rests
  <2>1. Cmd = "NOP" /\ part' = Aging
    BY <1>1, <1>7 DEF Rests, Cmd
  <2>11. IsPart(part)' /\ part'.faults = {} /\ TimesGo /\ PipeGoes
    BY <1>3, <1>4, <1>5, <2>1 DEF IsPart, TimesGo, PipeGoes, Left
  <2>12. RowsGo
    BY <1>3, <1>4, <1>5, <2>1 DEF IsPart, RowsGo
  <2>13. ActGoes
    BY <1>3, <1>4, <1>5, <2>1 DEF IsPart, ActGoes
  <2>14. PreGoes
    BY <1>3, <1>4, <1>5, <2>1 DEF IsPart, PreGoes
  <2>15. WriteGoes
    BY <1>3, <1>4, <1>5, <2>1 DEF IsPart, WriteGoes
  <2>16. ModeGoes
    BY <1>3, <1>4, <1>5, <2>1 DEF IsPart, ModeGoes
  <2> QED
    BY <2>11, <2>12, <2>13, <2>14, <2>15, <2>16 DEF PartGrows
<1>8. CASE Precharges
  <2>1. Cmd = "PRE" /\ ctl'.pins.a10 = TRUE
    BY <1>8, PinsAre DEF Precharges, Cmd
  <2>2. part' = [Aging EXCEPT
           !.sincePre = [b \in BankIds |-> IF part.open[b] # -1 THEN 0 ELSE Aging.sincePre[b]],
           !.open = [b \in BankIds |-> -1]]
    <3>1. DOMAIN Aging.sincePre = BankIds /\ DOMAIN Aging.open = BankIds
      BY <1>3, <1>5
    <3>2. part' = [Aging EXCEPT
             !.sincePre = [b \in BankIds |-> IF b \in BankIds /\ Aging.open[b] # -1 THEN 0
                                             ELSE Aging.sincePre[b]],
             !.open = [b \in BankIds |-> IF b \in BankIds THEN -1 ELSE Aging.open[b]]]
      BY <1>1, <2>1, <3>1 DEF Commanded, Cmd
    <3> QED
      BY <1>3, <3>2
  <2>11. IsPart(part)' /\ part'.faults = {} /\ TimesGo /\ PipeGoes
    BY <1>3, <1>4, <1>5, <2>1, <2>2 DEF IsPart, TimesGo, PipeGoes, Left
  <2>12. RowsGo
    BY <1>3, <1>4, <1>5, <2>1, <2>2 DEF IsPart, RowsGo
  <2>13. ActGoes
    BY <1>3, <1>4, <1>5, <2>1, <2>2 DEF IsPart, ActGoes
  <2>14. PreGoes
    BY <1>3, <1>4, <1>5, <2>1, <2>2 DEF IsPart, PreGoes
  <2>15. WriteGoes
    BY <1>3, <1>4, <1>5, <2>1, <2>2 DEF IsPart, WriteGoes
  <2>16. ModeGoes
    BY <1>3, <1>4, <1>5, <2>1, <2>2 DEF IsPart, ModeGoes
  <2> QED
    BY <2>11, <2>12, <2>13, <2>14, <2>15, <2>16 DEF PartGrows
<1>9. CASE Activates
  <2>1. Cmd = "ACT" /\ ctl'.pins.ba = ctl.req.bank /\ ctl'.pins.a = ctl.req.row
    BY <1>9, PinsAre DEF Activates, Cmd
  <2>2. part' = [Aging EXCEPT !.open[ctl.req.bank] = ctl.req.row, !.sinceAct[ctl.req.bank] = 0]
    BY <1>1, <2>1 DEF Commanded, Cmd
  <2>11. IsPart(part)' /\ part'.faults = {} /\ TimesGo /\ PipeGoes
    BY <1>3, <1>4, <1>5, <2>1, <2>2 DEF IsPart, TimesGo, PipeGoes, Left
  <2>12. RowsGo
    BY <1>3, <1>4, <1>5, <2>1, <2>2 DEF IsPart, RowsGo
  <2>13. ActGoes
    BY <1>3, <1>4, <1>5, <2>1, <2>2 DEF IsPart, ActGoes
  <2>14. PreGoes
    BY <1>3, <1>4, <1>5, <2>1, <2>2 DEF IsPart, PreGoes
  <2>15. WriteGoes
    BY <1>3, <1>4, <1>5, <2>1, <2>2 DEF IsPart, WriteGoes
  <2>16. ModeGoes
    BY <1>3, <1>4, <1>5, <2>1, <2>2 DEF IsPart, ModeGoes
  <2> QED
    BY <2>11, <2>12, <2>13, <2>14, <2>15, <2>16 DEF PartGrows
<1>10. CASE Refreshes
  <2>1. Cmd = "REF"
    BY <1>10, PinsAre DEF Refreshes, Cmd
  <2>2. part' = [Aging EXCEPT !.sinceRef = 0]
    BY <1>1, <2>1 DEF Commanded, Cmd
  <2>11. IsPart(part)' /\ part'.faults = {} /\ TimesGo /\ PipeGoes
    BY <1>3, <1>4, <1>5, <2>1, <2>2 DEF IsPart, TimesGo, PipeGoes, Left
  <2>12. RowsGo
    BY <1>3, <1>4, <1>5, <2>1, <2>2 DEF IsPart, RowsGo
  <2>13. ActGoes
    BY <1>3, <1>4, <1>5, <2>1, <2>2 DEF IsPart, ActGoes
  <2>14. PreGoes
    BY <1>3, <1>4, <1>5, <2>1, <2>2 DEF IsPart, PreGoes
  <2>15. WriteGoes
    BY <1>3, <1>4, <1>5, <2>1, <2>2 DEF IsPart, WriteGoes
  <2>16. ModeGoes
    BY <1>3, <1>4, <1>5, <2>1, <2>2 DEF IsPart, ModeGoes
  <2> QED
    BY <2>11, <2>12, <2>13, <2>14, <2>15, <2>16 DEF PartGrows
<1>11. CASE SetsMode
  <2>1. Cmd = "MRS" /\ ctl'.pins.mode.cl = 2 /\ ctl'.pins.mode.bl = 2
    BY <1>11, PinsAre DEF SetsMode, Cmd, Mode
  <2>2. part' = [Aging EXCEPT !.cl = 2, !.bl = 2, !.sinceMrs = 0]
    BY <1>1, <2>1 DEF Commanded, Cmd
  <2>11. IsPart(part)' /\ part'.faults = {} /\ TimesGo /\ PipeGoes
    BY <1>3, <1>4, <1>5, <2>1, <2>2 DEF IsPart, TimesGo, PipeGoes, Left
  <2>12. RowsGo
    BY <1>3, <1>4, <1>5, <2>1, <2>2 DEF IsPart, RowsGo
  <2>13. ActGoes
    BY <1>3, <1>4, <1>5, <2>1, <2>2 DEF IsPart, ActGoes
  <2>14. PreGoes
    BY <1>3, <1>4, <1>5, <2>1, <2>2 DEF IsPart, PreGoes
  <2>15. WriteGoes
    BY <1>3, <1>4, <1>5, <2>1, <2>2 DEF IsPart, WriteGoes
  <2>16. ModeGoes
    BY <1>3, <1>4, <1>5, <2>1, <2>2 DEF IsPart, ModeGoes
  <2> QED
    BY <2>11, <2>12, <2>13, <2>14, <2>15, <2>16 DEF PartGrows
<1>12. CASE ReadsWord
  <2>1. Cmd = "READ" /\ Aging.cl = 2 /\ Aging.bl = 2
    BY <1>4, <1>12, PinsAre DEF ReadsWord, Cmd, ModeAgrees
  <2> DEFINE cell == FlatAddr(ctl'.pins.ba, Aging.open[ctl'.pins.ba], ctl'.pins.a)
             d == [i \in 1 .. 2 |-> store[cell + i - 1]]
  <2>2. part' = [Aging EXCEPT !.pipe = Ahead(Aging.pipe, 1, d)]
    BY <1>1, <2>1 DEF Commanded, Cmd
  <2> HIDE DEF cell
  <2>3. HasLength(d, 2)
    <3> DEFINE e(i) == store[cell + i - 1]
               S == {e(i) : i \in 1 .. 2}
    <3>1. [i \in 1 .. 2 |-> e(i)] \in [1 .. 2 -> S]
      OBVIOUS
    <3>2. d = [i \in 1 .. 2 |-> e(i)]
      OBVIOUS
    <3> HIDE DEF e, S, d
    <3>3. [i \in 1 .. 2 |-> e(i)] \in Seq(S) /\ Len([i \in 1 .. 2 |-> e(i)]) = 2
      BY <3>1
    <3> QED
      BY <3>2, <3>3 DEF HasLength
  <2> HIDE DEF d
  <2>11. IsPart(part)' /\ part'.faults = {} /\ TimesGo /\ PipeGoes
    BY <1>3, <1>4, <1>5, <2>1, <2>2, <2>3 DEF IsPart, TimesGo, PipeGoes, Left
  <2>12. RowsGo
    BY <1>3, <1>4, <1>5, <2>1, <2>2, <2>3 DEF IsPart, RowsGo
  <2>13. ActGoes
    BY <1>3, <1>4, <1>5, <2>1, <2>2, <2>3 DEF IsPart, ActGoes
  <2>14. PreGoes
    BY <1>3, <1>4, <1>5, <2>1, <2>2, <2>3 DEF IsPart, PreGoes
  <2>15. WriteGoes
    BY <1>3, <1>4, <1>5, <2>1, <2>2, <2>3 DEF IsPart, WriteGoes
  <2>16. ModeGoes
    BY <1>3, <1>4, <1>5, <2>1, <2>2, <2>3 DEF IsPart, ModeGoes
  <2> QED
    BY <2>11, <2>12, <2>13, <2>14, <2>15, <2>16 DEF PartGrows
<1>13. CASE WritesWord
  <2>1. Cmd = "WRITE" /\ ctl'.pins.ba = ctl.req.bank /\ Aging.bl - 1 = 1 /\ ctl'.pins.a \in Nat
    BY <1>4, <1>13, PinsAre
       DEF WritesWord, Cmd, ModeAgrees, ControllerTypes, RegisterTypes, IsRequest
  <2>2. (ctl'.pins.a + 1) % Cols \in Nat
    BY <2>1, PartAssumption
  <2>3. part' = [Aging EXCEPT !.sinceWrite[ctl.req.bank] = 0, !.wrBank = ctl.req.bank,
                              !.wrCol = (ctl'.pins.a + 1) % Cols, !.wrLeft = 1]
    BY <1>1, <2>1 DEF Commanded, Cmd
  <2>11. IsPart(part)' /\ part'.faults = {} /\ TimesGo /\ PipeGoes
    BY <1>3, <1>4, <1>5, <2>1, <2>2, <2>3 DEF IsPart, TimesGo, PipeGoes, Left
  <2>12. RowsGo
    BY <1>3, <1>4, <1>5, <2>1, <2>2, <2>3 DEF IsPart, RowsGo
  <2>13. ActGoes
    BY <1>3, <1>4, <1>5, <2>1, <2>2, <2>3 DEF IsPart, ActGoes
  <2>14. PreGoes
    BY <1>3, <1>4, <1>5, <2>1, <2>2, <2>3 DEF IsPart, PreGoes
  <2>15. WriteGoes
    BY <1>3, <1>4, <1>5, <2>1, <2>2, <2>3 DEF IsPart, WriteGoes
  <2>16. ModeGoes
    BY <1>3, <1>4, <1>5, <2>1, <2>2, <2>3 DEF IsPart, ModeGoes
  <2> QED
    BY <2>11, <2>12, <2>13, <2>14, <2>15, <2>16 DEF PartGrows
<1> QED
  BY <1>6, <1>7, <1>8, <1>9, <1>10, <1>11, <1>12, <1>13

-----------------------------------------------------------------------------
(* Each part of the invariant after an edge. *)

(* The part's fields keep their types.                                      *)
LEMMA PartTypesAfter ==
  ASSUME PartInv, Cycle
  PROVE  PartTypes' /\ NothingRefused'
<1> USE DEF PartInv
<1>1. PartGrows
  BY PartAfter
<1>2. /\ PowerUp \in Nat /\ TRefi \in Nat /\ T(mhz).rp \in Nat /\ T(mhz).rc \in Nat
      /\ T(mhz).wr \in Nat /\ T(mhz).mrd \in Nat
  BY Intervals, PartAssumption DEF MasterTypes
<1>3. \A age \in Nat, top \in Nat : Older(age, top) \in Nat
  BY DEF Older
<1>4. /\ part.sinceAct \in [BankIds -> Nat] /\ part.sincePre \in [BankIds -> Nat]
      /\ part.sinceWrite \in [BankIds -> Nat]
      /\ part.sinceMrs \in Nat /\ part.sinceRef \in Nat /\ part.up \in Nat
  BY DEF PartTypes
<1>5. /\ part'.sinceAct \in [BankIds -> Nat] /\ part'.sincePre \in [BankIds -> Nat]
      /\ part'.sinceWrite \in [BankIds -> Nat]
  <2>1. \A b \in BankIds : /\ Older(part.sinceAct[b], T(mhz).rc) \in Nat
                            /\ Older(part.sincePre[b], T(mhz).rp) \in Nat
                            /\ Older(part.sinceWrite[b], T(mhz).wr) \in Nat
    BY <1>2, <1>3, <1>4
  <2>2. part'.sinceAct \in [BankIds -> Nat]
    BY <1>1, <2>1 DEF PartGrows, ActGoes
  <2>3. part'.sincePre \in [BankIds -> Nat]
    BY <1>1, <2>1 DEF PartGrows, PreGoes
  <2>4. part'.sinceWrite \in [BankIds -> Nat]
    BY <1>1, <2>1 DEF PartGrows, WriteGoes
  <2> QED
    BY <2>2, <2>3, <2>4
<1>6. part'.sinceMrs \in Nat /\ part'.sinceRef \in Nat /\ part'.up \in Nat
  BY <1>1, <1>2, <1>4 DEF PartGrows, TimesGo, Older
<1> QED
  BY <1>1, <1>5, <1>6 DEF PartTypes, NothingRefused, PartGrows, ModeGoes

(* A row is opened and closed on both sides at the same edge.               *)
LEMMA RowsAgreeAfter ==
  ASSUME PartInv, Cycle
  PROVE  RowsAgree'
<1> USE DEF PartInv
<1>1. PartGrows
  BY PartAfter
<1>2. Rests \/ Precharges \/ Activates \/ Refreshes \/ SetsMode \/ ReadsWord \/ WritesWord
  BY Commands
<1>3. \A b \in BankIds : part.open[b] = IF ctl.open /\ b = ctl.openBank THEN ctl.openRow ELSE -1
  BY DEF RowsAgree
<1>4. CASE Precharges
  <2>1. Cmd = "PRE" /\ ctl'.open = FALSE
    BY <1>4, PinsAre DEF Precharges, Closes, Cmd
  <2> QED
    BY <1>1, <2>1 DEF PartGrows, RowsGo, RowsAgree
<1>5. CASE Activates
  <2>1. Cmd = "ACT" /\ ~ctl.open /\ Opens
    BY <1>5, PinsAre DEF Activates, Cmd
  <2> QED
    BY <1>1, <1>3, <2>1 DEF PartGrows, RowsGo, RowsAgree, Opens
<1>6. CASE Rests \/ Refreshes \/ SetsMode \/ ReadsWord \/ WritesWord
  <2>1. Cmd \in {"NOP", "REF", "MRS", "READ", "WRITE"} /\ KeepsRow
    BY <1>6, PinsAre DEF Rests, Refreshes, SetsMode, ReadsWord, WritesWord, Cmd
  <2>2. part'.open = [b \in BankIds |-> part.open[b]]
    BY <1>1, <2>1 DEF PartGrows, RowsGo
  <2> QED
    BY <1>3, <2>1, <2>2 DEF RowsAgree, KeepsRow
<1> QED
  BY <1>2, <1>4, <1>5, <1>6

(* The mode is set once, and a write lasts two edges.                       *)
LEMMA ModeAgreesAfter ==
  ASSUME PartInv, Cycle
  PROVE  ModeAgrees'
<1> USE DEF PartInv
<1>1. PartGrows
  BY PartAfter
<1>2. Rests \/ Precharges \/ Activates \/ Refreshes \/ SetsMode \/ ReadsWord \/ WritesWord
  BY Commands
<1> DEFINE Early == {"INIT_WAIT", "INIT_PRE", "INIT_REF"}
<1>3. /\ ctl'.state = "WRITE_HI" <=> Cmd = "WRITE"
      /\ Cmd = "MRS" => ctl'.state \notin Early
      /\ Cmd # "MRS" => (ctl'.state \in Early <=> ctl.state \in Early)
  <2>1. CASE Rests
    <3>1. Cmd = "NOP"
      BY <2>1 DEF Rests, Cmd
    <3>2. CASE ctl.tmr # 0
      <4>1. ctl'.state = ctl.state
        BY <3>2, ControllerWaits DEF Moves
      <4>2. ctl.state # "WRITE_HI"
        BY <3>2 DEF ControllerTypes, TimerIsShort, TimerMax, RegisterTypes
      <4> QED
        BY <3>1, <4>1, <4>2
    <3>3. CASE ctl.tmr = 0
      <4>1. ctl.state \notin Early \cup {"REFRESH", "READ", "WRITE_LO", "PRECHARGE"}
        <5>1. ctl.state \in Early \cup {"REFRESH"} => Cmd # "NOP"
          BY <3>3, ControllerRefreshes, PinsAre DEF Moves, Cmd
        <5>2. ctl.state = "PRECHARGE" => Cmd # "NOP"
          BY <3>3, ControllerDecides, PinsAre DEF Moves, Cmd
        <5> QED
          BY <2>1, <3>1, <3>3, <5>1, <5>2 DEF Rests
      <4>2. ctl.state = "INIT_MRS" => ctl'.state = "IDLE"
        BY <3>3, ControllerRefreshes DEF Moves
      <4>3. ctl.state = "IDLE" => ctl'.state \in {"REFRESH", "ACTIVE", "IDLE"}
        BY <3>3, ControllerDecides DEF Moves
      <4>4. ctl.state = "ACTIVE" => ctl'.state \in {"READ", "WRITE_LO", "PRECHARGE"}
        BY <3>3, ControllerDecides DEF Moves, AccessState, RowHit
      <4>5. ctl.state \in {"READ_LO", "READ_HI", "BR_LO", "BR_HI", "WRITE_HI"} =>
              ctl'.state \in {"READ_HI", "IDLE", "BR_HI", "BR_LO"}
        BY <3>3, ControllerTransfers DEF Moves
      <4> QED
        BY <3>1, <4>1, <4>2, <4>3, <4>4, <4>5
           DEF ControllerTypes, RegisterTypes, States, InitStates, ReadStates, WriteStates
    <3> QED
      BY <3>2, <3>3
  <2>2. CASE Precharges \/ Activates \/ Refreshes \/ SetsMode \/ ReadsWord \/ WritesWord
    BY <2>2, PinsAre
       DEF Precharges, Activates, Refreshes, SetsMode, ReadsWord, WritesWord, AccessState, Cmd
  <2> QED
    BY <1>2, <2>1, <2>2
<1> QED
  BY <1>1, <1>3 DEF ModeAgrees, PartGrows, ModeGoes

(* The words of a read leave the part as the controller takes them.         *)
Slots(s, n, i) ==
  CASE s \in {"READ_LO", "BR_LO"} -> 2 + n
    [] s = "READ_HI" -> 1
    [] s = "BR_HI" -> IF i = 3 THEN 1 ELSE 3
    [] OTHER -> 0

(* The pipeline holds what the controller's state still has to take.        *)
LEMMA PipeAgreesAfter ==
  ASSUME PartInv, Cycle
  PROVE  PipeAgrees'
<1> USE DEF PartInv
<1> DEFINE n == Slots(ctl.state, ctl.tmr, ctl.idx)
           m == Slots(ctl'.state, ctl'.tmr, ctl'.idx)
<1>1. PipeGoes
  BY PartAfter DEF PartGrows
<1>2. Rests \/ Precharges \/ Activates \/ Refreshes \/ SetsMode \/ ReadsWord \/ WritesWord
  BY Commands
<1>3. HasLength(part.pipe, n) /\ n \in 0 .. 3
  <2>1. ctl.tmr \in 0 .. 1 \/ ctl.state \notin {"READ_LO", "BR_LO"}
    BY DEF ControllerTypes, TimerIsShort, TimerMax, RegisterTypes
  <2> QED
    BY <2>1 DEF PipeAgrees, Slots
<1>4. HasLength(Left, IF n = 0 THEN 0 ELSE n - 1)
  <2>1. CASE n = 0
    BY <1>3, <2>1, NothingIsEmpty DEF Left
  <2>2. CASE n # 0
    <3>1. part.pipe # <<>> /\ HasLength(Tail(part.pipe), n - 1)
      BY <1>3, <2>2, TailIsShorter
    <3> QED
      BY <2>2, <3>1 DEF Left
  <2> QED
    BY <2>1, <2>2
<1>5. ctl.tmr \in Nat /\ ctl.idx \in 0 .. 3 /\ ctl'.idx \in 0 .. 3
  BY RegisterTypesAfter DEF ControllerTypes, RegisterTypes
<1>6. HasLength(part'.pipe, m)
  <2>1. CASE ReadsWord
    <3>1. Cmd = "READ"
      BY <2>1, PinsAre DEF ReadsWord, Cmd
    <3>2. (IF n = 0 THEN 0 ELSE n - 1) \in 0 .. 3
      BY <1>3
    <3>3. HasLength(part'.pipe, 3)
      BY <1>1, <1>4, <3>1, <3>2, AheadIsThree DEF PipeGoes
    <3>4. ctl.state = "BR_LO" => ctl'.idx # 3
      BY <2>1, ControllerTransfers DEF ReadsWord, KeepsRequest
    <3>5. m = 3
      BY <2>1, <3>4 DEF ReadsWord, Slots
    <3> QED
      BY <3>3, <3>5
  <2>2. CASE Rests \/ Precharges \/ Activates \/ Refreshes \/ SetsMode \/ WritesWord
    <3>1. part'.pipe = Left
      <4>1. Cmd # "READ"
        BY <2>2, PinsAre DEF Rests, Precharges, Activates, Refreshes, SetsMode, WritesWord, Cmd
      <4> QED
        BY <1>1, <4>1 DEF PipeGoes
    <3>2. m = IF n = 0 THEN 0 ELSE n - 1
      <4>1. CASE ctl.tmr # 0
        <5>1. ctl'.state = ctl.state /\ ctl'.tmr = ctl.tmr - 1 /\ ctl'.idx = ctl.idx
          BY <4>1, ControllerWaits DEF Moves, KeepsRequest
        <5>2. ctl.state \notin {"READ_HI", "BR_HI"}
          BY <4>1 DEF ControllerTypes, TimerIsShort, TimerMax, RegisterTypes
        <5> QED
          BY <1>5, <4>1, <5>1, <5>2 DEF Slots
      <4>2. CASE ctl.tmr = 0 /\ ctl.state \in ReadStates
        <5>1. /\ ctl.state # "READ"
              /\ ctl.state = "READ_LO" => ctl'.state = "READ_HI"
              /\ ctl.state = "READ_HI" => ctl'.state = "IDLE"
              /\ ctl.state = "BR_LO" => ctl'.state = "BR_HI" /\ ctl'.idx = ctl.idx
              /\ ctl.state = "BR_HI" => ctl'.state = (IF ctl.idx = 3 THEN "IDLE" ELSE "BR_LO")
                                        /\ ctl'.tmr = 0
          BY <2>2, <4>2, ControllerTransfers
             DEF Moves, KeepsRequest, Rests, Precharges, Activates, Refreshes, SetsMode,
                 WritesWord
        <5>2. ctl.state = "BR_LO" => ctl.idx = 3
          <6>1. CASE ctl.state = "BR_LO" /\ ctl.idx # 3
            <7>1. ctl'.pins.cmd = "READ"
              BY <4>2, <6>1, ControllerTransfers, PinsAre DEF Moves
            <7> QED
              BY <2>2, <7>1, PinsAre
                 DEF Rests, Precharges, Activates, Refreshes, SetsMode, WritesWord
          <6> QED
            BY <6>1
        <5> QED
          BY <1>5, <4>2, <5>1, <5>2 DEF Slots, ReadStates
      <4>3. CASE ctl.tmr = 0 /\ ctl.state \notin ReadStates
        <5>1. ctl'.state \notin {"READ_LO", "READ_HI", "BR_LO", "BR_HI"}
          <6>1. ctl.state \in InitStates \cup {"REFRESH"} => ctl'.state \in InitStates \cup {"IDLE"}
            BY <4>3, ControllerRefreshes DEF Moves, InitStates
          <6>2. ctl.state \in {"IDLE", "ACTIVE", "PRECHARGE"} =>
                  ctl'.state \in {"REFRESH", "ACTIVE", "IDLE", "READ", "WRITE_LO", "PRECHARGE"}
            BY <4>3, ControllerDecides DEF Moves, AccessState, RowHit
          <6>3. ctl.state \in WriteStates => ctl'.state \in {"WRITE_HI", "IDLE"}
            BY <4>3, ControllerTransfers DEF Moves, WriteStates
          <6> QED
            BY <4>3, <6>1, <6>2, <6>3, WhichStep DEF ControllerTypes, InitStates, WriteStates
        <5> QED
          BY <4>3, <5>1 DEF Slots, ReadStates
      <4> QED
        BY <4>1, <4>2, <4>3
    <3> QED
      BY <1>4, <3>1, <3>2
  <2> QED
    BY <1>2, <2>1, <2>2
<1>7. ctl'.pins.oe => ctl'.state \in {"WRITE_HI", "IDLE"}
  <2>1. CASE Rests /\ ctl.state = "WRITE_HI"
    <3>1. ctl.tmr = 0
      BY <2>1 DEF ControllerTypes, TimerIsShort, TimerMax, RegisterTypes
    <3> QED
      BY <2>1, <3>1, ControllerTransfers DEF Moves
  <2>2. CASE Rests /\ ctl.state # "WRITE_HI"
    BY <2>2 DEF Rests
  <2>3. CASE Precharges \/ Activates \/ Refreshes \/ SetsMode \/ ReadsWord \/ WritesWord
    BY <2>3, PinsAre DEF Precharges, Activates, Refreshes, SetsMode, ReadsWord, WritesWord
  <2> QED
    BY <1>2, <2>1, <2>2, <2>3
<1> QED
  BY <1>6, <1>7 DEF PipeAgrees, Slots

(* Every age is enough when the command it is for can come.                 *)
LEMMA AgesAfter ==
  ASSUME PartInv, Cycle
  PROVE  Ages'
<1> USE DEF PartInv
<1> DEFINE t == T(mhz)
           n == ctl.tmr
           m == ctl'.tmr
           k == ctl.tmr + ToClose(ctl.state)
           j == ctl'.tmr + ToClose(ctl'.state)
<1>1. /\ T_RP \in 1 .. 3 /\ T_RCD = T_RP /\ T_RFC \in 1 .. 9 /\ PowerUp \in Nat /\ TRefi \in Nat
      /\ t.rp \in 0 .. T_RP /\ t.rcd \in 0 .. T_RCD /\ t.rc \in 0 .. T_RCD + 3 + T_RP
      /\ t.ras \in 0 .. T_RCD + 3 /\ t.rfc \in 0 .. T_RFC
      /\ t.mrd \in 0 .. 2 /\ t.wr \in 0 .. 2 /\ t.ras <= t.rc /\ t.rcd <= t.rc
      /\ TRefi >= 12 + 3 * T_RP
  BY Intervals, PartAssumption DEF MasterTypes
<1>2. T(mhz)' = t /\ T_RP' = T_RP
  BY DEF Cycle, T_RP, Cycles
<1>3. /\ part.up \in Nat /\ part.sinceMrs \in Nat /\ part.sinceRef \in Nat
      /\ \A b \in BankIds : /\ part.sinceAct[b] \in Nat /\ part.sincePre[b] \in Nat
                            /\ part.sinceWrite[b] \in Nat
  BY DEF PartTypes
<1>4. PartGrows
  BY PartAfter
<1>5. /\ n \in Nat /\ m \in Nat /\ k \in Nat /\ j \in Nat
      /\ k > n /\ j > m /\ m + 1 >= n /\ j + 1 >= k
  <2>1. \A s : ToClose(s) \in 1 .. 5
    BY DEF ToClose
  <2>2. n \in Nat /\ m \in Nat
    BY RegisterTypesAfter DEF ControllerTypes, RegisterTypes
  <2> QED
    BY <2>1, <2>2, Slack
<1>6. Rests \/ Precharges \/ Activates \/ Refreshes \/ SetsMode \/ ReadsWord \/ WritesWord
  BY Commands
<1>7. /\ \A b \in BankIds : part.sincePre[b] + n + 1 >= t.rp
      /\ \A b \in BankIds : part.sinceWrite[b] + k >= t.wr
      /\ \A b \in BankIds : part.sinceAct[b] + (IF ctl.open THEN k + T_RP ELSE n + 1) >= t.rc
      /\ ctl.open => /\ part.sinceAct[ctl.openBank] + n + 1 >= t.rcd
                     /\ part.sinceAct[ctl.openBank] + k >= t.ras
      /\ part.sinceMrs + n + 1 >= t.mrd /\ part.sinceRef + n + 1 >= t.rfc
      /\ part.up + (IF ctl.state = "INIT_WAIT" THEN n ELSE 0) >= PowerUp
  <2>1. ToClose(ctl.state) \in 1 .. 5 /\ ctl.openBank \in BankIds
    BY DEF ToClose, ControllerTypes, RegisterTypes
  <2>2. \A b \in BankIds : part.sinceWrite[b] + k >= t.wr
    BY <1>1, <1>3, <1>5, <2>1 DEF Ages
  <2>3. \A b \in BankIds : part.sinceAct[b] + (IF ctl.open THEN k + T_RP ELSE n + 1) >= t.rc
    BY <1>1, <1>3, <1>5, <2>1 DEF Ages
  <2>4. ctl.open => part.sinceAct[ctl.openBank] + k >= t.ras
    BY <1>1, <1>3, <1>5, <2>1 DEF Ages
  <2> QED
    BY <2>2, <2>3, <2>4 DEF Ages
<1>8. /\ Cmd = "PRE" <=> Precharges
      /\ Cmd = "ACT" <=> Activates
      /\ Cmd = "REF" <=> Refreshes
      /\ Cmd = "MRS" <=> SetsMode
      /\ Cmd = "WRITE" <=> WritesWord
  BY <1>6, PinsAre, SMTT(30)
     DEF Cmd, Rests, Precharges, Activates, Refreshes, SetsMode, ReadsWord, WritesWord
<1>9. ctl.openBank \in BankIds /\ ctl.req.bank \in BankIds /\ ctl'.openBank \in BankIds
  BY RegisterTypesAfter DEF ControllerTypes, RegisterTypes, IsRequest
<1>10. ctl'.open /\ ~Activates => ctl.open /\ ctl'.openBank = ctl.openBank
  BY <1>6 DEF Rests, Precharges, Refreshes, SetsMode, ReadsWord, WritesWord, KeepsRow, Closes
<1>11. Activates => m = T_RCD - 1 /\ n = 0 /\ ~ctl.open /\ j >= T_RCD + 3
                    /\ ctl'.open /\ ctl'.openBank = ctl.req.bank
  BY <1>1 DEF Activates, Opens, AccessState, ToClose
<1>12. Precharges => m = T_RP - 1 /\ n = 0 /\ k = 1 /\ ~ctl'.open
  BY <1>1 DEF Precharges, Closes, ToClose
<1>13. ~Precharges /\ ~ctl'.open => ~ctl.open
  BY <1>6 DEF Rests, Activates, Refreshes, SetsMode, ReadsWord, WritesWord, KeepsRow, Opens
<1> HIDE DEF n, m, k, j, t
<1>14. \A b \in BankIds : part'.sincePre[b] + m + 1 >= t.rp
  <2> TAKE b \in BankIds
  <2>1. part'.sincePre[b] = IF Cmd = "PRE" /\ part.open[b] # -1 THEN 0 ELSE Older(part.sincePre[b], t.rp)
    BY <1>4 DEF PartGrows, PreGoes, t
  <2>2. CASE Cmd = "PRE" /\ part.open[b] # -1
    BY <1>1, <1>8, <1>12, <2>1, <2>2
  <2>3. CASE ~(Cmd = "PRE" /\ part.open[b] # -1)
    BY <1>1, <1>3, <1>5, <1>7, <2>1, <2>3 DEF Older
  <2> QED
    BY <2>2, <2>3
<1>15. \A b \in BankIds : part'.sinceWrite[b] + j >= t.wr
  <2> TAKE b \in BankIds
  <2>1. part'.sinceWrite[b] =
          IF \/ Cmd = "WRITE" /\ b = ctl.req.bank
             \/ ctl.state = "WRITE_HI" /\ b = part.wrBank
            THEN 0 ELSE Older(part.sinceWrite[b], t.wr)
    BY <1>4 DEF PartGrows, WriteGoes, t
  <2>2. CASE Cmd = "WRITE"
    <3>1. j = 3
      BY <1>8, <2>2 DEF WritesWord, ToClose, j
    <3> QED
      BY <1>1, <1>3, <2>1, <3>1 DEF Older
  <2>3. CASE ctl.state = "WRITE_HI"
    <3>1. ctl.tmr = 0
      BY <2>3 DEF ControllerTypes, TimerIsShort, TimerMax, RegisterTypes
    <3>2. j = 2
      BY <2>3, <3>1, ControllerTransfers DEF Moves, ToClose, j
    <3> QED
      BY <1>1, <1>3, <2>1, <3>2 DEF Older
  <2>4. CASE Cmd # "WRITE" /\ ctl.state # "WRITE_HI"
    BY <1>1, <1>3, <1>5, <1>7, <2>1, <2>4 DEF Older
  <2> QED
    BY <2>2, <2>3, <2>4
<1>16. \A b \in BankIds : part'.sinceAct[b] + (IF ctl'.open THEN j + T_RP ELSE m + 1) >= t.rc
  <2> TAKE b \in BankIds
  <2>1. part'.sinceAct[b] = IF Cmd = "ACT" /\ b = ctl.req.bank THEN 0 ELSE Older(part.sinceAct[b], t.rc)
    BY <1>4 DEF PartGrows, ActGoes, t
  <2>2. CASE Activates
    <3>1. part.sinceAct[b] + 1 >= t.rc
      BY <1>1, <1>3, <1>7, <1>11, <2>2
    <3> QED
      BY <1>1, <1>3, <1>5, <1>11, <2>1, <2>2, <3>1 DEF Older
  <2>3. CASE Precharges
    <3>1. part.sinceAct[b] + 1 + T_RP >= t.rc
      BY <1>1, <1>3, <1>7, <1>12, <2>3
    <3>2. Cmd # "ACT"
      BY <1>8, <2>3
    <3> QED
      BY <1>1, <1>3, <1>12, <2>1, <2>3, <3>1, <3>2 DEF Older
  <2>4. CASE ~Activates /\ ~Precharges
    <3>1. Cmd # "ACT" /\ (ctl'.open <=> ctl.open)
      BY <1>8, <1>10, <1>13, <2>4
    <3>2. part'.sinceAct[b] = Older(part.sinceAct[b], t.rc)
      BY <2>1, <3>1
    <3>3. CASE ctl'.open
      BY <1>1, <1>3, <1>5, <1>7, <3>1, <3>2, <3>3 DEF Older
    <3>4. CASE ~ctl'.open
      BY <1>1, <1>3, <1>5, <1>7, <3>1, <3>2, <3>4 DEF Older
    <3> QED
      BY <3>3, <3>4
  <2> QED
    BY <2>2, <2>3, <2>4
<1>17. ctl'.open => /\ part'.sinceAct[ctl'.openBank] + m + 1 >= t.rcd
                    /\ part'.sinceAct[ctl'.openBank] + j >= t.ras
  <2> SUFFICES ASSUME ctl'.open
               PROVE  /\ part'.sinceAct[ctl'.openBank] + m + 1 >= t.rcd
                      /\ part'.sinceAct[ctl'.openBank] + j >= t.ras
    OBVIOUS
  <2> DEFINE b == ctl'.openBank
  <2>1. part'.sinceAct[b] = IF Cmd = "ACT" /\ b = ctl.req.bank THEN 0 ELSE Older(part.sinceAct[b], t.rc)
    BY <1>4, <1>9 DEF PartGrows, ActGoes, t
  <2>2. CASE Activates
    BY <1>1, <1>5, <1>8, <1>11, <2>1, <2>2
  <2>3. CASE ~Activates
    <3>1. part'.sinceAct[b] = Older(part.sinceAct[b], t.rc) /\ part.sinceAct[b] \in Nat
      BY <1>3, <1>8, <1>9, <2>1, <2>3
    <3>2. part.sinceAct[b] + n + 1 >= t.rcd /\ part.sinceAct[b] + k >= t.ras
      BY <1>7, <1>10, <2>3
    <3> QED
      BY <1>1, <1>5, <3>1, <3>2 DEF Older
  <2> QED
    BY <2>2, <2>3
<1>18. part'.sinceMrs + m + 1 >= t.mrd /\ part'.sinceRef + m + 1 >= t.rfc
  <2>1. /\ part'.sinceMrs = IF Cmd = "MRS" THEN 0 ELSE Older(part.sinceMrs, t.mrd)
        /\ part'.sinceRef = IF Cmd = "REF" THEN 0 ELSE Older(part.sinceRef, 2 * TRefi + 1)
    BY <1>4 DEF PartGrows, TimesGo, t
  <2>2. (Cmd = "MRS" => m = 1) /\ (Cmd = "REF" => m = T_RFC - 1)
    BY <1>8 DEF SetsMode, Refreshes, m
  <2>3. part'.sinceMrs + m + 1 >= t.mrd
    BY <1>1, <1>3, <1>5, <1>7, <2>1, <2>2 DEF Older
  <2>4. part'.sinceRef + m + 1 >= t.rfc
    BY <1>1, <1>3, <1>5, <1>7, <2>1, <2>2 DEF Older
  <2> QED
    BY <2>3, <2>4
<1>19. part'.up + (IF ctl'.state = "INIT_WAIT" THEN m ELSE 0) >= PowerUp
  <2>1. part'.up = Older(part.up, PowerUp)
    BY <1>4 DEF PartGrows, TimesGo
  <2>2. CASE ctl.state = "INIT_WAIT" /\ n # 0
    <3>1. ctl'.state = "INIT_WAIT" /\ m = n - 1
      BY <2>2, ControllerWaits DEF Moves, n, m
    <3> QED
      BY <1>1, <1>3, <1>5, <1>7, <2>1, <2>2, <3>1 DEF Older
  <2>3. CASE ctl.state # "INIT_WAIT" \/ n = 0
    <3>1. part.up >= PowerUp
      BY <1>1, <1>3, <1>7, <2>3
    <3>2. part'.up >= PowerUp /\ part'.up \in Nat
      BY <1>1, <1>3, <2>1, <3>1 DEF Older
    <3> QED
      BY <1>1, <1>5, <3>2
  <2> QED
    BY <2>2, <2>3
<1>20. ToClose(ctl'.state) \in 1 .. 5
  BY DEF ToClose
<1>21. /\ part'.up \in Nat /\ part'.sinceMrs \in Nat /\ part'.sinceRef \in Nat
       /\ \A b \in BankIds : /\ part'.sinceAct[b] \in Nat /\ part'.sincePre[b] \in Nat
                             /\ part'.sinceWrite[b] \in Nat
  BY PartTypesAfter DEF PartTypes
<1> QED
  BY <1>1, <1>2, <1>5, <1>9, <1>14, <1>15, <1>16, <1>17, <1>18, <1>19, <1>20, <1>21
     DEF Ages, m, j

(* A refresh that is owed comes nearer every cycle.                         *)
LEMMA RefreshComesNearer ==
  ASSUME PartInv, Cycle, ctl.due, ctl.state \notin InitStates, ~Refreshes
  PROVE  /\ ctl'.state \notin InitStates
         /\ ctl'.tmr + ToRefresh(ctl'.state, ctl'.idx) + 1
              <= ctl.tmr + ToRefresh(ctl.state, ctl.idx)
<1> USE DEF PartInv
<1>1. /\ T_RP \in 1 .. 3 /\ T_RCD = T_RP /\ T_RFC \in 1 .. 9
      /\ ctl.tmr \in Nat /\ ctl.idx \in 0 .. 3
  BY Intervals DEF MasterTypes, ControllerTypes, RegisterTypes
<1>2. CASE ctl.tmr # 0
  <2>1. ctl'.state = ctl.state /\ ctl'.tmr = ctl.tmr - 1 /\ ctl'.idx = ctl.idx
    BY <1>2, ControllerWaits DEF Moves, KeepsRequest
  <2>2. ToRefresh(ctl.state, ctl.idx) \in Int
    BY <1>1 DEF ToRefresh
  <2> QED
    BY <1>1, <1>2, <2>1, <2>2
<1>3. CASE ctl.tmr = 0 /\ ctl.state = "REFRESH"
  <2>1. Refreshes
    BY <1>3, ControllerRefreshes DEF Refreshes, Moves, ControllerTypes, Places
  <2> QED
    BY <2>1
<1>4. CASE ctl.tmr = 0 /\ ctl.state = "IDLE"
  <2>1. ctl'.state = "REFRESH" /\ (ctl'.tmr = T_RP - 1 \/ ctl'.tmr = 0)
    BY <1>4, ControllerDecides DEF Moves
  <2> QED
    BY <1>1, <1>4, <2>1 DEF ToRefresh, InitStates
<1>5. CASE ctl.tmr = 0 /\ ctl.state \in {"ACTIVE", "PRECHARGE"}
  <2>1. \/ ctl'.state = "PRECHARGE" /\ ctl'.tmr = T_RP - 1 /\ ctl.state = "ACTIVE"
        \/ ctl'.state \in {"READ", "WRITE_LO"} /\ (ctl'.tmr = T_RCD - 1 \/ ctl'.tmr = 0)
    BY <1>5, ControllerDecides DEF Moves, AccessState, RowHit
  <2> QED
    BY <1>1, <1>5, <2>1 DEF ToRefresh, InitStates
<1>6. CASE ctl.tmr = 0 /\ ctl.state \in {"READ", "READ_LO", "READ_HI"}
  <2>1. /\ ctl.state = "READ" =>
             ctl'.state \in {"READ_LO", "BR_LO"} /\ ctl'.tmr = 1 /\ ctl'.idx = 0
        /\ ctl.state = "READ_LO" => ctl'.state = "READ_HI" /\ ctl'.tmr = 0
        /\ ctl.state = "READ_HI" => ctl'.state = "IDLE" /\ ctl'.tmr = 0
    BY <1>6, ControllerTransfers DEF Moves
  <2> QED
    BY <1>1, <1>6, <2>1 DEF ToRefresh, InitStates
<1>7. CASE ctl.tmr = 0 /\ ctl.state \in {"BR_LO", "BR_HI"}
  <2>1. /\ ctl.state = "BR_LO" => ctl'.state = "BR_HI" /\ ctl'.tmr = 0 /\ ctl'.idx = ctl.idx
        /\ ctl.state = "BR_HI" /\ ctl.idx = 3 => ctl'.state = "IDLE" /\ ctl'.tmr = 0
        /\ ctl.state = "BR_HI" /\ ctl.idx # 3 =>
             ctl'.state = "BR_LO" /\ ctl'.tmr = 0 /\ ctl'.idx = ctl.idx + 1
    BY <1>7, ControllerTransfers DEF Moves, KeepsRequest
  <2> QED
    BY <1>1, <1>7, <2>1 DEF ToRefresh, InitStates
<1>8. CASE ctl.tmr = 0 /\ ctl.state \in WriteStates
  <2>1. /\ ctl.state = "WRITE_LO" => ctl'.state = "WRITE_HI" /\ ctl'.tmr = 0
        /\ ctl.state = "WRITE_HI" => ctl'.state = "IDLE" /\ ctl'.tmr = 1
    BY <1>8, ControllerTransfers DEF Moves, WriteStates
  <2> QED
    BY <1>1, <1>8, <2>1 DEF ToRefresh, InitStates, WriteStates
<1> QED
  BY <1>1, <1>2, <1>3, <1>4, <1>5, <1>6, <1>7, <1>8, WhichStep
     DEF ControllerTypes, InitStates, ReadStates, WriteStates

(* And it is never more than an interval late.                              *)
LEMMA RefreshInTimeAfter ==
  ASSUME PartInv, Cycle
  PROVE  RefreshInTime'
<1> USE DEF PartInv
<1>1. /\ T_RP \in 1 .. 3 /\ T_RCD = T_RP /\ T_RFC \in 1 .. 9 /\ TRefi \in Nat
      /\ TRefi >= 12 + 3 * T_RP
      /\ part.sinceRef \in Nat /\ ctl.tmr \in Nat /\ ctl.idx \in 0 .. 3
      /\ ctl.refi \in 0 .. TRefi /\ ctl.due \in BOOLEAN /\ ctl.state \in States
  BY Intervals, PartAssumption DEF MasterTypes, PartTypes, ControllerTypes, RegisterTypes
<1>2. /\ ctl'.tmr \in Nat /\ ctl'.idx \in 0 .. 3 /\ ctl'.refi \in 0 .. TRefi
      /\ Ticks /\ ctl'.state \in States /\ ctl'.tmr <= TimerMax(ctl'.state)
  BY RegisterTypesAfter, TimerIsShortAfter
     DEF ControllerTypes, RegisterTypes, TimerIsShort, TimerMax, T_RP, T_RCD, T_RFC, Cycles, Cycle
<1>9. \A s : \A i \in 0 .. 3 : ToRefresh(s, i) \in Nat
  BY <1>1 DEF ToRefresh
<1>3. T_RP' = T_RP /\ T_RCD' = T_RCD /\ T_RFC' = T_RFC
  BY DEF Cycle, T_RP, T_RCD, T_RFC, Cycles
<1>4. part'.sinceRef = IF Refreshes THEN 0 ELSE Older(part.sinceRef, 2 * TRefi + 1)
  <2>1. Cmd = "REF" <=> Refreshes
    BY Commands, PinsAre
       DEF Cmd, Rests, Precharges, Activates, Refreshes, SetsMode, ReadsWord, WritesWord
  <2> QED
    BY <2>1, PartAfter DEF PartGrows, TimesGo
<1>5. part'.sinceRef \in Nat /\ part'.sinceRef <= part.sinceRef + 1
  BY <1>1, <1>4 DEF Older
<1>6. ~ctl'.due => part'.sinceRef + ctl'.refi <= TRefi
  <2> SUFFICES ASSUME ~ctl'.due PROVE part'.sinceRef + ctl'.refi <= TRefi
    OBVIOUS
  <2>1. ctl.refi # 0 /\ ctl'.refi = ctl.refi - 1
    BY <1>2 DEF Ticks
  <2>2. ~ctl.due \/ (ctl.state = "REFRESH" /\ ctl.tmr = 0)
    BY <1>2, <2>1 DEF Ticks
  <2>3. CASE ~ctl.due
    BY <1>1, <1>5, <2>1, <2>3 DEF RefreshInTime
  <2>4. CASE ctl.state = "REFRESH" /\ ctl.tmr = 0
    <3>1. Refreshes
      BY <2>4, ControllerRefreshes DEF Refreshes, Moves, ControllerTypes, Places
    <3> QED
      BY <1>1, <1>4, <2>1, <3>1
  <2> QED
    BY <2>2, <2>3, <2>4
<1>7. ctl'.state \in {"INIT_REF", "INIT_MRS"} =>
        part'.sinceRef + ctl'.tmr <= T_RFC + (IF ctl'.state = "INIT_MRS" THEN 2 ELSE 0)
  <2>1. CASE ctl.tmr # 0
    <3>1. ctl'.state = ctl.state /\ ctl'.tmr = ctl.tmr - 1
      BY <2>1, ControllerWaits DEF Moves
    <3> QED
      BY <1>1, <1>5, <3>1 DEF RefreshInTime
  <2>2. CASE ctl.tmr = 0 /\ ctl.state \in InitStates
    <3>1. CASE Refreshes
      BY <1>1, <1>4, <3>1 DEF Refreshes
    <3>2. CASE ~Refreshes
      <4>1. ctl.state = "INIT_REF" => ctl'.state = "INIT_MRS" /\ ctl'.tmr = 1
        BY <2>2, <3>2, ControllerRefreshes
           DEF Moves, Refreshes, ControllerTypes, Places, InitStates
      <4>2. ctl.state # "INIT_REF" => ctl'.state \notin {"INIT_REF", "INIT_MRS"}
        BY <2>2, <3>2, ControllerRefreshes
           DEF Moves, InitStates, Refreshes, ControllerTypes, Places
      <4> QED
        BY <1>1, <1>5, <2>2, <4>1, <4>2 DEF RefreshInTime
    <3> QED
      BY <3>1, <3>2
  <2>3. CASE ctl.tmr = 0 /\ ctl.state \notin InitStates
    <3>1. ctl'.state \notin {"INIT_REF", "INIT_MRS"}
      <4>1. ctl.state = "REFRESH" => ctl'.state = "IDLE"
        BY <2>3, ControllerRefreshes DEF Moves
      <4>2. ctl.state \in {"IDLE", "ACTIVE", "PRECHARGE"} =>
              ctl'.state \in {"REFRESH", "ACTIVE", "IDLE", "READ", "WRITE_LO", "PRECHARGE"}
        BY <2>3, ControllerDecides DEF Moves, AccessState, RowHit
      <4>3. ctl.state \in ReadStates =>
              ctl'.state \in {"READ_LO", "READ_HI", "BR_LO", "BR_HI", "IDLE"}
        BY <2>3, ControllerTransfers DEF Moves, ReadStates
      <4>4. ctl.state \in WriteStates => ctl'.state \in {"WRITE_HI", "IDLE"}
        BY <2>3, ControllerTransfers DEF Moves, WriteStates
      <4> QED
        BY <2>3, <4>1, <4>2, <4>3, <4>4, WhichStep DEF ControllerTypes
    <3> QED
      BY <3>1
  <2> QED
    BY <1>1, <2>1, <2>2, <2>3
<1>8. ctl'.due /\ ctl'.state \notin InitStates =>
        part'.sinceRef + ctl'.tmr + ToRefresh(ctl'.state, ctl'.idx) <= 2 * TRefi
  <2> SUFFICES ASSUME ctl'.due, ctl'.state \notin InitStates
               PROVE  part'.sinceRef + ctl'.tmr + ToRefresh(ctl'.state, ctl'.idx) <= 2 * TRefi
    OBVIOUS
  <2> DEFINE far == ctl'.tmr + ToRefresh(ctl'.state, ctl'.idx)
  <2>1. far \in Nat /\ far <= 11 + 3 * T_RP
    <3>1. ctl'.tmr + ToRefresh(ctl'.state, ctl'.idx) <= 11 + 3 * T_RP
      BY <1>1, <1>2 DEF TimerMax, ToRefresh, States, ReadStates, WriteStates
    <3>2. ToRefresh(ctl'.state, ctl'.idx) \in Nat
      BY <1>2, <1>9
    <3> QED
      BY <1>2, <3>1, <3>2
  <2>2. part'.sinceRef + far = part'.sinceRef + ctl'.tmr + ToRefresh(ctl'.state, ctl'.idx)
    <3>1. ToRefresh(ctl'.state, ctl'.idx) \in Nat
      BY <1>2, <1>9
    <3> QED
      BY <1>2, <1>5, <3>1
  <2> HIDE DEF far
  <2>3. CASE Refreshes
    BY <1>1, <1>4, <2>1, <2>2, <2>3
  <2>4. CASE ~ctl.due
    BY <1>1, <1>5, <2>1, <2>2, <2>4 DEF RefreshInTime
  <2>5. CASE ctl.state \in InitStates /\ ~Refreshes
    <3>1. ctl.state = "INIT_MRS"
      BY <2>5, Commands, ControllerRefreshes, ControllerWaits
         DEF Moves, InitStates, Refreshes, ControllerTypes, Places
    <3>2. part.sinceRef <= T_RFC + 2
      BY <1>1, <3>1 DEF RefreshInTime
    <3> QED
      BY <1>1, <1>5, <2>1, <2>2, <3>2
  <2>6. CASE ctl.due /\ ctl.state \notin InitStates /\ ~Refreshes
    <3>1. far + 1 <= ctl.tmr + ToRefresh(ctl.state, ctl.idx)
      BY <2>6, RefreshComesNearer DEF far
    <3>2. ToRefresh(ctl.state, ctl.idx) \in Nat
      BY <1>1, <1>9
    <3>3. part.sinceRef + ctl.tmr + ToRefresh(ctl.state, ctl.idx) <= 2 * TRefi
      BY <2>6 DEF RefreshInTime
    <3> QED
      BY <1>1, <1>5, <2>1, <2>2, <3>1, <3>2, <3>3
  <2> QED
    BY <1>1, <2>3, <2>4, <2>5, <2>6
<1> QED
  BY <1>3, <1>6, <1>7, <1>8 DEF RefreshInTime, ToRefresh

-----------------------------------------------------------------------------
(* Every command is taken. *)

(* The invariant is inductive.                                              *)
LEMMA PartInvStep ==
  ASSUME PartInv, [Cycle]_sdramVars
  PROVE  PartInv'
<1>1. CASE Cycle
  <2>1. MasterTypes' /\ ControllerTypes'
    BY <1>1, MasterTypesAfter, ControllerTypesAfter DEF PartInv
  <2> QED
    BY <1>1, <2>1, PartTypesAfter, RowsAgreeAfter, ModeAgreesAfter, PipeAgreesAfter,
       AgesAfter, RefreshInTimeAfter DEF PartInv
<1>2. CASE UNCHANGED sdramVars
  <2>1. UNCHANGED <<mhz, ctl, part, wb>>
    BY <1>2 DEF sdramVars
  <2>2. MasterTypes => MasterTypes'
    BY <2>1 DEF MasterTypes
  <2>3. RegisterTypes => RegisterTypes'
    BY <2>1 DEF RegisterTypes
  <2>4. TimerIsShort => TimerIsShort'
    BY <2>1 DEF TimerIsShort, TimerMax, T_RP, T_RCD, T_RFC, Cycles
  <2>5. Places => Places'
    BY <2>1 DEF Places, RowOpenFor
  <2>6. PartTypes => PartTypes'
    BY <2>1 DEF PartTypes
  <2>7. RowsAgree => RowsAgree'
    BY <2>1 DEF RowsAgree
  <2>8. ModeAgrees => ModeAgrees'
    BY <2>1 DEF ModeAgrees
  <2>9. PipeAgrees => PipeAgrees'
    BY <2>1 DEF PipeAgrees
  <2>10. Ages => Ages'
    BY <2>1 DEF Ages, T_RP, Cycles
  <2>11. RefreshInTime => RefreshInTime'
    BY <2>1 DEF RefreshInTime, ToRefresh, T_RP, T_RCD, T_RFC, Cycles
  <2>12. NothingRefused => NothingRefused'
    BY <2>1 DEF NothingRefused
  <2> QED
    BY <2>2, <2>3, <2>4, <2>5, <2>6, <2>7, <2>8, <2>9, <2>10, <2>11, <2>12
       DEF PartInv, ControllerTypes
<1> QED
  BY <1>1, <1>2

(* The invariant holds at reset.                                            *)
LEMMA PartInvInit ==
  ASSUME SdramInit
  PROVE  PartInv
<1>1. /\ T_RP \in 1 .. 3 /\ T_RCD = T_RP /\ T_RFC \in 1 .. 9 /\ PowerUp \in Nat /\ TRefi \in Nat
      /\ T(mhz).rp \in 0 .. T_RP /\ T(mhz).rc \in Nat /\ T(mhz).mrd \in Nat /\ T(mhz).wr \in Nat
      /\ T(mhz).rfc \in 0 .. T_RFC /\ T(mhz).rfc <= PowerUp /\ TRefi >= 12 + 3 * T_RP
  BY Intervals, PartAssumption, SMTT(30) DEF SdramInit
<1>2. 0 \in BankIds /\ 0 \in RowIds
  BY PartAssumption DEF BankIds, RowIds
<1>3. ctl = [state |-> "INIT_WAIT", tmr |-> PowerUp, initRefs |-> 8, pins |-> Quiet,
             open |-> FALSE, openBank |-> 0, openRow |-> 0, rdata |-> <<>>, ack |-> FALSE,
             refi |-> TRefi, due |-> FALSE, req |-> NoRequest, idx |-> 0]
      /\ mhz \in Clocks /\ wb = Absent /\ part = PartReset(mhz)
  BY DEF SdramInit
<1>4. /\ part.open = [b \in BankIds |-> -1]
      /\ part.sinceAct = [b \in BankIds |-> T(mhz).rc]
      /\ part.sincePre = [b \in BankIds |-> T(mhz).rp]
      /\ part.sinceWrite = [b \in BankIds |-> T(mhz).wr]
      /\ part.sinceMrs = T(mhz).mrd /\ part.sinceRef = 0 /\ part.up = 0
      /\ part.cl = 0 /\ part.bl = 0 /\ part.pipe = <<>> /\ part.wrLeft = 0
      /\ part.wrBank = 0 /\ part.wrCol = 0 /\ part.faults = {} /\ IsPart(part)
  BY <1>3 DEF PartReset, BankIds, IsPart
<1>5. MasterTypes
  BY <1>3 DEF MasterTypes
<1>6. IsRequest(NoRequest)
  BY <1>2, SdramAssumption, PartAssumption DEF NoRequest, IsRequest
<1>7. RegisterTypes
  BY <1>1, <1>2, <1>3, <1>6 DEF RegisterTypes, IsController, States, InitStates
<1>8. TimerIsShort /\ Places
  BY <1>1, <1>3 DEF TimerIsShort, TimerMax, Places, InitStates, ReadStates, WriteStates
<1>9. PartTypes /\ RowsAgree /\ NothingRefused
  BY <1>1, <1>2, <1>3, <1>4 DEF PartTypes, RowsAgree, NothingRefused
<1>10. ModeAgrees
  BY <1>3, <1>4 DEF ModeAgrees
<1>11. PipeAgrees
  <2>1. HasLength(part.pipe, 0)
    BY <1>4, NothingIsEmpty
  <2>2. ctl.pins.oe = FALSE
    BY <1>3 DEF Quiet
  <2> QED
    BY <1>3, <2>1, <2>2 DEF PipeAgrees
<1>12. Ages
  <2>1. ToClose(ctl.state) = 1 /\ ctl.open = FALSE /\ ctl.tmr = PowerUp
        /\ ctl.state = "INIT_WAIT"
    BY <1>3 DEF ToClose
  <2>2. \A b \in BankIds : part.sincePre[b] + ctl.tmr + 1 >= T(mhz).rp
    BY <1>1, <1>4, <2>1
  <2>3. \A b \in BankIds : part.sinceWrite[b] + ctl.tmr + 1 >= T(mhz).wr
    BY <1>1, <1>4, <2>1
  <2>4. \A b \in BankIds : part.sinceAct[b] + (ctl.tmr + 1) >= T(mhz).rc
    BY <1>1, <1>4, <2>1
  <2>5. /\ part.sinceMrs + ctl.tmr + 1 >= T(mhz).mrd
        /\ part.sinceRef + ctl.tmr + 1 >= T(mhz).rfc /\ part.up + ctl.tmr >= PowerUp
    BY <1>1, <1>4, <2>1
  <2> QED
    BY <2>1, <2>2, <2>3, <2>4, <2>5 DEF Ages
<1>13. RefreshInTime
  BY <1>1, <1>3, <1>4 DEF RefreshInTime, InitStates
<1> QED
  BY <1>5, <1>7, <1>8, <1>9, <1>10, <1>11, <1>12, <1>13 DEF PartInv, ControllerTypes

(* The invariant says what the part is promised.                            *)
LEMMA PartInvSuffices ==
  ASSUME PartInv
  PROVE  PartIsObeyed
<1> USE DEF PartInv, ControllerTypes
<1>1. T_RP \in 1 .. 3 /\ T_RCD = T_RP /\ T_RFC \in 1 .. 9 /\ PowerUp \in Nat
  BY Intervals, PartAssumption DEF MasterTypes
<1>2. ctl.tmr \in 0 .. PowerUp + 10
  BY <1>1 DEF RegisterTypes, TimerIsShort, TimerMax
<1>3. \E n \in 0 .. 3 : HasLength(part.pipe, n)
  <2>1. ctl.tmr \in 0 .. 1 \/ ctl.state \notin {"READ_LO", "BR_LO"}
    BY DEF TimerIsShort, TimerMax, RegisterTypes
  <2> QED
    BY <2>1 DEF PipeAgrees
<1>4. Len(part.pipe) <= 8
  BY <1>3 DEF HasLength
<1>5. SdramTypeOK
  BY <1>2, <1>4 DEF SdramTypeOK, RegisterTypes, ModeAgrees, BankIds, RowIds
<1>6. RowTracked
  <2>1. /\ ctl.openBank \in BankIds /\ DOMAIN part.open = BankIds
        /\ \A b \in BankIds : part.open[b] = IF ctl.open /\ b = ctl.openBank THEN ctl.openRow ELSE -1
    BY DEF RowsAgree, RegisterTypes
  <2> QED
    BY <2>1 DEF RowTracked
<1>7. BusNotFought
  <2> SUFFICES ASSUME ctl.pins.oe PROVE ~Driving(part)
    BY DEF BusNotFought
  <2>1. HasLength(part.pipe, 0)
    BY DEF PipeAgrees
  <2> QED
    BY <2>1, NothingIsEmpty DEF Driving
<1> QED
  BY <1>5, <1>6, <1>7 DEF PartIsObeyed

(* The controller does nothing the part refuses, at any clock it derives    *)
(* its counts for and whatever the geometry: every interval is kept, no row *)
(* is opened twice or refreshed open, each refresh comes in time, and the   *)
(* controller and the part never drive the data bus at once.                *)
THEOREM SdramPartIsObeyed == SdramSpec => []PartIsObeyed
<1>1. SdramInit => PartInv
  BY PartInvInit
<1>2. PartInv /\ [Cycle]_sdramVars => PartInv'
  BY PartInvStep
<1>3. PartInv => PartIsObeyed
  BY PartInvSuffices
<1> QED
  BY <1>1, <1>2, <1>3, PTL DEF SdramSpec

-----------------------------------------------------------------------------
(* What the words are. *)

Pairs == [1 .. 2 -> Nat]
Transfer == {"ACTIVE", "PRECHARGE"} \cup ReadStates \cup WriteStates

(* A request is for a word that is where it says, and a store says of what. *)
IsPlaced(r) ==
  /\ r.w \in Nat /\ 2 * r.w + 1 \in Halfwords
  /\ FlatAddr(r.bank, r.row, r.col) = 2 * r.w
  /\ r.burst => 2 * r.w + 7 \in Halfwords
  /\ r.we => r.dat \in [1 .. 4 -> Nat] /\ r.sel \in [1 .. 4 -> BOOLEAN]

DataTypes ==
  /\ store \in [Halfwords -> Pairs] /\ shadow \in [Halfwords -> Pairs]
  /\ writes \in Nat /\ beat \in 0 .. 3
  /\ wb # Absent => IsPlaced(wb)

(* The request being served is the one the master holds, and the beat is    *)
(* the word of the line that is on its way or is being answered.            *)
ServesMaster ==
  /\ ctl.state \in Transfer \/ ctl.ack => wb # Absent /\ ctl.req = wb
  /\ ctl.ack => ctl.state \in {"IDLE", "BR_LO"}
  /\ beat = IF ctl.state \in {"BR_LO", "BR_HI"} THEN (IF ctl.ack THEN ctl.idx - 1 ELSE ctl.idx)
            ELSE IF ctl.ack THEN LastBeat ELSE 0
  /\ ctl.state \in {"READ_LO", "READ_HI"} => ctl.idx = 0 /\ ~ctl.req.burst

(* What the part stores is what the acknowledged writes have made of it,    *)
(* and the halves of the word being written.                                *)
LowWritten == ctl.state = "WRITE_HI" \/ (ctl.ack /\ ctl.req.we)
HighWritten == ctl.ack /\ ctl.req.we
Written(half) ==
  [k \in 1 .. 2 |-> IF ctl.req.sel[2 * half - 2 + k] THEN ctl.req.dat[2 * half - 2 + k]
                    ELSE shadow[2 * ctl.req.w + half - 1][k]]
StoreAgrees ==
  /\ \A i \in Halfwords :
       store[i] = IF LowWritten /\ i = 2 * ctl.req.w THEN Written(1)
                  ELSE IF HighWritten /\ i = 2 * ctl.req.w + 1 THEN Written(2)
                  ELSE shadow[i]
  /\ ctl.state = "WRITE_HI" =>
       part.wrBank = ctl.req.bank /\ part.wrCol = (ctl.req.col + 1) % Cols

(* The words of a read, on their way.                                       *)
Low(i) == store[2 * (ctl.req.w + i)]
High(i) == store[2 * (ctl.req.w + i) + 1]
ReadAgrees ==
  /\ ctl.state \in {"READ_LO", "BR_LO"} =>
       part.pipe[1 + ctl.tmr] = Low(ctl.idx) /\ part.pipe[2 + ctl.tmr] = High(ctl.idx)
  /\ ctl.state \in {"READ_HI", "BR_HI"} =>
       ctl.rdata = Low(ctl.idx) /\ part.pipe[1] = High(ctl.idx)
  /\ ctl.state = "BR_HI" /\ ctl.idx # 3 =>
       part.pipe[2] = Low(ctl.idx + 1) /\ part.pipe[3] = High(ctl.idx + 1)
  /\ ctl.ack /\ ~ctl.req.we => ctl.rdata = Low(beat) \o High(beat)

DataInv ==
  DataTypes /\ ServesMaster /\ StoreAgrees /\ ReadAgrees /\ CheckReadsQuiet


-----------------------------------------------------------------------------
(* Where a word's halves are, and what two of them make. *)

(* The columns of a row are one after the other.                            *)
LEMMA NextColumn ==
  ASSUME NEW r \in RowIds, NEW b \in BankIds, NEW c \in Nat, NEW k \in Nat
  PROVE  /\ FlatAddr(b, r, c + k) = FlatAddr(b, r, c) + k
         /\ FlatAddr(b, r, c) \in Nat
<1>1. (r * Banks + b) * Cols \in Nat
  BY PartAssumption DEF RowIds, BankIds
<1> DEFINE x == (r * Banks + b) * Cols
<1> HIDE DEF x
<1>2. FlatAddr(b, r, c + k) = x + (c + k) /\ FlatAddr(b, r, c) = x + c /\ x \in Nat
  BY <1>1 DEF FlatAddr, x
<1> QED
  BY <1>2

(* Two halfwords make a word of four bytes.                                 *)
LEMMA HalvesMakeAWord ==
  ASSUME NEW p \in Pairs, NEW q \in Pairs
  PROVE  p \o q = <<p[1], p[2], q[1], q[2]>> /\ p # <<>>
<1>1. ASSUME NEW f \in Pairs PROVE f \in Seq(Nat) /\ Len(f) = 2
  <2>1. f = [k \in 1 .. 2 |-> f[k]] /\ f \in [1 .. 2 -> Nat]
    BY DEF Pairs
  <2>2. [k \in 1 .. 2 |-> f[k]] \in Seq(Nat) /\ Len([k \in 1 .. 2 |-> f[k]]) = 2
    BY <2>1
  <2> QED
    BY <2>1, <2>2
<1>2. /\ p \o q \in Seq(Nat) /\ Len(p \o q) = 4
      /\ (p \o q)[1] = p[1] /\ (p \o q)[2] = p[2]
      /\ (p \o q)[3] = q[1] /\ (p \o q)[4] = q[2]
  <2>1. p \in Seq(Nat) /\ q \in Seq(Nat) /\ Len(p) = 2 /\ Len(q) = 2
    BY <1>1
  <2>2. /\ p \o q \in Seq(Nat) /\ Len(p \o q) = Len(p) + Len(q)
        /\ \A i \in 1 .. Len(p) + Len(q) :
             (p \o q)[i] = IF i <= Len(p) THEN p[i] ELSE q[i - Len(p)]
    BY <2>1, ConcatProperties
  <2> QED
    BY <2>1, <2>2
<1> DEFINE s == p \o q
<1> HIDE DEF s
<1>3. s \in Seq(Nat) /\ Len(s) = 4 => s = <<s[1], s[2], s[3], s[4]>>
  OBVIOUS
<1> QED
  BY <1>1, <1>2, <1>3 DEF s

(* What the master asks for is where it says.                               *)
LEMMA RequestsArePlaced ==
  ASSUME NEW n \in Nat, NEW r \in Reads \union Lines \union Stores(n)
  PROVE  IsPlaced(r)
<1>1. ASSUME NEW w \in Nat, 2 * w + 1 \in Halfwords, NEW we, NEW sel, NEW dat, NEW burst,
             burst => 2 * w + 7 \in Halfwords,
             we => dat \in [1 .. 4 -> Nat] /\ sel \in [1 .. 4 -> BOOLEAN]
      PROVE  IsPlaced(Request(w, we, sel, dat, burst))
  BY <1>1, WordIsPlaced DEF Request, IsPlaced
<1>2. CASE r \in Reads
  <2>1. PICK w \in Words : r = Request(w, FALSE, <<>>, <<>>, FALSE)
    BY <1>2 DEF Reads
  <2>2. w \in Nat /\ 2 * w + 1 \in Halfwords
    BY SdramAssumption
  <2> QED
    BY <1>1, <2>1, <2>2
<1>3. CASE r \in Lines
  <2>1. PICK w \in LineWords : r = Request(w, FALSE, <<>>, <<>>, TRUE)
    BY <1>3 DEF Lines
  <2>2. w \in Nat /\ 2 * w + 1 \in Halfwords /\ 2 * w + 7 \in Halfwords
    BY SdramAssumption, PartAssumption DEF Halfwords
  <2> QED
    BY <1>1, <2>1, <2>2
<1>4. CASE r \in Stores(n)
  <2>1. PICK w \in Words, sel \in Lanes :
          r = Request(w, TRUE, sel, [k \in 1 .. 4 |-> n], FALSE)
    BY <1>4 DEF Stores, Request
  <2>2. w \in Nat /\ 2 * w + 1 \in Halfwords /\ sel \in [1 .. 4 -> BOOLEAN]
    BY SdramAssumption
  <2>3. [k \in 1 .. 4 |-> n] \in [1 .. 4 -> Nat]
    OBVIOUS
  <2> QED
    BY <1>1, <2>1, <2>2, <2>3
<1> QED
  BY <1>2, <1>3, <1>4


-----------------------------------------------------------------------------
(* The request being served, and its beat. *)

(* An acknowledge is given for the high half of a word.                     *)
LEMMA AnswersWhen ==
  ASSUME ControllerTypes, Cycle
  PROVE  ctl'.ack <=> ctl.state \in {"READ_HI", "BR_HI", "WRITE_HI"}
<1> USE DEF ControllerTypes
<1>1. CASE ctl.tmr # 0
  <2>1. ctl'.ack = FALSE
    BY <1>1, ControllerWaits DEF AnswersNothing
  <2>2. ctl.state \notin {"READ_HI", "BR_HI", "WRITE_HI"}
    BY <1>1 DEF TimerIsShort, TimerMax, RegisterTypes
  <2> QED
    BY <2>1, <2>2
<1>2. CASE ctl.tmr = 0 /\ ctl.state \in InitStates \cup {"REFRESH"}
  <2>1. ctl'.ack = FALSE
    BY <1>2, ControllerRefreshes DEF AnswersNothing, InitStates
  <2> QED
    BY <1>2, <2>1 DEF InitStates
<1>3. CASE ctl.tmr = 0 /\ ctl.state \in {"IDLE", "ACTIVE", "PRECHARGE"}
  <2>1. ctl'.ack = FALSE
    BY <1>3, ControllerDecides DEF AnswersNothing
  <2> QED
    BY <1>3, <2>1
<1>4. CASE ctl.tmr = 0 /\ ctl.state \in ReadStates \cup WriteStates
  <2>1. /\ ctl.state \in {"READ_HI", "BR_HI", "WRITE_HI"} => ctl'.ack = TRUE
        /\ ctl.state \in {"READ", "READ_LO", "BR_LO", "WRITE_LO"} => ctl'.ack = FALSE
    BY <1>4, ControllerTransfers DEF AnswersNothing
  <2> QED
    BY <1>4, <2>1 DEF ReadStates, WriteStates
<1> QED
  BY <1>1, <1>2, <1>3, <1>4, WhichStep

(* The master holds its request as long as the controller serves it.        *)
LEMMA MasterHolds ==
  ASSUME PartInv, DataTypes, ServesMaster, Cycle
  PROVE  /\ ctl.state \in Transfer =>
              /\ wb' = wb
              /\ beat' = IF ctl.state \in {"BR_LO", "BR_HI"} THEN ctl.idx ELSE 0
         /\ ctl.state \notin Transfer => beat' = 0
         /\ ctl.state = "IDLE" /\ Asked => wb' = wb
<1>1. /\ ctl.ack \in BOOLEAN /\ ctl.idx \in 0 .. 3 /\ beat \in 0 .. 3
      /\ ctl.state \in {"BR_LO", "BR_HI"} => ctl.req.burst
  BY DEF PartInv, ControllerTypes, RegisterTypes, Places, DataTypes
<1>2. IF wb = Absent \/ Served THEN beat' = 0
      ELSE wb' = wb /\ beat' = IF ctl.ack THEN beat + 1 ELSE beat
  BY DEF Cycle, Master
<1>3. CASE ctl.state \in {"BR_LO", "BR_HI"}
  <2>1. wb # Absent /\ ctl.req = wb /\ LastBeat = 3
    BY <1>1, <1>3 DEF ServesMaster, Transfer, ReadStates, LastBeat
  <2>2. beat = IF ctl.ack THEN ctl.idx - 1 ELSE ctl.idx
    BY <1>3 DEF ServesMaster
  <2>3. ~Served
    BY <1>1, <2>1, <2>2 DEF Served
  <2> QED
    BY <1>1, <1>2, <1>3, <2>1, <2>2, <2>3 DEF Transfer, ReadStates
<1>4. CASE ctl.state \notin {"BR_LO", "BR_HI"} /\ ~ctl.ack
  <2>1. beat = 0 /\ ~Served
    BY <1>4 DEF ServesMaster, Served
  <2>2. ctl.state \in Transfer => wb # Absent
    BY DEF ServesMaster
  <2> QED
    BY <1>2, <1>4, <2>1, <2>2 DEF Asked
<1>5. CASE ctl.state \notin {"BR_LO", "BR_HI"} /\ ctl.ack
  <2>1. ctl.state = "IDLE" /\ beat = LastBeat
    BY <1>5 DEF ServesMaster
  <2>2. Served
    BY <1>5, <2>1 DEF Served
  <2> QED
    BY <1>2, <1>5, <2>1, <2>2 DEF Asked, Transfer, ReadStates, WriteStates
<1> QED
  BY <1>3, <1>4, <1>5

(* It serves what it has latched until the last acknowledge.                *)
LEMMA ServesMasterAfter ==
  ASSUME PartInv, DataTypes, ServesMaster, Cycle
  PROVE  ServesMaster'
<1> USE DEF PartInv, ControllerTypes
<1> DEFINE Bursting(s) == s \in {"BR_LO", "BR_HI"}
           Answering == ctl.state \in {"READ_HI", "BR_HI", "WRITE_HI"}
<1>1. (ctl'.ack <=> Answering) /\ ctl.tmr \in Nat /\ ctl.idx \in 0 .. 3
  BY AnswersWhen DEF RegisterTypes
<1>2. /\ ctl.state \in Transfer =>
           /\ wb' = wb /\ wb # Absent /\ ctl.req = wb
           /\ beat' = IF Bursting(ctl.state) THEN ctl.idx ELSE 0
      /\ ctl.state \notin Transfer => beat' = 0
      /\ ctl.state = "IDLE" /\ Asked => wb' = wb
  BY MasterHolds DEF ServesMaster
<1> SUFFICES /\ ctl'.state \in Transfer \/ Answering => wb' # Absent /\ ctl'.req = wb'
             /\ Answering => ctl'.state \in {"IDLE", "BR_LO"}
             /\ beat' = IF Bursting(ctl'.state)
                          THEN (IF Answering THEN ctl'.idx - 1 ELSE ctl'.idx)
                        ELSE IF Answering THEN LastBeat' ELSE 0
             /\ ctl'.state \in {"READ_LO", "READ_HI"} => ctl'.idx = 0 /\ ~ctl'.req.burst
  BY <1>1 DEF ServesMaster
<1>3. CASE ctl.tmr # 0
  <2>1. ctl'.state = ctl.state /\ ctl'.idx = ctl.idx /\ ctl'.req = ctl.req
    BY <1>3, ControllerWaits DEF Moves, KeepsRequest
  <2>2. ~Answering
    BY <1>3 DEF TimerIsShort, TimerMax, RegisterTypes
  <2>3. ctl.state \in {"READ_LO", "READ_HI"} => ctl.idx = 0 /\ ~ctl.req.burst
    BY DEF ServesMaster
  <2> QED
    BY <1>2, <2>1, <2>2, <2>3 DEF Transfer, ReadStates
<1>4. CASE ctl.tmr = 0 /\ ctl.state \in InitStates \cup {"REFRESH"}
  <2>1. ctl'.state \in InitStates \cup {"IDLE"}
    BY <1>4, ControllerRefreshes DEF Moves, InitStates
  <2> QED
    BY <1>2, <1>4, <2>1 DEF Transfer, InitStates, ReadStates, WriteStates
<1>5. CASE ctl.tmr = 0 /\ ctl.state = "IDLE"
  <2>1. CASE ~ctl.due /\ Asked
    <3>1. ctl'.state = "ACTIVE" /\ ctl'.req = [wb EXCEPT !.burst = BurstAsked(wb)]
      BY <1>5, <2>1, ControllerDecides DEF Moves
    <3>2. wb # Absent /\ IsRequest(wb)
      BY <2>1 DEF Asked, MasterTypes
    <3>3. BurstAsked(wb) = wb.burst
      BY <3>2 DEF IsRequest, BurstAsked
    <3>4. [wb EXCEPT !.burst = wb.burst] = wb
      BY <3>2 DEF IsRequest
    <3> QED
      BY <1>2, <1>5, <2>1, <3>1, <3>2, <3>3, <3>4 DEF Transfer, ReadStates, WriteStates
  <2>2. CASE ctl.due \/ ~Asked
    <3>1. ctl'.state \in {"REFRESH", "IDLE"}
      BY <1>5, <2>2, ControllerDecides DEF Moves
    <3> QED
      BY <1>2, <1>5, <3>1 DEF Transfer, ReadStates, WriteStates
  <2> QED
    BY <2>1, <2>2
<1>6. CASE ctl.tmr = 0 /\ ctl.state \in {"ACTIVE", "PRECHARGE"}
  <2>1. ctl'.state \in {"READ", "WRITE_LO", "PRECHARGE"} /\ ctl'.req = ctl.req
    BY <1>6, ControllerDecides DEF Moves, KeepsRequest, AccessState, RowHit
  <2> QED
    BY <1>2, <1>6, <2>1 DEF Transfer
<1>7. CASE ctl.tmr = 0 /\ ctl.state \in ReadStates \cup WriteStates
  <2>1. ctl.state \in Transfer /\ ctl'.req = ctl.req
    BY <1>7, ControllerTransfers DEF KeepsRequest, Transfer, ReadStates, WriteStates
  <2>2. CASE ctl.state \in {"READ", "READ_LO", "READ_HI"}
    <3>1. /\ ctl.state = "READ" =>
               ctl'.state = (IF ctl.req.burst THEN "BR_LO" ELSE "READ_LO") /\ ctl'.idx = 0
          /\ ctl.state = "READ_LO" => ctl'.state = "READ_HI" /\ ctl'.idx = ctl.idx
          /\ ctl.state = "READ_HI" => ctl'.state = "IDLE"
      BY <1>7, <2>2, ControllerTransfers DEF Moves, KeepsRequest
    <3>2. ctl.state \in {"READ_LO", "READ_HI"} => ctl.idx = 0 /\ ~ctl.req.burst
      BY DEF ServesMaster
    <3>3. ctl.state = "READ_HI" => LastBeat' = 0
      BY <1>2, <2>1, <3>2 DEF LastBeat
    <3> QED
      BY <1>2, <2>1, <2>2, <3>1, <3>2, <3>3
  <2>3. CASE ctl.state = "BR_LO"
    <3>1. ctl'.state = "BR_HI" /\ ctl'.idx = ctl.idx
      BY <1>7, <2>3, ControllerTransfers DEF Moves, KeepsRequest
    <3> QED
      BY <1>2, <2>1, <2>3, <3>1
  <2>4. CASE ctl.state = "BR_HI"
    <3>1. /\ ctl'.state = (IF ctl.idx = 3 THEN "IDLE" ELSE "BR_LO")
          /\ ctl'.idx = IF ctl.idx = 3 THEN 3 ELSE ctl.idx + 1
      BY <1>7, <2>4, ControllerTransfers DEF Moves
    <3>2. LastBeat' = 3
      BY <1>2, <2>1, <2>4 DEF LastBeat, Places
    <3> QED
      BY <1>1, <1>2, <2>1, <2>4, <3>1, <3>2
  <2>5. CASE ctl.state \in WriteStates
    <3>1. /\ ctl.state = "WRITE_LO" => ctl'.state = "WRITE_HI"
          /\ ctl.state = "WRITE_HI" => ctl'.state = "IDLE"
      BY <1>7, <2>5, ControllerTransfers DEF Moves, WriteStates
    <3>2. ~ctl.req.burst
      BY <2>5 DEF Places, RegisterTypes, IsRequest
    <3>3. LastBeat' = 0
      BY <1>2, <2>1, <3>2 DEF LastBeat
    <3> QED
      BY <1>2, <2>1, <2>5, <3>1, <3>3 DEF WriteStates
  <2> QED
    BY <1>7, <2>2, <2>3, <2>4, <2>5 DEF ReadStates
<1> QED
  BY <1>3, <1>4, <1>5, <1>6, <1>7, WhichStep


-----------------------------------------------------------------------------
(* What is stored. *)

(* The request being served is a word's of the part.                        *)
LEMMA ServedIsPlaced ==
  ASSUME DataTypes, ServesMaster, ctl.state \in Transfer \/ ctl.ack
  PROVE  /\ IsPlaced(ctl.req) /\ wb # Absent /\ ctl.req = wb
         /\ 2 * ctl.req.w \in Halfwords /\ 2 * ctl.req.w + 1 \in Halfwords
<1>1. IsPlaced(ctl.req) /\ wb # Absent /\ ctl.req = wb
  BY DEF DataTypes, ServesMaster
<1>2. ctl.req.w \in Nat /\ 2 * ctl.req.w + 1 \in Halfwords
  BY <1>1 DEF IsPlaced
<1>3. 2 * ctl.req.w \in Halfwords
  BY <1>2, PartAssumption DEF Halfwords
<1> QED
  BY <1>1, <1>2, <1>3

(* A half of the word, its bytes taken or left as the selects say.          *)
LEMMA HalfIsWritten ==
  ASSUME DataTypes, ServesMaster, ctl.state \in Transfer \/ ctl.ack, ctl.req.we,
         NEW half \in 1 .. 2
  PROVE  /\ Written(half) \in Pairs
         /\ \A c, pins : /\ c \in Halfwords /\ store[c] = shadow[2 * ctl.req.w + half - 1]
                         /\ pins.dq = Data(half).dq /\ pins.dqm = Data(half).dqm
                         => Stored(store, c, pins) = [store EXCEPT ![c] = Written(half)]
<1> DEFINE dat == ctl.req.dat
           sel == ctl.req.sel
           old == shadow[2 * ctl.req.w + half - 1]
           j == 2 * half - 1
<1>1. /\ dat \in [1 .. 4 -> Nat] /\ sel \in [1 .. 4 -> BOOLEAN] /\ old \in Pairs
      /\ j \in 1 .. 4 /\ j + 1 \in 1 .. 4 /\ j \in Nat
  <2>1. /\ IsPlaced(ctl.req) /\ 2 * ctl.req.w \in Halfwords /\ 2 * ctl.req.w + 1 \in Halfwords
    BY ServedIsPlaced
  <2>2. 2 * ctl.req.w + half - 1 \in Halfwords
    BY <2>1 DEF IsPlaced
  <2> QED
    BY <2>1, <2>2 DEF IsPlaced, DataTypes
<1>2. Written(half) = [k \in 1 .. 2 |-> IF sel[j - 1 + k] THEN dat[j - 1 + k] ELSE old[k]]
  BY DEF Written
<1>3. Data(half).dq = <<dat[j], dat[j + 1]>> /\ Data(half).dqm = Mask(<<sel[j], sel[j + 1]>>)
  BY DEF Data, Quiet
<1> HIDE DEF dat, sel, old, j
<1>4. \A k \in 1 .. 2 : /\ j - 1 + k \in 1 .. 4
                        /\ <<dat[j], dat[j + 1]>>[k] = dat[j - 1 + k]
                        /\ Mask(<<sel[j], sel[j + 1]>>)[k] = ~sel[j - 1 + k]
  <2>1. j - 1 + 1 = j /\ j - 1 + 2 = j + 1
    BY <1>1
  <2>2. \A k \in 1 .. 2 : k = 1 \/ k = 2
    OBVIOUS
  <2> QED
    BY <1>1, <2>1, <2>2 DEF Mask
<1>5. Written(half) \in Pairs
  <2>1. \A k \in 1 .. 2 : (IF sel[j - 1 + k] THEN dat[j - 1 + k] ELSE old[k]) \in Nat
    BY <1>1, <1>4 DEF Pairs
  <2> QED
    BY <1>2, <2>1 DEF Pairs
<1>6. ASSUME NEW c \in Halfwords, store[c] = old, NEW pins,
             pins.dq = Data(half).dq, pins.dqm = Data(half).dqm
      PROVE  Stored(store, c, pins) = [store EXCEPT ![c] = Written(half)]
  <2>1. Stored(store, c, pins) =
          [store EXCEPT ![c] = [k \in 1 .. 2 |-> IF pins.dqm[k] THEN old[k] ELSE pins.dq[k]]]
    BY <1>6 DEF Stored, DataTypes
  <2>2. \A k \in 1 .. 2 : (IF pins.dqm[k] THEN old[k] ELSE pins.dq[k])
                        = IF sel[j - 1 + k] THEN dat[j - 1 + k] ELSE old[k]
    BY <1>3, <1>4, <1>6
  <2>3. [k \in 1 .. 2 |-> IF pins.dqm[k] THEN old[k] ELSE pins.dq[k]] = Written(half)
    BY <1>2, <2>2
  <2> QED
    BY <2>1, <2>3
<1> QED
  BY <1>5, <1>6 DEF old

(* The acknowledge of a write is when the memory of the bus changes.        *)
LEMMA ShadowGoes ==
  ASSUME DataTypes, ServesMaster, Cycle
  PROVE  /\ ctl.ack /\ ctl.req.we =>
              /\ shadow' = [shadow EXCEPT ![2 * ctl.req.w] = Written(1),
                                          ![2 * ctl.req.w + 1] = Written(2)]
              /\ writes' = writes + 1
         /\ ~(ctl.ack /\ ctl.req.we) => shadow' = shadow /\ writes' = writes
<1>1. CASE ctl.ack /\ ctl.req.we
  <2>1. /\ IsPlaced(ctl.req) /\ wb # Absent /\ ctl.req = wb
        /\ 2 * wb.w \in Halfwords /\ 2 * wb.w + 1 \in Halfwords
    BY <1>1, ServedIsPlaced
  <2> DEFINE b == Merge(Bytes(wb.w), wb.dat, wb.sel)
  <2>2. /\ writes' = writes + 1
        /\ shadow' = [shadow EXCEPT ![2 * wb.w] = <<b[1], b[2]>>,
                                    ![2 * wb.w + 1] = <<b[3], b[4]>>]
    BY <1>1, <2>1 DEF Cycle, Shadow
  <2>3. \A k \in 1 .. 4 : b[k] = IF wb.sel[k] THEN wb.dat[k] ELSE Bytes(wb.w)[k]
    BY DEF Merge
  <2>4. /\ Bytes(wb.w)[1] = shadow[2 * wb.w][1] /\ Bytes(wb.w)[2] = shadow[2 * wb.w][2]
        /\ Bytes(wb.w)[3] = shadow[2 * wb.w + 1][1] /\ Bytes(wb.w)[4] = shadow[2 * wb.w + 1][2]
    BY DEF Bytes
  <2> HIDE DEF b
  <2>5. /\ Written(1)[1] = b[1] /\ Written(1)[2] = b[2]
        /\ Written(2)[1] = b[3] /\ Written(2)[2] = b[4]
    <3>1. 2 * wb.w + 1 - 1 = 2 * wb.w /\ 2 * wb.w + 2 - 1 = 2 * wb.w + 1
      BY <2>1 DEF IsPlaced
    <3>2. /\ Written(1) = [k \in 1 .. 2 |-> IF wb.sel[k] THEN wb.dat[k] ELSE shadow[2 * wb.w][k]]
          /\ Written(2) = [k \in 1 .. 2 |-> IF wb.sel[2 + k] THEN wb.dat[2 + k]
                                            ELSE shadow[2 * wb.w + 1][k]]
      BY <2>1, <3>1 DEF Written
    <3> QED
      BY <2>3, <2>4, <3>2
  <2>6. ASSUME NEW f \in Pairs PROVE f = <<f[1], f[2]>>
    BY <2>6 DEF Pairs
  <2>7. Written(1) \in Pairs /\ Written(2) \in Pairs
    BY <1>1, HalfIsWritten
  <2>8. Written(1) = <<b[1], b[2]>> /\ Written(2) = <<b[3], b[4]>>
    BY <2>5, <2>6, <2>7
  <2> QED
    BY <1>1, <2>1, <2>2, <2>8
<1>2. CASE ~(ctl.ack /\ ctl.req.we)
  <2>1. ctl.ack => ctl.req = wb
    BY DEF ServesMaster
  <2> QED
    BY <1>2, <2>1 DEF Cycle, Shadow
<1> QED
  BY <1>1, <1>2


(* What the part stores at an edge, and where it takes the rest of a write. *)
LEMMA StoreGoes ==
  ASSUME PartInv, DataTypes, ServesMaster, StoreAgrees, Cycle
  PROVE  /\ ctl.state = "WRITE_LO" /\ ctl.tmr = 0 =>
              /\ store' = Stored(store, 2 * ctl.req.w, ctl'.pins)
              /\ ctl'.pins.dq = Data(1).dq /\ ctl'.pins.dqm = Data(1).dqm
              /\ part'.wrBank = ctl.req.bank /\ part'.wrCol = (ctl.req.col + 1) % Cols
         /\ ctl.state = "WRITE_HI" =>
              /\ store' = Stored(store, 2 * ctl.req.w + 1, ctl'.pins)
              /\ ctl'.pins.dq = Data(2).dq /\ ctl'.pins.dqm = Data(2).dqm
         /\ ~(ctl.state = "WRITE_LO" /\ ctl.tmr = 0) /\ ctl.state # "WRITE_HI" => store' = store
<1> USE DEF PartInv, ControllerTypes
<1> DEFINE aged == Aged(part, mhz)
<1>1. store' = EdgeStore(aged, ctl'.pins, store)
  BY DEF Cycle
<1>2. aged.open = part.open /\ aged.wrLeft = part.wrLeft /\ aged.wrBank = part.wrBank
      /\ aged.wrCol = part.wrCol
  <2>1. IsPart(part)
    BY DEF PartTypes
  <2> QED
    BY <2>1 DEF IsPart, Aged
<1> HIDE DEF aged
<1>3. Rests \/ Precharges \/ Activates \/ Refreshes \/ SetsMode \/ ReadsWord \/ WritesWord
  BY Commands
<1>4. ctl.state \in WriteStates =>
        /\ part.open[ctl.req.bank] = ctl.req.row /\ ctl.req.row # -1
        /\ ctl.req.row \in RowIds /\ ctl.req.bank \in BankIds
        /\ ctl.req.col \in Nat /\ ctl.req.col + 2 <= Cols
  BY PartAssumption
     DEF RowsAgree, Places, RowOpenFor, RegisterTypes, IsRequest, WriteStates, RowIds
<1>5. ctl.state \in WriteStates =>
        /\ FlatAddr(ctl.req.bank, ctl.req.row, ctl.req.col) = 2 * ctl.req.w
        /\ FlatAddr(ctl.req.bank, ctl.req.row, ctl.req.col + 1) = 2 * ctl.req.w + 1
  <2> SUFFICES ASSUME ctl.state \in WriteStates
               PROVE  /\ FlatAddr(ctl.req.bank, ctl.req.row, ctl.req.col) = 2 * ctl.req.w
                      /\ FlatAddr(ctl.req.bank, ctl.req.row, ctl.req.col + 1) = 2 * ctl.req.w + 1
    OBVIOUS
  <2>1. IsPlaced(ctl.req)
    BY ServedIsPlaced DEF Transfer
  <2> QED
    BY <1>4, <2>1, NextColumn DEF IsPlaced
<1>6. CASE ctl.state = "WRITE_LO" /\ ctl.tmr = 0
  <2>1. ctl'.pins = WritingLow
    BY <1>6, ControllerTransfers DEF Moves
  <2>2. /\ WritingLow.cmd = "WRITE" /\ WritingLow.ba = ctl.req.bank /\ WritingLow.a = ctl.req.col
        /\ WritingLow.dq = Data(1).dq /\ WritingLow.dqm = Data(1).dqm
    BY DEF WritingLow, Data, Quiet
  <2>3. aged.wrLeft = 0
    BY <1>2, <1>6 DEF ModeAgrees
  <2>4. store' = Stored(store, 2 * ctl.req.w, ctl'.pins)
    BY <1>1, <1>2, <1>4, <1>5, <1>6, <2>1, <2>2, <2>3 DEF EdgeStore, WriteStates
  <2>5. part'.wrBank = ctl.req.bank /\ part'.wrCol = (ctl.req.col + 1) % Cols
    <3>1. part' = Commanded(Aging, ctl'.pins, store)
      BY <2>1, <2>2, NothingIsRefused, NeverLate, EdgeIs
    <3>2. IsPart(Aging)
      BY NothingIsRefused, AgingIs
    <3>3. part' = [Aging EXCEPT !.sinceWrite[ctl.req.bank] = 0, !.wrBank = ctl.req.bank,
                                !.wrCol = (ctl.req.col + 1) % Cols, !.wrLeft = Aging.bl - 1]
      BY <2>1, <2>2, <3>1 DEF Commanded
    <3> QED
      BY <3>2, <3>3 DEF IsPart
  <2> QED
    BY <1>6, <2>1, <2>2, <2>4, <2>5
<1>7. CASE ctl.state = "WRITE_HI"
  <2>1. ctl.tmr = 0
    BY <1>7 DEF TimerIsShort, TimerMax, RegisterTypes
  <2>2. ctl'.pins = Data(2)
    BY <1>7, <2>1, ControllerTransfers DEF Moves
  <2>3. Data(2).cmd = "NOP"
    BY DEF Data, Quiet
  <2>4. aged.wrLeft = 1
    BY <1>2, <1>7 DEF ModeAgrees
  <2>5. BurstCell(aged) = 2 * ctl.req.w + 1
    <3>1. part.wrBank = ctl.req.bank /\ part.wrCol = (ctl.req.col + 1) % Cols
      BY <1>7 DEF StoreAgrees
    <3>2. (ctl.req.col + 1) % Cols = ctl.req.col + 1
      <4>1. /\ Cols \in Nat \ {0} /\ ctl.req.col + 1 \in 0 .. Cols - 1 /\ ctl.req.col + 1 \in Nat
            /\ ctl.req.col + 1 = 0 * Cols + (ctl.req.col + 1)
        BY <1>4, <1>7, PartAssumption DEF WriteStates
      <4> QED
        BY <4>1, Quotient
    <3> QED
      BY <1>2, <1>4, <1>5, <1>7, <3>1, <3>2 DEF BurstCell, WriteStates
  <2> QED
    BY <1>1, <1>7, <2>2, <2>3, <2>4, <2>5 DEF EdgeStore
<1>8. CASE ~(ctl.state = "WRITE_LO" /\ ctl.tmr = 0) /\ ctl.state # "WRITE_HI"
  <2>1. ctl'.pins.cmd # "WRITE"
    BY <1>3, <1>8, PinsAre
       DEF Rests, Precharges, Activates, Refreshes, SetsMode, ReadsWord, WritesWord
  <2>2. aged.wrLeft = 0
    BY <1>2, <1>8 DEF ModeAgrees
  <2> QED
    BY <1>1, <1>8, <2>1, <2>2 DEF EdgeStore
<1> QED
  BY <1>6, <1>7, <1>8

(* When a write is under way after an edge.                                 *)
LEMMA WritesWhen ==
  ASSUME PartInv, DataTypes, ServesMaster, Cycle
  PROVE  /\ ctl'.state = "WRITE_HI" <=> ctl.state = "WRITE_LO" /\ ctl.tmr = 0
         /\ HighWritten' <=> ctl.state = "WRITE_HI"
         /\ ctl.state \in WriteStates => ~ctl.ack /\ ctl'.req = ctl.req /\ ctl.req.we
<1> USE DEF PartInv, ControllerTypes
<1>1. ctl.state = "WRITE_HI" => ctl.tmr = 0
  BY DEF TimerIsShort, TimerMax, RegisterTypes
<1>2. ctl'.state = "WRITE_HI" <=> ctl.state = "WRITE_LO" /\ ctl.tmr = 0
  <2>1. CASE ctl.tmr # 0
    BY <1>1, <2>1, ControllerWaits DEF Moves
  <2>2. CASE ctl.tmr = 0 /\ ctl.state \in InitStates \cup {"REFRESH"}
    BY <2>2, ControllerRefreshes DEF Moves, InitStates
  <2>3. CASE ctl.tmr = 0 /\ ctl.state \in {"IDLE", "ACTIVE", "PRECHARGE"}
    BY <2>3, ControllerDecides DEF Moves, AccessState, RowHit
  <2>4. CASE ctl.tmr = 0 /\ ctl.state \in ReadStates \cup WriteStates
    BY <2>4, ControllerTransfers DEF Moves, ReadStates, WriteStates
  <2> QED
    BY <2>1, <2>2, <2>3, <2>4, WhichStep
<1>3. ctl.state \in WriteStates => ~ctl.ack /\ ctl'.req = ctl.req /\ ctl.req.we
  <2>1. ctl.state \in WriteStates => ctl'.req = ctl.req
    BY ControllerWaits, ControllerTransfers DEF KeepsRequest, WriteStates
  <2>2. ctl.state \in WriteStates => ~ctl.ack /\ ctl.req.we
    BY DEF ServesMaster, Places, WriteStates
  <2> QED
    BY <2>1, <2>2
<1>4. ctl.state \in {"READ_HI", "BR_HI"} => ~ctl'.req.we
  <2>1. ctl.state \in {"READ_HI", "BR_HI"} => ctl'.req = ctl.req
    BY ControllerWaits, ControllerTransfers DEF KeepsRequest
  <2> QED
    BY <2>1 DEF Places, ReadStates
<1>5. ctl'.ack <=> ctl.state \in {"READ_HI", "BR_HI", "WRITE_HI"}
  BY AnswersWhen
<1> QED
  BY <1>2, <1>3, <1>4, <1>5 DEF HighWritten, WriteStates

(* The half a cycle of a write changes in the part's memory.                *)
LEMMA WriteChanges ==
  ASSUME PartInv, DataTypes, ServesMaster, StoreAgrees, Cycle
  PROVE  /\ ctl.state = "WRITE_LO" /\ ctl.tmr = 0 =>
              store' = [store EXCEPT ![2 * ctl.req.w] = Written(1)]
         /\ ctl.state = "WRITE_HI" =>
              store' = [store EXCEPT ![2 * ctl.req.w + 1] = Written(2)]
         /\ ctl.state \in WriteStates => Written(1) \in Pairs /\ Written(2) \in Pairs
<1>1. ctl.state \in WriteStates =>
        /\ ctl.req.we /\ ctl.state \in Transfer /\ ~HighWritten
        /\ ctl.req.w \in Nat /\ 2 * ctl.req.w \in Halfwords /\ 2 * ctl.req.w + 1 \in Halfwords
  BY WritesWhen, ServedIsPlaced DEF Transfer, HighWritten, IsPlaced
<1>2. ctl.state \in WriteStates => Written(1) \in Pairs /\ Written(2) \in Pairs
  BY <1>1, HalfIsWritten
<1>3. CASE ctl.state = "WRITE_LO" /\ ctl.tmr = 0
  <2>1. store[2 * ctl.req.w] = shadow[2 * ctl.req.w + 1 - 1]
    <3>1. ~LowWritten /\ ~HighWritten
      BY <1>1, <1>3 DEF LowWritten, HighWritten, WriteStates
    <3>2. 2 * ctl.req.w + 1 - 1 = 2 * ctl.req.w
      BY <1>1, <1>3 DEF WriteStates
    <3> QED
      BY <1>1, <1>3, <3>1, <3>2 DEF StoreAgrees, WriteStates
  <2>2. store' = [store EXCEPT ![2 * ctl.req.w] = Written(1)]
    BY <1>1, <1>3, <2>1, StoreGoes, HalfIsWritten DEF WriteStates
  <2> QED
    BY <1>2, <1>3, <2>2
<1>4. CASE ctl.state = "WRITE_HI"
  <2>1. store[2 * ctl.req.w + 1] = shadow[2 * ctl.req.w + 2 - 1]
    <3>1. 2 * ctl.req.w + 2 - 1 = 2 * ctl.req.w + 1 /\ 2 * ctl.req.w + 1 # 2 * ctl.req.w
      BY <1>1, <1>4 DEF WriteStates
    <3> QED
      BY <1>1, <1>4, <3>1 DEF StoreAgrees, WriteStates
  <2>2. store' = [store EXCEPT ![2 * ctl.req.w + 1] = Written(2)]
    BY <1>1, <1>4, <2>1, StoreGoes, HalfIsWritten DEF WriteStates
  <2> QED
    BY <1>2, <1>4, <2>2
<1> QED
  BY <1>2, <1>3, <1>4

(* The part's memory is the bus's, and what is being written.               *)
LEMMA StoreAgreesAfter ==
  ASSUME PartInv, DataTypes, ServesMaster, StoreAgrees, Cycle
  PROVE  StoreAgrees'
<1> DEFINE lo == 2 * ctl.req.w
           hi == 2 * ctl.req.w + 1
<1>1. store \in [Halfwords -> Pairs] /\ shadow \in [Halfwords -> Pairs]
  BY DEF DataTypes
<1>2. \A i \in Halfwords : store[i] = IF LowWritten /\ i = lo THEN Written(1)
                                      ELSE IF HighWritten /\ i = hi THEN Written(2)
                                      ELSE shadow[i]
  BY DEF StoreAgrees
<1>3. /\ ctl'.state = "WRITE_HI" <=> ctl.state = "WRITE_LO" /\ ctl.tmr = 0
      /\ HighWritten' <=> ctl.state = "WRITE_HI"
      /\ ctl.state \in WriteStates => ~ctl.ack /\ ctl'.req = ctl.req /\ ctl.req.we
  BY WritesWhen
<1>4. LowWritten' <=> ctl'.state = "WRITE_HI" \/ HighWritten'
  BY DEF LowWritten, HighWritten
<1>5. ctl'.req = ctl.req /\ shadow' = shadow =>
        Written(1)' = Written(1) /\ Written(2)' = Written(2)
  BY DEF Written
<1>6. ctl.state \in WriteStates => lo \in Halfwords /\ hi \in Halfwords /\ lo # hi
  <2>1. ctl.state \in WriteStates =>
          IsPlaced(ctl.req) /\ lo \in Halfwords /\ hi \in Halfwords
    BY ServedIsPlaced DEF Transfer
  <2> QED
    BY <2>1 DEF IsPlaced
<1>7. CASE ctl.state = "WRITE_LO" /\ ctl.tmr = 0
  <2>1. ~LowWritten /\ ~HighWritten /\ LowWritten' /\ ~HighWritten'
    BY <1>3, <1>4, <1>7 DEF LowWritten, HighWritten, WriteStates
  <2>2. \A i \in Halfwords : store[i] = shadow[i]
    BY <1>2, <2>1
  <2>3. part'.wrBank = ctl.req.bank /\ part'.wrCol = (ctl.req.col + 1) % Cols
    BY <1>7, StoreGoes
  <2>4. store' = [store EXCEPT ![lo] = Written(1)]
    BY <1>7, WriteChanges
  <2>5. shadow' = shadow /\ ctl'.req = ctl.req
    BY <1>3, <1>7, ShadowGoes DEF WriteStates
  <2> QED
    BY <1>1, <1>5, <2>1, <2>2, <2>3, <2>4, <2>5 DEF StoreAgrees, Halfwords
<1>8. CASE ctl.state = "WRITE_HI"
  <2>1. LowWritten /\ ~HighWritten /\ LowWritten' /\ HighWritten' /\ ctl'.state # "WRITE_HI"
    BY <1>3, <1>4, <1>8 DEF LowWritten, HighWritten, WriteStates
  <2>2. \A i \in Halfwords : store[i] = IF i = lo THEN Written(1) ELSE shadow[i]
    BY <1>2, <2>1
  <2>3. store' = [store EXCEPT ![hi] = Written(2)]
    BY <1>8, WriteChanges
  <2>4. shadow' = shadow /\ ctl'.req = ctl.req
    BY <1>3, <1>8, ShadowGoes DEF WriteStates
  <2> QED
    BY <1>1, <1>5, <1>6, <1>8, <2>1, <2>2, <2>3, <2>4 DEF StoreAgrees, Halfwords, WriteStates
<1>9. CASE ~(ctl.state = "WRITE_LO" /\ ctl.tmr = 0) /\ ctl.state # "WRITE_HI"
  <2>1. ~LowWritten' /\ ~HighWritten' /\ ctl'.state # "WRITE_HI"
    BY <1>3, <1>4, <1>9
  <2>2. store' = store
    BY <1>9, StoreGoes
  <2>3. LowWritten <=> HighWritten
    BY <1>9 DEF LowWritten, HighWritten
  <2>4. \A i \in Halfwords : store[i] = shadow'[i]
    <3>1. CASE HighWritten
      <4>1. shadow' = [shadow EXCEPT ![lo] = Written(1), ![hi] = Written(2)]
        BY <3>1, ShadowGoes DEF HighWritten
      <4>2. IsPlaced(ctl.req) /\ lo \in Halfwords /\ hi \in Halfwords
        BY <3>1, ServedIsPlaced DEF HighWritten
      <4>3. lo # hi
        BY <4>2 DEF IsPlaced
      <4> QED
        BY <1>1, <1>2, <2>3, <3>1, <4>1, <4>2, <4>3
    <3>2. CASE ~HighWritten
      <4>1. shadow' = shadow
        BY <3>2, ShadowGoes DEF HighWritten
      <4> QED
        BY <1>2, <2>3, <3>2, <4>1
    <3> QED
      BY <3>1, <3>2
  <2> QED
    BY <2>1, <2>2, <2>4 DEF StoreAgrees, Halfwords
<1> QED
  BY <1>7, <1>8, <1>9


-----------------------------------------------------------------------------
(* What is read. *)

(* A slot of the pipeline after a shift.                                    *)
LEMMA Shifted ==
  ASSUME NEW n \in 1 .. 3, HasLength(part.pipe, n), NEW i \in 1 .. n - 1
  PROVE  Left[i] = part.pipe[i + 1]
<1>1. PICK S : part.pipe \in Seq(S) /\ Len(part.pipe) = n
  BY DEF HasLength
<1>2. part.pipe # <<>>
  BY <1>1
<1>3. Tail(part.pipe)[i] = part.pipe[i + 1]
  BY <1>1, <1>2, HeadTailProperties
<1> QED
  BY <1>2, <1>3 DEF Left

(* A read's words take the two slots an edge out.                           *)
LEMMA Entered ==
  ASSUME NEW s, NEW n \in 0 .. 1, HasLength(s, n), NEW d, HasLength(d, 2)
  PROVE  LET p == Ahead(s, 1, d)
         IN  p[2] = d[1] /\ p[3] = d[2] /\ (n = 1 => p[1] = s[1])
<1>1. Len(s) = n /\ Len(d) = 2
  BY DEF HasLength
<1>2. Ahead(s, 1, d) = [i \in 1 .. 3 |->
        IF i > 1 /\ i <= 3 THEN d[i - 1] ELSE IF i <= n THEN s[i] ELSE <<>>]
  BY <1>1 DEF Ahead
<1> QED
  BY <1>2

(* The words a read command finds.                                          *)
LEMMA ReadFinds ==
  ASSUME PartInv, DataTypes, ServesMaster, Cycle, ReadsWord,
         NEW k \in 0 .. 3, ctl'.pins = Read(k),
         NEW n \in 0 .. 1, HasLength(Left, n)
  PROVE  /\ part'.pipe[2] = Low(k) /\ part'.pipe[3] = High(k)
         /\ n = 1 => part'.pipe[1] = Left[1]
<1> USE DEF PartInv, ControllerTypes
<1>1. ctl'.pins.cmd = "READ" /\ ctl'.pins.ba = ctl.req.bank /\ ctl'.pins.a = ctl.req.col + 2 * k
  BY PinsAre
<1>2. ctl.state \in ReadStates
  BY DEF ReadsWord, ReadStates
<1>3. /\ part.open[ctl.req.bank] = ctl.req.row /\ part.cl = 2 /\ part.bl = 2
      /\ ctl.req.row \in RowIds /\ ctl.req.bank \in BankIds /\ ctl.req.col \in Nat
  BY <1>2 DEF RowsAgree, Places, RowOpenFor, RegisterTypes, IsRequest, ModeAgrees, ReadStates
<1>4. Aging.open = part.open /\ Aging.cl = 2 /\ Aging.bl = 2 /\ Aging.pipe = Left /\ IsPart(Aging)
  BY <1>3, NothingIsRefused, AgingIs DEF Left
<1> DEFINE cell == FlatAddr(ctl.req.bank, ctl.req.row, ctl.req.col + 2 * k)
           d == [i \in 1 .. 2 |-> store[cell + i - 1]]
<1>5. part' = [Aging EXCEPT !.pipe = Ahead(Left, 1, d)]
  <2>1. part' = Commanded(Aging, ctl'.pins, store)
    BY <1>1, NothingIsRefused, NeverLate, EdgeIs
  <2> QED
    BY <1>1, <1>3, <1>4, <2>1 DEF Commanded
<1>6. cell = 2 * (ctl.req.w + k) /\ cell \in Nat
  <2>1. FlatAddr(ctl.req.bank, ctl.req.row, ctl.req.col) = 2 * ctl.req.w /\ ctl.req.w \in Nat
    BY <1>2, ServedIsPlaced DEF Transfer, IsPlaced
  <2>2. \A j \in Nat : FlatAddr(ctl.req.bank, ctl.req.row, ctl.req.col + j)
                        = FlatAddr(ctl.req.bank, ctl.req.row, ctl.req.col) + j
    BY <1>3, NextColumn
  <2>3. cell = 2 * ctl.req.w + 2 * k
    <3>1. 2 * k \in Nat
      OBVIOUS
    <3> QED
      BY <2>1, <2>2, <3>1
  <2> HIDE DEF cell
  <2> QED
    BY <2>1, <2>3
<1> HIDE DEF cell
<1>7. HasLength(d, 2) /\ d[1] = Low(k) /\ d[2] = High(k)
  <2> DEFINE e(i) == store[cell + i - 1]
             S == {e(i) : i \in 1 .. 2}
  <2>1. [i \in 1 .. 2 |-> e(i)] \in [1 .. 2 -> S]
    OBVIOUS
  <2>2. d = [i \in 1 .. 2 |-> e(i)]
    OBVIOUS
  <2>3. d[1] = store[cell] /\ d[2] = store[cell + 1]
    BY <1>6
  <2> HIDE DEF e, S, d
  <2>4. [i \in 1 .. 2 |-> e(i)] \in Seq(S) /\ Len([i \in 1 .. 2 |-> e(i)]) = 2
    BY <2>1
  <2> QED
    BY <1>6, <2>2, <2>3, <2>4 DEF HasLength, Low, High
<1> HIDE DEF d
<1>8. part'.pipe = Ahead(Left, 1, d)
  BY <1>4, <1>5 DEF IsPart
<1> QED
  BY <1>7, <1>8, Entered


(* The words of a request are words the part stores.                        *)
LEMMA WordsAreStored ==
  ASSUME DataTypes, ServesMaster, ctl.state \in Transfer \/ ctl.ack,
         NEW i \in 0 .. 3, i = 0 \/ ctl.req.burst
  PROVE  /\ 2 * (ctl.req.w + i) \in Halfwords /\ 2 * (ctl.req.w + i) + 1 \in Halfwords
         /\ Low(i) \in Pairs /\ High(i) \in Pairs /\ Low(i) # <<>> /\ High(i) # <<>>
<1> DEFINE N == Rows * Banks * Cols
<1>1. /\ ctl.req.w \in Nat /\ 2 * ctl.req.w + 1 \in Halfwords
      /\ ctl.req.burst => 2 * ctl.req.w + 7 \in Halfwords
  BY ServedIsPlaced DEF IsPlaced
<1>2. Halfwords = 0 .. N - 1 /\ N \in Nat
  BY PartAssumption DEF Halfwords
<1> HIDE DEF N
<1>3. 2 * (ctl.req.w + i) \in Halfwords /\ 2 * (ctl.req.w + i) + 1 \in Halfwords
  <2> DEFINE w == ctl.req.w
  <2>1. w \in Nat /\ 2 * w + 1 \in 0 .. N - 1 /\ (i # 0 => 2 * w + 7 \in 0 .. N - 1)
    BY <1>1, <1>2
  <2> HIDE DEF w
  <2>2. 2 * (w + i) \in 0 .. N - 1 /\ 2 * (w + i) + 1 \in 0 .. N - 1
    BY <1>2, <2>1
  <2> QED
    BY <1>2, <2>2 DEF w
<1>4. Low(i) \in Pairs /\ High(i) \in Pairs
  BY <1>3 DEF Low, High, DataTypes
<1> QED
  BY <1>3, <1>4, HalvesMakeAWord

(* The words of a read come to the controller, and are what it answers.     *)
LEMMA ReadAgreesAfter ==
  ASSUME PartInv, DataInv, Cycle
  PROVE  ReadAgrees'
<1> USE DEF PartInv, ControllerTypes
<1>1. DataTypes /\ ServesMaster /\ StoreAgrees /\ ReadAgrees
  BY DEF DataInv
<1>2. PipeGoes /\ ctl.tmr \in Nat /\ ctl.idx \in 0 .. 3
  BY PartAfter DEF PartGrows, RegisterTypes
<1>3. ctl'.ack <=> ctl.state \in {"READ_HI", "BR_HI", "WRITE_HI"}
  BY AnswersWhen
<1>4. ctl.state \in ReadStates => store' = store /\ ctl'.req = ctl.req
  <2>1. ctl.state \in ReadStates => store' = store
    BY <1>1, StoreGoes DEF ReadStates
  <2>2. ctl.state \in ReadStates => ctl'.req = ctl.req
    BY ControllerWaits, ControllerTransfers DEF KeepsRequest, ReadStates
  <2> QED
    BY <2>1, <2>2
<1>5. ctl.state \in ReadStates /\ ctl'.pins.cmd # "READ" => part'.pipe = Left
  BY <1>2 DEF PipeGoes, Cmd
<1>6. ctl.state \in ReadStates => \A i \in 0 .. 4 :
        /\ Low(i)' = store[2 * (ctl.req.w + i)] /\ High(i)' = store[2 * (ctl.req.w + i) + 1]
        /\ Low(i) = store[2 * (ctl.req.w + i)] /\ High(i) = store[2 * (ctl.req.w + i) + 1]
  BY <1>4 DEF Low, High
<1>7. Quiet.cmd # "READ"
  BY DEF Quiet
<1>8. CASE ctl.state \notin ReadStates
  <2>1. ctl'.state \notin {"READ_LO", "READ_HI", "BR_LO", "BR_HI"}
    <3>1. CASE ctl.tmr # 0
      BY <1>8, <3>1, ControllerWaits DEF Moves, ReadStates
    <3>2. CASE ctl.tmr = 0 /\ ctl.state \in InitStates \cup {"REFRESH"}
      BY <3>2, ControllerRefreshes DEF Moves, InitStates
    <3>3. CASE ctl.tmr = 0 /\ ctl.state \in {"IDLE", "ACTIVE", "PRECHARGE"}
      BY <3>3, ControllerDecides DEF Moves, AccessState, RowHit
    <3>4. CASE ctl.tmr = 0 /\ ctl.state \in WriteStates
      BY <3>4, ControllerTransfers DEF Moves, WriteStates
    <3> QED
      BY <1>8, <3>1, <3>2, <3>3, <3>4, WhichStep
  <2>2. ctl'.ack => ctl'.req.we
    BY <1>1, <1>3, <1>8, WritesWhen DEF ReadStates, WriteStates
  <2> QED
    BY <2>1, <2>2 DEF ReadAgrees
<1>9. CASE ctl.state = "READ"
  <2>1. CASE ctl.tmr # 0
    <3>1. ctl'.state = "READ"
      BY <1>9, <2>1, ControllerWaits DEF Moves
    <3> QED
      BY <1>3, <1>9, <3>1 DEF ReadAgrees
  <2>2. CASE ctl.tmr = 0
    <3>1. /\ ctl'.state \in {"READ_LO", "BR_LO"} /\ ctl'.tmr = 1 /\ ctl'.idx = 0
          /\ ctl'.pins = Read(0)
      BY <1>9, <2>2, ControllerTransfers DEF Moves
    <3>2. ReadsWord
      BY <1>9, <2>2, <3>1, Commands, PinsAre
         DEF Rests, Precharges, Activates, Refreshes, SetsMode, WritesWord
    <3>3. HasLength(Left, 0)
      <4>1. HasLength(part.pipe, 0)
        BY <1>9 DEF PipeAgrees
      <4> QED
        BY <4>1, NothingIsEmpty DEF Left
    <3>4. part'.pipe[2] = Low(0) /\ part'.pipe[3] = High(0)
      BY <1>1, <3>1, <3>2, <3>3, ReadFinds
    <3> QED
      BY <1>3, <1>6, <1>9, <3>1, <3>4 DEF ReadAgrees, ReadStates
  <2> QED
    BY <1>2, <2>1, <2>2
<1>10. CASE ctl.state \in {"READ_LO", "BR_LO"} /\ ctl.tmr # 0
  <2>1. ctl'.state = ctl.state /\ ctl'.tmr = ctl.tmr - 1 /\ ctl'.idx = ctl.idx /\ ctl'.pins = Quiet
    BY <1>10, ControllerWaits DEF Moves, KeepsRequest
  <2>2. ctl.tmr = 1
    BY <1>2, <1>10 DEF TimerIsShort, TimerMax
  <2>3. HasLength(part.pipe, 3)
    BY <1>10, <2>2 DEF PipeAgrees
  <2>4. Left[1] = part.pipe[2] /\ Left[2] = part.pipe[3]
    BY <2>3, Shifted
  <2>5. part'.pipe[1] = Low(ctl.idx) /\ part'.pipe[2] = High(ctl.idx)
    BY <1>1, <1>5, <1>7, <1>10, <2>1, <2>2, <2>4 DEF ReadAgrees, ReadStates
  <2> QED
    BY <1>2, <1>3, <1>6, <1>10, <2>1, <2>2, <2>5 DEF ReadAgrees, ReadStates
<1>11. CASE ctl.state \in {"READ_LO", "BR_LO"} /\ ctl.tmr = 0
  <2>1. part.pipe[1] = Low(ctl.idx) /\ part.pipe[2] = High(ctl.idx) /\ HasLength(part.pipe, 2)
    BY <1>1, <1>11 DEF ReadAgrees, PipeAgrees
  <2>2. Left[1] = High(ctl.idx) /\ HasLength(Left, 1)
    <3>1. Left[1] = part.pipe[2]
      BY <2>1, Shifted
    <3>2. part.pipe # <<>> /\ HasLength(Tail(part.pipe), 1)
      <4>1. 2 \in Nat \ {0} /\ 2 - 1 = 1
        OBVIOUS
      <4> QED
        BY <2>1, <4>1, TailIsShorter
    <3> QED
      BY <2>1, <3>1, <3>2 DEF Left
  <2>3. Dq = Low(ctl.idx)
    <3>1. ctl.state = "READ_LO" => ctl.idx = 0
      BY <1>1 DEF ServesMaster
    <3>2. Low(ctl.idx) # <<>>
      BY <1>1, <1>2, <1>11, <3>1, WordsAreStored DEF Places, Transfer, ReadStates
    <3>3. part.pipe # <<>>
      BY <2>1, TailIsShorter
    <3> QED
      BY <2>1, <3>2, <3>3 DEF Dq, Driving
  <2>4. /\ ctl'.state = (IF ctl.state = "READ_LO" THEN "READ_HI" ELSE "BR_HI")
        /\ ctl'.idx = ctl.idx /\ ctl'.rdata = Dq /\ ctl'.tmr = 0
        /\ ctl'.pins = IF ctl.state = "BR_LO" /\ ctl.idx # 3 THEN Read(ctl.idx + 1) ELSE Quiet
    BY <1>11, ControllerTransfers DEF Moves, KeepsRequest
  <2>5. CASE ctl.state = "BR_LO" /\ ctl.idx # 3
    <3>1. ctl'.pins = Read(ctl.idx + 1) /\ ctl'.state = "BR_HI" /\ ctl.idx + 1 \in 0 .. 3
      BY <1>2, <2>4, <2>5
    <3>2. ReadsWord
      BY <3>1, Commands, PinsAre DEF Rests, Precharges, Activates, Refreshes, SetsMode, WritesWord
    <3>3. /\ part'.pipe[2] = Low(ctl.idx + 1) /\ part'.pipe[3] = High(ctl.idx + 1)
          /\ part'.pipe[1] = Left[1]
      BY <1>1, <2>2, <3>1, <3>2, ReadFinds
    <3> QED
      BY <1>2, <1>3, <1>6, <1>11, <2>2, <2>3, <2>4, <3>1, <3>3 DEF ReadAgrees, ReadStates
  <2>6. CASE ~(ctl.state = "BR_LO" /\ ctl.idx # 3)
    <3>1. part'.pipe = Left
      BY <1>5, <1>7, <1>11, <2>4, <2>6 DEF ReadStates
    <3> QED
      BY <1>2, <1>3, <1>6, <1>11, <2>2, <2>3, <2>4, <2>6, <3>1 DEF ReadAgrees, ReadStates
  <2> QED
    BY <2>5, <2>6
<1>12. CASE ctl.state \in {"READ_HI", "BR_HI"}
  <2>1. ctl.tmr = 0
    BY <1>2, <1>12 DEF TimerIsShort, TimerMax
  <2>2. /\ ctl'.state = (IF ctl.state = "BR_HI" /\ ctl.idx # 3 THEN "BR_LO" ELSE "IDLE")
        /\ ctl'.rdata = ctl.rdata \o Dq /\ ctl'.tmr = 0 /\ ctl'.pins = Quiet
        /\ ctl.state = "BR_HI" /\ ctl.idx # 3 => ctl'.idx = ctl.idx + 1
    BY <1>12, <2>1, ControllerTransfers DEF Moves, KeepsRequest
  <2>3. ctl.rdata = Low(ctl.idx) /\ part.pipe[1] = High(ctl.idx)
    BY <1>1, <1>12 DEF ReadAgrees
  <2>4. Dq = High(ctl.idx)
    <3>1. ctl.state = "READ_HI" => ctl.idx = 0
      BY <1>1 DEF ServesMaster
    <3>2. High(ctl.idx) # <<>>
      BY <1>1, <1>2, <1>12, <3>1, WordsAreStored DEF Places, Transfer, ReadStates
    <3>3. part.pipe # <<>>
      <4>1. HasLength(part.pipe, 1) \/ HasLength(part.pipe, 3)
        BY <1>12 DEF PipeAgrees
      <4> QED
        BY <4>1, TailIsShorter
    <3> QED
      BY <2>3, <3>2, <3>3 DEF Dq, Driving
  <2>5. beat' = ctl.idx
    <3>1. beat' = IF ctl.state = "BR_HI" THEN ctl.idx ELSE 0
      BY <1>1, <1>12, MasterHolds DEF Transfer, ReadStates
    <3>2. ctl.state = "READ_HI" => ctl.idx = 0
      BY <1>1 DEF ServesMaster
    <3> QED
      BY <1>12, <3>1, <3>2
  <2>6. ctl'.rdata = Low(beat)' \o High(beat)'
    <3>1. Low(beat)' = Low(ctl.idx) /\ High(beat)' = High(ctl.idx)
      BY <1>4, <1>12, <2>5 DEF Low, High, ReadStates
    <3> QED
      BY <2>2, <2>3, <2>4, <3>1
  <2>7. ctl'.state = "BR_LO" =>
          part'.pipe[1] = Low(ctl.idx)' /\ part'.pipe[2] = High(ctl.idx)'
    <3> SUFFICES ASSUME ctl.state = "BR_HI", ctl.idx # 3
                 PROVE  part'.pipe[1] = Low(ctl.idx)' /\ part'.pipe[2] = High(ctl.idx)'
      BY <1>12, <2>2
    <3>1. part.pipe[2] = Low(ctl.idx + 1) /\ part.pipe[3] = High(ctl.idx + 1)
          /\ HasLength(part.pipe, 3)
      BY <1>1 DEF ReadAgrees, PipeAgrees
    <3>2. Left[1] = part.pipe[2] /\ Left[2] = part.pipe[3]
      BY <3>1, Shifted
    <3>3. part'.pipe = Left
      BY <1>5, <1>7, <1>12, <2>2 DEF ReadStates
    <3>4. Low(ctl.idx)' = Low(ctl.idx + 1) /\ High(ctl.idx)' = High(ctl.idx + 1)
      BY <1>4, <1>12, <2>2 DEF Low, High, ReadStates
    <3> QED
      BY <3>1, <3>2, <3>3, <3>4
  <2> QED
    BY <2>2, <2>6, <2>7 DEF ReadAgrees
<1> QED
  BY <1>8, <1>9, <1>10, <1>11, <1>12 DEF ReadStates


-----------------------------------------------------------------------------
(* Every answer is right. *)

(* What is written and stored are bytes, and requests are for stored words. *)
LEMMA DataTypesAfter ==
  ASSUME PartInv, DataInv, Cycle
  PROVE  DataTypes'
<1>1. DataTypes /\ ServesMaster /\ StoreAgrees
  BY DEF DataInv
<1>2. /\ store \in [Halfwords -> Pairs] /\ shadow \in [Halfwords -> Pairs] /\ writes \in Nat
      /\ beat \in 0 .. 3 /\ (wb # Absent => IsPlaced(wb))
  BY <1>1 DEF DataTypes
<1>3. ctl.state \in WriteStates => ctl.req.we
  BY DEF PartInv, ControllerTypes, Places
<1>4. shadow' \in [Halfwords -> Pairs] /\ writes' \in Nat
  <2>1. CASE ctl.ack /\ ctl.req.we
    <3>1. Written(1) \in Pairs /\ Written(2) \in Pairs
      BY <1>1, <2>1, HalfIsWritten
    <3> QED
      BY <1>1, <1>2, <2>1, <3>1, ShadowGoes
  <2>2. CASE ~(ctl.ack /\ ctl.req.we)
    BY <1>1, <1>2, <2>2, ShadowGoes
  <2> QED
    BY <2>1, <2>2
<1>5. store' \in [Halfwords -> Pairs]
  <2>1. CASE ~(ctl.state = "WRITE_LO" /\ ctl.tmr = 0) /\ ctl.state # "WRITE_HI"
    BY <1>1, <1>2, <2>1, StoreGoes
  <2>2. CASE ctl.state = "WRITE_LO" /\ ctl.tmr = 0
    <3>1. Written(1) \in Pairs /\ store' = [store EXCEPT ![2 * ctl.req.w] = Written(1)]
      BY <1>1, <2>2, WriteChanges DEF WriteStates
    <3> QED
      BY <1>2, <3>1
  <2>3. CASE ctl.state = "WRITE_HI"
    <3>1. Written(2) \in Pairs /\ store' = [store EXCEPT ![2 * ctl.req.w + 1] = Written(2)]
      BY <1>1, <2>3, WriteChanges DEF WriteStates
    <3> QED
      BY <1>2, <3>1
  <2> QED
    BY <2>1, <2>2, <2>3
<1>6. beat' \in 0 .. 3
  BY <1>1, MasterHolds DEF PartInv, ControllerTypes, RegisterTypes
<1>7. wb' # Absent => IsPlaced(wb')
  <2>1. wb' = wb \/ wb' = Absent \/ wb' \in Reads \union Lines \union Stores(writes' + 1)
    BY DEF Cycle, Master, Choices
  <2>2. writes' + 1 \in Nat
    <3>1. \A n \in Nat : n + 1 \in Nat
      OBVIOUS
    <3> QED
      BY <1>4, <3>1, Zenon
  <2>3. ASSUME NEW n \in Nat, NEW r \in Reads \union Lines \union Stores(n)
        PROVE  IsPlaced(r)
    BY RequestsArePlaced
  <2>4. wb' \in Reads \union Lines \union Stores(writes' + 1) => IsPlaced(wb')
    BY <2>2, <2>3
  <2> QED
    BY <1>2, <2>1, <2>4
<1> QED
  BY <1>4, <1>5, <1>6, <1>7 DEF DataTypes, IsPlaced, FlatAddr, Halfwords

(* Which word of the request an acknowledge is for.                         *)
LEMMA ReadsInPlace ==
  ASSUME PartInv, DataTypes, ServesMaster, ctl.ack
  PROVE  ctl.req = wb /\ ReadAdr = wb.w + beat /\ beat \in 0 .. 3 /\ (beat = 0 \/ wb.burst)
<1>1. ctl.req = wb /\ wb # Absent /\ ctl.state \in {"IDLE", "BR_LO"} /\ beat \in 0 .. 3
  BY DEF ServesMaster, DataTypes
<1>2. wb.w \in Nat
  BY <1>1 DEF DataTypes, IsPlaced
<1>3. ctl.state = "BR_LO" => wb.burst
  BY <1>1 DEF PartInv, ControllerTypes, Places
<1>4. ctl.state = "IDLE" => beat = LastBeat
  BY <1>1 DEF ServesMaster
<1>5. beat = 0 \/ wb.burst
  BY <1>1, <1>3, <1>4 DEF LastBeat
<1> QED
  BY <1>1, <1>2, <1>5 DEF ReadAdr

(* The invariants of the commands and of the words, together.               *)
LEMMA DataInvStep ==
  ASSUME PartInv, DataInv, [Cycle]_sdramVars
  PROVE  DataInv'
<1>1. CASE Cycle
  <2>1. DataTypes /\ ServesMaster /\ StoreAgrees /\ ReadAgrees /\ CheckReadsQuiet
    BY DEF DataInv
  <2>2. CheckReadsQuiet'
    <3>1. ctl.ack /\ ~ctl.req.we => ctl.req = wb /\ ctl.rdata = Low(beat) \o High(beat)
      BY <2>1 DEF ReadAgrees, ServesMaster
    <3>2. ctl.ack => ctl.req = wb /\ ReadAdr = wb.w + beat
      BY <2>1, ReadsInPlace
    <3>3. ctl.ack /\ ~wb.we => ctl.rdata = store[2 * ReadAdr] \o store[2 * ReadAdr + 1]
      BY <3>1, <3>2 DEF Low, High
    <3> QED
      BY <1>1, <2>1, <3>3 DEF Cycle, CheckReads, CheckReadsQuiet
  <2> QED
    BY <1>1, <2>1, <2>2, DataTypesAfter, ServesMasterAfter, StoreAgreesAfter, ReadAgreesAfter
       DEF DataInv
<1>2. CASE UNCHANGED sdramVars
  BY <1>2, ZenonT(60)
     DEF sdramVars, DataInv, DataTypes, IsPlaced, ServesMaster, LastBeat, StoreAgrees,
         LowWritten, HighWritten, Written, ReadAgrees, Low, High, CheckReadsQuiet
<1> QED
  BY <1>1, <1>2

(* At reset nothing is stored or asked for.                                 *)
LEMMA DataInvInit ==
  ASSUME SdramInit
  PROVE  DataInv
<1>1. /\ ctl.state = "INIT_WAIT" /\ ctl.ack = FALSE /\ wb = Absent /\ beat = 0 /\ writes = 0
      /\ store = [i \in Halfwords |-> Erased] /\ shadow = store /\ flagged = FALSE
  BY DEF SdramInit
<1>2. Erased \in Pairs
  BY DEF Erased, Pairs
<1>3. DataTypes
  BY <1>1, <1>2 DEF DataTypes
<1>4. ServesMaster
  BY <1>1 DEF ServesMaster, Transfer, ReadStates, WriteStates
<1>5. StoreAgrees /\ ReadAgrees /\ CheckReadsQuiet
  BY <1>1 DEF StoreAgrees, LowWritten, HighWritten, ReadAgrees, CheckReadsQuiet
<1> QED
  BY <1>3, <1>4, <1>5 DEF DataInv

(* What the invariants say of an acknowledge.                               *)
LEMMA DataInvSuffices ==
  ASSUME PartInv, DataInv
  PROVE  BusIsAnswered
<1>1. DataTypes /\ ServesMaster /\ StoreAgrees /\ ReadAgrees /\ CheckReadsQuiet
  BY DEF DataInv
<1>2. AcksAreAsked
  BY <1>1 DEF AcksAreAsked, ServesMaster
<1>3. ReadsLastWrite
  <2> SUFFICES ASSUME ctl.ack, ~wb.we PROVE ctl.rdata = Bytes(ReadAdr)
    BY DEF ReadsLastWrite
  <2>1. ctl.req = wb /\ ReadAdr = wb.w + beat /\ beat \in 0 .. 3 /\ (beat = 0 \/ wb.burst)
    BY <1>1, ReadsInPlace
  <2>2. ctl.rdata = Low(beat) \o High(beat)
    BY <1>1, <2>1 DEF ReadAgrees
  <2>3. /\ 2 * ReadAdr \in Halfwords /\ 2 * ReadAdr + 1 \in Halfwords
        /\ Low(beat) = store[2 * ReadAdr] /\ High(beat) = store[2 * ReadAdr + 1]
        /\ Low(beat) \in Pairs /\ High(beat) \in Pairs
    BY <1>1, <2>1, WordsAreStored DEF Low, High
  <2>4. ~LowWritten /\ ~HighWritten
    BY <1>1, <2>1 DEF LowWritten, HighWritten, ServesMaster
  <2>5. Low(beat) = shadow[2 * ReadAdr] /\ High(beat) = shadow[2 * ReadAdr + 1]
    BY <1>1, <2>3, <2>4 DEF StoreAgrees
  <2> QED
    BY <2>2, <2>3, <2>5, HalvesMakeAWord DEF Bytes
<1> QED
  BY <1>1, <1>2, <1>3 DEF BusIsAnswered

(* Whatever the geometry, the clock and the requests: each acknowledge      *)
(* belongs to the request the master holds, each word of a read is what the *)
(* acknowledged writes have left there, byte by byte, and the harness's     *)
(* check of reads is quiet.                                                 *)
THEOREM SdramBusIsAnswered == SdramSpec => []BusIsAnswered
<1>1. SdramInit => PartInv /\ DataInv
  BY PartInvInit, DataInvInit
<1>2. PartInv /\ DataInv /\ [Cycle]_sdramVars => (PartInv /\ DataInv)'
  BY PartInvStep, DataInvStep
<1>3. PartInv /\ DataInv => BusIsAnswered
  BY DataInvSuffices
<1> QED
  BY <1>1, <1>2, <1>3, PTL DEF SdramSpec
=============================================================================
