------------------------------ MODULE HartData ------------------------------
(***************************************************************************)
(* The data side of the harts: the MEM stage of the in-order core          *)
(* (rtl/cpu_core.v: the phases of an AMO and the LR/SC reservation), its   *)
(* bus adapter and data cache (rtl/soc/cpu_wb.v), and the monitor that     *)
(* lets one hart's store kill another's reservation                        *)
(* (rtl/soc/reservation_monitor.v).                                        *)
(*                                                                         *)
(* What a word holds is its version (see NocXbar): a write on a word of    *)
(* version n makes version n + 1, and its ack tells the writer which it    *)
(* made.  The fabric's answers are parameters of the clock edge: ack[h] is *)
(* the version that hart h's access is acked with in this cycle, or None,  *)
(* and snooped[h] the addresses of the others' writes that its cache sees. *)
(***************************************************************************)
EXTENDS Naturals, FiniteSets

CONSTANTS
  NumHarts,
  Words,      \* the addresses
  IdxOf,      \* IdxOf[a]: the cache entry that word a uses
  Builds,     \* what may be built and run: [caching, late, access]
  MaxWrites,  \* writing accesses begun altogether (bound)
  None

AllKinds == {"load", "store", "byte", "lr", "sc", "amo"}
Harts == 0 .. NumHarts - 1
Entries == {IdxOf[a] : a \in Words}

ASSUME BoundsAssumption == NumHarts \in Nat /\ MaxWrites \in Nat

ASSUME AccessAssumption ==
  \A b \in Builds :
    /\ b.access \subseteq [kind : AllKinds, adr : Words]
    /\ b.caching \in BOOLEAN
    /\ b.late \in BOOLEAN

ASSUME NoWordAssumption == None \notin Nat \cup Words \cup [kind : AllKinds, adr : Words]

IsAmo(acc) == acc.kind \in {"lr", "sc", "amo"}      \* is_amo covers all three
IsStore(acc) == acc.kind \in {"store", "byte"}      \* ex_mem_mem_we

VARIABLES
  build,    \* the build and its program: one of Builds, for good
  acc,      \* acc[h]: the access in hart h's MEM stage, or None
  wr,       \* wr[h]: it is in its write phase (amo_wr_phase)
  old,      \* old[h]: the version its read phase returned (amo_rdata_q)
  pend,     \* pend[h]: dc_pending
  hit,      \* hit[h]: dc_hit_latched
  line,     \* line[h][x]: the word and version in cache entry x (dc_tag, dc_data)
  valid,    \* valid[h]: the entries that count (dc_valid)
  poison,   \* poison[h]: dc_poison
  resv,     \* resv[h]: the reserved address, or None (reservation_valid, _addr)
  \* what only the properties read:
  lrVer,    \* the version the reserving LR returned
  known,    \* known[a]: the newest version of a that any hart has been told of
  floor,    \* floor[h]: known of the access's word when it entered MEM
  done,     \* done[h]: the access that completed at the last edge, or None
  begun     \* writing accesses begun so far

hartVars == <<build, acc, wr, old, pend, hit, line, valid, poison, resv,
              lrVer, known, floor, done, begun>>

Caching == build.caching    \* DCACHE_ENABLE
LateAck == build.late       \* SNOOP_LATE_ACK
Access == build.access      \* the accesses the program makes: kinds and addresses

HartInit ==
  /\ build \in Builds
  /\ acc = [h \in Harts |-> None]
  /\ wr = [h \in Harts |-> FALSE]
  /\ old = [h \in Harts |-> 0]
  /\ pend = [h \in Harts |-> FALSE]
  /\ hit = [h \in Harts |-> FALSE]
  /\ line = [h \in Harts |-> [x \in Entries |-> [adr |-> None, ver |-> 0]]]
  /\ valid = [h \in Harts |-> {}]
  /\ poison = [h \in Harts |-> FALSE]
  /\ resv = [h \in Harts |-> None]
  /\ lrVer = [h \in Harts |-> 0]
  /\ known = [a \in Words |-> 0]
  /\ floor = [h \in Harts |-> 0]
  /\ done = [h \in Harts |-> None]
  /\ begun = 0
-----------------------------------------------------------------------------
(* The adapter's wires. *)

Idx(h) == IdxOf[acc[h].adr]
Line(h) == line[h][Idx(h)]
Present(h) == Caching /\ Idx(h) \in valid[h] /\ Line(h).adr = acc[h].adr

Start(h) == acc[h] # None /\ ~pend[h]
HitDeliver(h) == pend[h] /\ hit[h]
OnBus(h) == pend[h] /\ ~hit[h]                        \* dwb_cyc and dwb_stb
DmemWe(h) == acc[h] # None /\ (IsStore(acc[h]) \/ wr[h])
DmemRmw(h) == acc[h] # None /\ acc[h].kind = "amo"

ReadAck(h, ack) == OnBus(h) /\ ack[h] # None /\ ~DmemWe(h)
WriteAck(h, ack) == OnBus(h) /\ ack[h] # None /\ DmemWe(h)
Rvalid(h, ack) == HitDeliver(h) \/ ReadAck(h, ack)
Rdata(h, ack) == IF HitDeliver(h) THEN Line(h).ver ELSE ack[h]

DbusWait(h, ack) == Start(h) \/ (OnBus(h) /\ ack[h] = None)
-----------------------------------------------------------------------------
(* The MEM stage's wires. *)

ScMatch(h) == resv[h] = acc[h].adr
\* mutant: any of the three writes while a reservation matches
AmoWritesReserved(h) == acc[h].kind = "amo" \/ ScMatch(h)
AmoWrites(h) == acc[h].kind = "amo" \/ (acc[h].kind = "sc" /\ ScMatch(h))

AmoDone(h, ack) ==
  IF wr[h] THEN ~DbusWait(h, ack) ELSE Rvalid(h, ack) /\ ~AmoWrites(h)

Stall(h, ack) ==
  acc[h] # None /\ (DbusWait(h, ack) \/ (IsAmo(acc[h]) /\ ~AmoDone(h, ack)))

Completes(h, ack) == acc[h] # None /\ ~Stall(h, ack)
StoreFire(h, ack) == Completes(h, ack) /\ DmemWe(h)

(* reservation_monitor.v *)
InvalidatedNever(h, ack) == FALSE             \* mutant: the monitor is not wired
Invalidated(h, ack) ==
  \E k \in Harts \ {h} : StoreFire(k, ack) /\ acc[k].adr = resv[h]
-----------------------------------------------------------------------------
(* What each register holds after the edge. *)

ResvAfter(h, ack, trap) ==
  IF Invalidated(h, ack) THEN None
  ELSE IF Stall(h, ack) THEN resv[h]
  ELSE IF h \in trap THEN None
  ELSE IF acc[h] = None THEN resv[h]
  ELSE IF acc[h].kind = "lr" THEN acc[h].adr
  ELSE IF acc[h].kind = "sc" \/ DmemWe(h) THEN None
  ELSE resv[h]

Fill(h, ack) == ReadAck(h, ack) /\ acc[h].kind = "load" /\ Caching
UpdateAllocates(h, ack) == WriteAck(h, ack) /\ Caching   \* mutant: part words too
Update(h, ack) == WriteAck(h, ack) /\ Caching /\ (Present(h) \/ acc[h].kind # "byte")

(* A byte store changes part of the resident word: the entry is then as new *)
(* as the store only if it was as new as what the store wrote on.           *)
NewLine(h, ack) ==
  [adr |-> acc[h].adr,
   ver |-> IF WriteAck(h, ack) /\ acc[h].kind = "byte" /\ Line(h).ver # ack[h] - 1
           THEN Line(h).ver ELSE ack[h]]

Updates(h, ack) ==
  acc[h] # None /\ (Fill(h, ack) \/ Update(h, ack)) /\ ~(LateAck /\ poison[h])

(* A snooped write drops the entry by its index, whatever word it holds,    *)
(* and wins over an update in the same cycle.                               *)
DroppedNone(h, snooped) == {}                 \* mutant: no snoop
Dropped(h, snooped) == IF Caching THEN {IdxOf[a] : a \in snooped[h]} ELSE {}

PoisonAfter(h, ack, snooped) ==
  IF OnBus(h) /\ ack[h] # None THEN FALSE
  ELSE IF OnBus(h) /\ Idx(h) \in Dropped(h, snooped) THEN TRUE
  ELSE poison[h]

(* What the completing access leaves for the properties. *)
Outcome(h, ack) ==
  [kind |-> acc[h].kind, adr |-> acc[h].adr, floor |-> floor[h], base |-> old[h],
   wrote |-> DmemWe(h), ok |-> ScMatch(h), lrVer |-> lrVer[h],
   ver |-> IF DmemWe(h) THEN ack[h] ELSE Rdata(h, ack)]

KnownAfter(a, ack) ==
  LET told == {Outcome(h, ack).ver : h \in {k \in Harts :
                 Completes(k, ack) /\ acc[k].adr = a}}
  IN CHOOSE v \in told \cup {known[a]} : \A u \in told \cup {known[a]} : u <= v

Free(h, ack) == acc[h] = None \/ Completes(h, ack)
FreeHarts(ack) == {h \in Harts : Free(h, ack)}

(* Where a trap matters: it drops the reservation, and of a hart without    *)
(* one it is the same as issuing nothing.                                   *)
Reserving(h) == resv[h] # None \/ (acc[h] # None /\ acc[h].kind = "lr")
Trappable(ack) == {h \in FreeHarts(ack) : Reserving(h)}

(* An access that may write. *)
Begins(h, next) == next[h] # None /\ next[h].kind \notin {"load", "lr"}

(* What may enter the MEM stages at an edge; at most MaxWrites accesses     *)
(* that may write are begun altogether.                                     *)
Issues(ack) ==
  {next \in [Harts -> Access \cup {None}] :
     /\ \A h \in Harts \ FreeHarts(ack) : next[h] = None
     /\ begun + Cardinality({h \in Harts : Begins(h, next)}) <= MaxWrites}

(* next[h] is the access that enters hart h's MEM stage at this edge, or    *)
(* None; a hart in trap takes a trap in this cycle and starts nothing.      *)
HartClock(ack, snooped, next, trap) ==
  /\ \A h \in trap : next[h] = None
  /\ UNCHANGED build
  /\ acc' = [h \in Harts |-> IF Free(h, ack) THEN next[h] ELSE acc[h]]
  /\ wr' = [h \in Harts |->
       IF Free(h, ack) THEN FALSE
       ELSE wr[h] \/ (IsAmo(acc[h]) /\ Rvalid(h, ack) /\ AmoWrites(h))]
  /\ old' = [h \in Harts |->
       IF acc[h] # None /\ IsAmo(acc[h]) /\ ~wr[h] /\ Rvalid(h, ack)
       THEN Rdata(h, ack) ELSE old[h]]
  /\ pend' = [h \in Harts |->
       IF Start(h) THEN TRUE
       ELSE pend[h] /\ ~(HitDeliver(h) \/ ack[h] # None)]
  /\ hit' = [h \in Harts |->
       IF Start(h) THEN acc[h].kind = "load" /\ Present(h) ELSE hit[h]]
  /\ line' = [h \in Harts |->
       IF Updates(h, ack) THEN [line[h] EXCEPT ![Idx(h)] = NewLine(h, ack)] ELSE line[h]]
  /\ valid' = [h \in Harts |->
       (valid[h] \cup (IF Updates(h, ack) THEN {Idx(h)} ELSE {})) \ Dropped(h, snooped)]
  /\ poison' = [h \in Harts |-> PoisonAfter(h, ack, snooped)]
  /\ resv' = [h \in Harts |-> ResvAfter(h, ack, trap)]
  /\ lrVer' = [h \in Harts |->
       IF Completes(h, ack) /\ acc[h].kind = "lr" THEN Rdata(h, ack) ELSE lrVer[h]]
  /\ known' = [a \in Words |-> KnownAfter(a, ack)]
  /\ floor' = [h \in Harts |->
       IF Free(h, ack) /\ next[h] # None THEN known'[next[h].adr] ELSE floor[h]]
  /\ done' = [h \in Harts |-> IF Completes(h, ack) THEN Outcome(h, ack) ELSE None]
  /\ begun' = begun + Cardinality({h \in Harts : Begins(h, next)})
-----------------------------------------------------------------------------
(* What the harts are promised, whichever fabric is between them and memory. *)

HartTypeOK ==
  /\ acc \in [Harts -> Access \cup {None}]
  /\ wr \in [Harts -> BOOLEAN]
  /\ pend \in [Harts -> BOOLEAN]
  /\ hit \in [Harts -> BOOLEAN]
  /\ poison \in [Harts -> BOOLEAN]
  /\ resv \in [Harts -> Words \cup {None}]
  /\ \A h \in Harts :
       /\ pend[h] \/ wr[h] => acc[h] # None
       /\ wr[h] => acc[h].kind \in {"sc", "amo"}
       /\ valid[h] \subseteq {x \in Entries : line[h][x].adr # None}
  /\ begun \in 0 .. MaxWrites

(* An AMO is indivisible: the version it makes is the next after the one it *)
(* read, so no other write came between its two phases (wb_interconnect.v   *)
(* and wb_noc_xbar.v, "Atomics").                                           *)
AmoAtomic ==
  \A h \in Harts : done[h] # None /\ done[h].kind = "amo" =>
    done[h].wrote /\ done[h].ver = done[h].base + 1

(* An SC that reports success wrote on the very word the LR read: no other  *)
(* write came between them (reservation_monitor.v, "hart A's SC must fail   *)
(* if hart B wrote the reserved address in between").                       *)
ScAtomic ==
  \A h \in Harts : done[h] # None /\ done[h].kind = "sc" /\ done[h].ok =>
    done[h].wrote /\ done[h].ver = done[h].lrVer + 1

(* The two together: what the A extension promises of a word.               *)
AtomicsHold == AmoAtomic /\ ScAtomic

(* An SC writes only while its reservation holds: one that reports failure  *)
(* has written nothing (cpu_core.v, "an SC does only while its reservation  *)
(* holds", and at the reservation register, what must not be: "the store    *)
(* would still be issued but would report failure").                        *)
FailedScWritesNothing ==
  \A h \in Harts : done[h] # None /\ done[h].kind = "sc" /\ ~done[h].ok =>
    ~done[h].wrote

(* No hart reads the past: a read returns a version no older than any that  *)
(* a hart had been told of when it began, whether it was answered by memory *)
(* or by the hart's own cache (cpu_wb.v, "Snoop").                          *)
ReadsAreFresh ==
  \A h \in Harts : done[h] # None => done[h].ver >= done[h].floor

(* An access that entered MEM leaves it (again and again, a hart has none   *)
(* there or has just completed one): no two harts wait for each other over  *)
(* a lock, an AMO's write phase or a held grant.                            *)
AccessesComplete == \A h \in Harts : []<>(acc[h] = None \/ done[h] # None)
=============================================================================
