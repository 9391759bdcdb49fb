----------------------------- MODULE MCBusHarts -----------------------------
(* Harts on the bus, and other masters that ask.  Word 0 is in the memory,  *)
(* word 1 is nowhere; both use the one cache entry.                         *)
EXTENDS BusHarts, TLC

OneEntry == [a \in Words |-> 0]
RamAndNothing == [a \in Words |-> IF a = 0 THEN 0 ELSE NumS]

On(kinds, words) == [kind : kinds, adr : words]
Atomics == On({"lr", "sc", "amo"}, {0})
CachedAtomics == On({"load", "byte", "amo"}, {0})
CachedStores == On({"load", "store", "byte"}, {0}) \cup On({"load"}, {1})

Req(a, we, b) == [adr |-> a, we |-> we, burst |-> b]

(* The debugger reads, and hart 0's fetch fills lines in bursts.            *)
DebugAndFetch == (0 :> {Req(0, FALSE, FALSE)}) @@ (Bus!Fetch(0) :> {Req(0, FALSE, TRUE)})

(* The debugger writes, which every cache must snoop.                       *)
DebugWrites == (0 :> {Req(0, TRUE, FALSE)})

Build(c, l, a, r) == [caching |-> c, late |-> l, access |-> a, asks |-> r]
UncachedAndCached == {Build(FALSE, FALSE, Atomics, DebugAndFetch),
                      Build(TRUE, FALSE, CachedAtomics, DebugWrites),
                      Build(TRUE, FALSE, CachedStores, DebugWrites)}

(* The clock does not stop.  Liveness is checked of the uncached build: all  *)
(* that a cache does to an access is to answer a load the sooner.            *)
UncachedFair == Spec /\ WF_busHartsVars(~Caching /\ Next)
UncachedComplete == ~Caching => AccessesComplete
=============================================================================
