---------------------------- MODULE MCXbarHarts ----------------------------
(* Harts on the router fabric.  Word n is in memory n, and in none when     *)
(* there are not that many; all of them share the one cache entry.          *)
EXTENDS XbarHarts

OneEntry == [a \in Words |-> 0]
RamsAndNothing == [a \in Words |-> IF a < NumS THEN a ELSE NumS]

On(kinds, words) == [kind : kinds, adr : words]
Atomics == On({"lr", "sc", "store", "amo"}, {0})
ScAndStores == On({"lr", "sc", "store"}, {0})
TwoMemories == On({"load", "store"}, {0}) \cup On({"store"}, {1})
OneAndNone == On({"load", "store"}, {0}) \cup On({"load"}, {2})

Build(c, l, a) == [caching |-> c, late |-> l, access |-> a]
Uncached == Build(FALSE, FALSE, Atomics)
Cached(access) == Build(TRUE, TRUE, access)
ShippedBuilds == {Uncached, Cached(TwoMemories), Cached(OneAndNone)}
OnlyScAndStores == {Build(FALSE, FALSE, ScAndStores)}

(* The clock does not stop.  Liveness is checked of the uncached build: all  *)
(* that a cache does to an access is to answer a load the sooner.            *)
UncachedFair == Spec /\ WF_vars(~Caching /\ Next)
UncachedComplete == ~Caching => AccessesComplete
=============================================================================
