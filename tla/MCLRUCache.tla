----------------------------- MODULE MCLRUCache -----------------------------
(* A small instance of LRUCache.  Two keys share a home slot, and it is the *)
(* last one, so that probing wraps around; the others are spread out, so    *)
(* that tombstones accumulate until the map is rebuilt.                     *)
EXTENDS LRUCache, TLC

MCKeys == 1..5

MCHash(key) == <<6, 7, 7, 1, 3>>[key]

NodeAndValueSymmetry == Permutations(Nodes) \cup Permutations(Values)
=============================================================================
