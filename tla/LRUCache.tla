------------------------------ MODULE LRUCache ------------------------------
(***************************************************************************)
(* The LRU cache of include/structures/LRUCache.hpp: a list of entries in  *)
(* the order of recency and a hash map from keys to list iterators.        *)
(*                                                                         *)
(* An iterator is the address of a list node; moving a node to the front   *)
(* keeps its address, and a freed address is handed out again, so a stale  *)
(* iterator in the index can come to name another key's entry.             *)
(***************************************************************************)
EXTENDS HashMap

CONSTANTS Keys, Values, Nodes,
          CacheCapacity   \* capacity_

(* The constructor throws for a capacity of zero. *)
ASSUME CacheAssumption ==
    /\ CacheCapacity \in Nat \ {0}
    /\ \A key \in Keys : Hash(key) \in Nat

VARIABLES items,     \* items_: nodes in the order of the list
          entry,     \* the key and value in each node
          index,     \* index_: a HashMap from keys to nodes
          recency,   \* history: the entries <<key, value>> a LRU cache holds
          peak       \* history: the most entries index has held

vars == <<items, entry, index, recency, peak>>

Init ==
    /\ items = <<>>
    /\ entry = [n \in Nodes |-> <<>>]
    /\ index = EmptyMap
    /\ recency = <<>>
    /\ peak = 0

-----------------------------------------------------------------------------
(* The sequence without its i-th element. *)
Without(seq, i) == [j \in 1..Len(seq) - 1 |-> seq[IF j < i THEN j ELSE j + 1]]

(* The place of a node in the list. *)
At(n) == CHOOSE i \in DOMAIN items : items[i] = n

InList(n) == \E i \in DOMAIN items : items[i] = n

(* touch(): splice to the front. *)
Touched(n) == <<n>> \o Without(items, At(n))

(* What the history does: drop the key, and put it in front. *)
Forget(key) ==
    IF \E i \in DOMAIN recency : recency[i][1] = key
    THEN Without(recency, CHOOSE i \in DOMAIN recency : recency[i][1] = key)
    ELSE recency

Recall(key, value) ==
    LET all == <<<<key, value>>>> \o Forget(key)
    IN  IF Len(all) <= CacheCapacity THEN all ELSE SubSeq(all, 1, CacheCapacity)

(* put() of a key that is there *)
PutOverwrites(key, value) ==
    /\ HasKey(index, key)
    /\ LET n == ValueOf(index, key) IN
         /\ entry' = [entry EXCEPT ![n] = <<@[1], value>>]
         /\ items' = Touched(n)
    /\ recency' = Recall(key, value)
    /\ UNCHANGED <<index, peak>>

(* Fault: the evicted key stays in the index. *)
IndexKeepingVictim == index

IndexWithoutVictim == Erase(index, entry[items[Len(items)]][1])

(* The entry goes to the front of the kept nodes, in a free node. *)
PushFront(key, value, kept, found) ==
    LET nodes == {kept[i] : i \in DOMAIN kept} IN
    \E n \in Nodes \ nodes :
        /\ items' = <<n>> \o kept
        /\ entry' = [m \in Nodes |-> IF m = n THEN <<key, value>>
                                     ELSE IF m \in nodes THEN entry[m] ELSE <<>>]
        /\ index' = InsertOrAssign(found, key, n)

(* put() of a new key, after evicting the last one from a full cache *)
PutInserts(key, value) ==
    /\ ~HasKey(index, key)
    /\ IF Len(items) = CacheCapacity
       THEN PushFront(key, value, Without(items, Len(items)), IndexWithoutVictim)
       ELSE PushFront(key, value, items, index)
    /\ recency' = Recall(key, value)
    /\ peak' = IF index'.size > peak THEN index'.size ELSE peak

(* Fault: a hit does not move the entry. *)
GetWithoutTouch(key) ==
    /\ HasKey(index, key)
    /\ recency' = Recall(key, entry[ValueOf(index, key)][2])
    /\ UNCHANGED <<items, entry, index, peak>>

(* get() that hits; a miss changes only a counter *)
Get(key) ==
    /\ HasKey(index, key)
    /\ items' = Touched(ValueOf(index, key))
    /\ recency' = Recall(key, entry[ValueOf(index, key)][2])
    /\ UNCHANGED <<entry, index, peak>>

EraseKey(key) ==
    /\ HasKey(index, key)
    /\ LET n == ValueOf(index, key) IN
         /\ items' = Without(items, At(n))
         /\ entry' = [entry EXCEPT ![n] = <<>>]
    /\ index' = Erase(index, key)
    /\ recency' = Forget(key)
    /\ UNCHANGED peak

Clear ==
    /\ items' = <<>>
    /\ entry' = [n \in Nodes |-> <<>>]
    /\ index' = EmptyMap
    /\ recency' = <<>>
    /\ peak' = 0

Next ==
    \/ \E key \in Keys, value \in Values : PutOverwrites(key, value) \/ PutInserts(key, value)
    \/ \E key \in Keys : Get(key) \/ EraseKey(key)
    \/ Clear

Spec == Init /\ [][Next]_vars

-----------------------------------------------------------------------------
(* List and index stay in step: every key of the index leads to the node    *)
(* that holds this key, every node of the list is reached, none is freed,   *)
(* and no key is in two slots (LRUCache.hpp, lines 12-18).  The counters of *)
(* the index, size_ and used_, are the numbers of occupied and of non-empty *)
(* slots.                                                                   *)
IndexIsInStep ==
    /\ index.size = Cardinality(OccupiedSlots(index))
    /\ index.used = Cardinality(UsedSlots(index))
    /\ Cardinality(OccupiedSlots(index)) = Len(items)
    /\ \A key \in Keys : HasKey(index, key) <=> \E i \in DOMAIN items : entry[items[i]][1] = key
    /\ \A key \in Keys : HasKey(index, key) =>
          /\ InList(ValueOf(index, key))
          /\ entry[ValueOf(index, key)][1] = key

(* It is a LRU cache: after any sequence of calls it holds the entries most *)
(* recently put or got, at most CacheCapacity of them, latest first.        *)
HoldsTheMostRecent == [i \in DOMAIN items |-> entry[items[i]]] = recency

(* Every probe sequence ends: place() loops until it meets an EMPTY slot,   *)
(* and tombstones never use the last one up, however long puts and          *)
(* evictions go on.                                                         *)
ProbingEnds == \A key \in Keys : \E n \in 0..Capacity(index) - 1 :
                  index.slots[Probe(index, key, n)] = EMPTY

(* The map does not grow by churn: a rehash doubles the slots only if       *)
(* enough of them are live, so capacity is bounded by the number of         *)
(* entries ever held at once, not by the number of calls.                   *)
ChurnDoesNotGrow == Capacity(index) = MinCapacity \/ Capacity(index) < 5 * (peak + 1)
=============================================================================
