------------------------------ MODULE HashMap ------------------------------
(***************************************************************************)
(* The open-addressing hash map of include/structures/HashMap.hpp, as      *)
(* operators on a value: a record of slots_, size_ and used_.  A slot is   *)
(* EMPTY, DELETED (a tombstone) or the pair <<key, value>>.  Slots count   *)
(* from 1.                                                                 *)
(***************************************************************************)
EXTENDS Naturals, Sequences, FiniteSets

CONSTANTS MinCapacity,   \* kMinCapacity
          Hash(_)        \* hash_, from keys to naturals

(* In the code a power of two, so that `hash & mask` is a remainder. *)
ASSUME HashAssumption == MinCapacity \in Nat \ {0}

EMPTY   == <<>>
DELETED == <<"deleted">>

Occupied(slot) == Len(slot) = 2

(* The empty sequence is appended for TLC, which applies sequence operators *)
(* wrongly to a function constructor that an EXCEPT has changed.            *)
Blank(capacity) ==
    [slots |-> [i \in 1..capacity |-> EMPTY] \o <<>>, size |-> 0, used |-> 0]

EmptyMap == Blank(MinCapacity)

Capacity(map) == Len(map.slots)

(* The slot looked at after n steps of linear probing. *)
Probe(map, key, n) == 1 + ((Hash(key) + n) % Capacity(map))

First(S) == CHOOSE n \in S : \A m \in S : n <= m

HoldsKey(map, i, key) == Occupied(map.slots[i]) /\ map.slots[i][1] = key

(* Fault: a probe that stops at tombstones. *)
StopsAtTombstone(map, key) ==
    {n \in 0..Capacity(map) - 1 :
        LET i == Probe(map, key, n) IN ~Occupied(map.slots[i]) \/ HoldsKey(map, i, key)}

(* The numbers of steps after which probing for the key may stop. *)
Stops(map, key) ==
    {n \in 0..Capacity(map) - 1 :
        LET i == Probe(map, key, n) IN map.slots[i] = EMPTY \/ HoldsKey(map, i, key)}

-----------------------------------------------------------------------------
(* findSlot: 0 stands for kNotFound. *)
FindSlot(map, key) ==
    LET i == Probe(map, key, First(Stops(map, key)))
    IN  IF Stops(map, key) = {} \/ map.slots[i] = EMPTY THEN 0 ELSE i

HasKey(map, key) == FindSlot(map, key) # 0

(* find, for a key that is there. *)
ValueOf(map, key) == map.slots[FindSlot(map, key)][2]

WithSlot(map, i, slot, size, used) ==
    [slots |-> [map.slots EXCEPT ![i] = slot], size |-> size, used |-> used]

Erase(map, key) ==
    IF HasKey(map, key)
    THEN WithSlot(map, FindSlot(map, key), DELETED, map.size - 1, map.used)
    ELSE map

UsedAfter(map, target) == IF map.slots[target] = EMPTY THEN map.used + 1 ELSE map.used

(* place: the loop has no other end than a slot in Stops, so it must not be *)
(* called on a map without one.                                             *)
Place(map, key, value, assignIfPresent) ==
    LET last   == First(Stops(map, key))
        i      == Probe(map, key, last)
        graves == {n \in 0..last : map.slots[Probe(map, key, n)] = DELETED}
        target == IF graves = {} THEN i ELSE Probe(map, key, First(graves))
    IN  IF HoldsKey(map, i, key)
        THEN IF assignIfPresent
             THEN WithSlot(map, i, <<key, value>>, map.size, map.used)
             ELSE map
        ELSE WithSlot(map, target, <<key, value>>, map.size + 1, UsedAfter(map, target))

(* rehash: one turn of its loop, and the new map after each number of them. *)
MoveSlot(slot, moved) ==
    IF Occupied(slot) THEN Place(moved, slot[1], slot[2], FALSE) ELSE moved

Moved(map, capacity) ==
    LET moved[n \in 0..Capacity(map)] ==
            IF n = 0 THEN Blank(capacity) ELSE MoveSlot(map.slots[n], moved[n - 1])
    IN  moved

Rehash(map, capacity) == Moved(map, capacity)[Capacity(map)]

(* Fault: growth whenever there are too many used slots, tombstones or not. *)
AlwaysMostlyLive(map) == TRUE

MostlyLive(map) == (map.size + 1) * 10 > Capacity(map) * 4

(* Fault: tombstones do not count towards the load. *)
ReserveBySize(map) ==
    IF (map.size + 1) * 10 <= Capacity(map) * 7 THEN map ELSE Rehash(map, Capacity(map) * 2)

ReserveForOneMore(map) ==
    IF (map.used + 1) * 10 <= Capacity(map) * 7 THEN map
    ELSE Rehash(map, IF MostlyLive(map) THEN Capacity(map) * 2 ELSE Capacity(map))

Insert(map, key, value) == Place(ReserveForOneMore(map), key, value, FALSE)

InsertOrAssign(map, key, value) == Place(ReserveForOneMore(map), key, value, TRUE)

(* The slots that forEach visits, and those that are not EMPTY. *)
OccupiedSlots(map) == {i \in DOMAIN map.slots : Occupied(map.slots[i])}

UsedSlots(map) == {i \in DOMAIN map.slots : map.slots[i] # EMPTY}
=============================================================================
