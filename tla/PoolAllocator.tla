---------------------------- MODULE PoolAllocator ----------------------------
(***************************************************************************)
(* The object pool (include/storage/PoolAllocator.hpp): an arena of equal  *)
(* blocks, the free ones linked through themselves.  Pools can be moved.   *)
(*                                                                         *)
(* A block is its arena and its index.  The word at the start of a block   *)
(* is the link of a free node, or whatever the object in the block makes   *)
(* of it.  A pool that was moved from, destroyed or not yet constructed    *)
(* has no arena.  A block is live from allocate() to deallocate().         *)
(***************************************************************************)
EXTENDS Integers

CONSTANTS Pools, Arenas

Null == <<>>    \* nullptr
Block == Arenas \X Nat

VARIABLES
    arena, freeHead, capacity, inUse,   \* the members of each pool
    link,    \* the first word of each block
    live,    \* the blocks that hold an object
    stack    \* history: the blocks of each pool, first the available() free
             \* ones from the end of the list to its head, then the live ones

members == <<arena, freeHead, capacity, inUse>>
poolVars == <<members, link, live, stack>>

PoolInit ==
    /\ arena = [p \in Pools |-> Null]
    /\ freeHead = [p \in Pools |-> Null]
    /\ capacity = [p \in Pools |-> 0]
    /\ inUse = [p \in Pools |-> 0]
    /\ link \in [Block -> Block \cup {Null}]
    /\ live = {}
    /\ stack = [p \in Pools |-> [i \in Nat |-> Null]]

available(p) == capacity[p] - inUse[p]

(* owns: the pointer is the start of a block of this pool's arena. *)
owns(p, b) == b[1] = arena[p] /\ b[2] < capacity[p]

-----------------------------------------------------------------------------
(* The constructor gets an arena from operator new and carves it up: the    *)
(* head of the list is block 0, the last block ends it.                     *)
Construct(p, a, n) ==
    /\ arena[p] = Null
    /\ \A q \in Pools : arena[q] # a
    /\ arena' = [arena EXCEPT ![p] = a]
    /\ capacity' = [capacity EXCEPT ![p] = n]
    /\ freeHead' = [freeHead EXCEPT ![p] = <<a, 0>>]
    /\ link' = [b \in Block |->
                   IF b[1] # a \/ b[2] >= n THEN link[b]
                   ELSE IF b[2] = n - 1 THEN Null ELSE <<a, b[2] + 1>>]
    /\ stack' = [stack EXCEPT ![p] = [i \in Nat |-> IF i \in 1..n THEN <<a, n - i>> ELSE Null]]
    /\ UNCHANGED <<inUse, live>>

(* allocate() on a pool with a free block; the object overwrites the link.  *)
(* If the constructor of the object throws, the node is restored and        *)
(* nothing has changed; without a free block nothing changes either.        *)
Allocate(p, word) ==
    /\ freeHead[p] # Null
    /\ freeHead' = [freeHead EXCEPT ![p] = link[freeHead[p]]]
    /\ link' = [link EXCEPT ![freeHead[p]] = word]
    /\ live' = live \cup {freeHead[p]}
    /\ inUse' = [inUse EXCEPT ![p] = @ + 1]
    /\ UNCHANGED <<arena, capacity, stack>>

(* Block b changes places with what stands at position k. *)
Swapped(order, k, b) == [i \in Nat |-> IF i = k THEN b ELSE IF order[i] = b THEN order[k] ELSE order[i]]

(* deallocate() of an object of this pool. *)
Deallocate(p, b) ==
    /\ b \in live
    /\ owns(p, b)
    /\ live' = live \ {b}
    /\ link' = [link EXCEPT ![b] = freeHead[p]]
    /\ freeHead' = [freeHead EXCEPT ![p] = b]
    /\ inUse' = [inUse EXCEPT ![p] = @ - 1]
    /\ stack' = [stack EXCEPT ![p] = Swapped(@, available(p) + 1, b)]
    /\ UNCHANGED <<arena, capacity>>

(* The move constructor and move assignment; what the target held, which    *)
(* must have no live objects, is released.                                  *)
Move(p, q) ==
    /\ p # q
    /\ inUse[p] = 0
    /\ arena' = [arena EXCEPT ![p] = arena[q], ![q] = Null]
    /\ freeHead' = [freeHead EXCEPT ![p] = freeHead[q], ![q] = Null]
    /\ capacity' = [capacity EXCEPT ![p] = capacity[q], ![q] = 0]
    /\ inUse' = [inUse EXCEPT ![p] = inUse[q], ![q] = 0]
    /\ stack' = [stack EXCEPT ![p] = stack[q]]
    /\ UNCHANGED <<link, live>>

(* The destructor, when no object is live. *)
Destroy(p) ==
    /\ inUse[p] = 0
    /\ arena' = [arena EXCEPT ![p] = Null]
    /\ freeHead' = [freeHead EXCEPT ![p] = Null]
    /\ capacity' = [capacity EXCEPT ![p] = 0]
    /\ UNCHANGED <<inUse, link, live, stack>>

PoolNext ==
    \E p \in Pools :
        \/ \E a \in Arenas, n \in Nat \ {0} : Construct(p, a, n)
        \/ \E word \in Block \cup {Null} : Allocate(p, word)
        \/ \E b \in Block : Deallocate(p, b)
        \/ \E q \in Pools : Move(p, q)
        \/ Destroy(p)

PoolSpec == PoolInit /\ [][PoolNext]_poolVars

-----------------------------------------------------------------------------
(* allocate() never hands out a block that is in use, and never one outside *)
(* the pool's own arena, however blocks were freed and pools moved.         *)
NoBlockTwice ==
    \A p \in Pools : freeHead[p] # Null =>
        freeHead[p] \in Block /\ freeHead[p] \notin live /\ owns(p, freeHead[p])

(* The counters are exact: bad_alloc is thrown when available() is zero and *)
(* only then, and inUse() never wraps below zero.                           *)
ExhaustionIsExact ==
    \A p \in Pools : /\ inUse[p] \in 0..capacity[p]
                     /\ freeHead[p] = Null <=> available(p) = 0

(* The free list of one pool. *)
IsExact(p) ==
    /\ freeHead[p] = IF available(p) = 0 THEN Null ELSE stack[p][available(p)]
    /\ \A i \in 1..available(p) : link[stack[p][i]] = IF i = 1 THEN Null ELSE stack[p][i - 1]
    /\ \A i, j \in 1..capacity[p] : stack[p][i] = stack[p][j] => i = j
    /\ \A i \in 1..capacity[p] : /\ stack[p][i] \in Block
                                 /\ owns(p, stack[p][i])
                                 /\ stack[p][i] \in live <=> i > available(p)
    /\ \A b \in Block : owns(p, b) => \E i \in 1..capacity[p] : stack[p][i] = b

(* The free list starts at the head, follows the links through exactly the  *)
(* blocks of the arena that are not live, each once, and ends.              *)
FreeListIsExact == \A p \in Pools : IsExact(p)
=============================================================================
