------------------------------- MODULE Table -------------------------------
(***************************************************************************)
(* A table shared by threads (src/core/table.cpp): the B-tree of rows and  *)
(* the LRU cache in front of it, guarded by the table's readers-writer     *)
(* lock and by cacheMutex_.                                                *)
(*                                                                         *)
(* The lock is the abstract one that RWLock implements.  The tree is its   *)
(* contents.  The cache is the set of cached rows, at most CacheCapacity   *)
(* of them; a put into a full cache evicts some entry, which one (the      *)
(* least recently used) makes no difference to the callers of the table.   *)
(* A critical section of cacheMutex_ is one step; between two of them, and *)
(* between any two rows of a scan, other threads may run as far as the     *)
(* table lock lets them.                                                   *)
(***************************************************************************)
EXTENDS TableOps

CONSTANTS Threads, Idle, Pending, CacheCapacity

ASSUME TableAssumption ==
    /\ CacheCapacity \in Nat \ {0}
    /\ Idle \notin Ops
    /\ \A o \in Ops, contents \in Contents : Result(o, contents) # Pending

VARIABLES
    readers, writers, queued,   \* lock_
    rows,        \* rows_
    cache,       \* cache_
    call,        \* the method each thread is executing, or Idle
    pc,          \* where it is in it
    last,        \* the last id its scan has visited; below all ids at first
    found,       \* rows its scan has collected (result, doomed or matched)
    todo,        \* ids its second loop has still to process
    result,      \* the value it will return
    published    \* history: rows as of the last release of the write lock

lock  == <<readers, writers, queued>>
local == <<last, found, todo, result>>
vars  == <<lock, rows, cache, call, pc, local, published>>

Lock == INSTANCE ReadersWriter

BeforeAll == (CHOOSE id \in Ids : \A other \in Ids : id <= other) - 1

Init ==
    /\ Lock!LockInit
    /\ rows = [id \in Ids |-> NoRow]
    /\ cache = [id \in Ids |-> NoRow]
    /\ call = [t \in Threads |-> Idle]
    /\ pc = [t \in Threads |-> "idle"]
    /\ last = [t \in Threads |-> BeforeAll]
    /\ found = [t \in Threads |-> <<>>]
    /\ todo = [t \in Threads |-> <<>>]
    /\ result = [t \in Threads |-> Pending]
    /\ published = rows

GoTo(t, loc) == pc' = [pc EXCEPT ![t] = loc]

(* The method computes its return value and goes on to release its guard. *)
Yield(t, value) ==
    /\ result' = [result EXCEPT ![t] = value]
    /\ GoTo(t, "unlock")

-----------------------------------------------------------------------------
Invoke(t) ==
    /\ pc[t] = "idle"
    /\ \E o \in Ops : call' = [call EXCEPT ![t] = o]
    /\ GoTo(t, "validate")
    /\ UNCHANGED <<lock, rows, cache, local, published>>

(* Arguments are checked against the immutable schema before any lock. *)
Validate(t) ==
    /\ pc[t] = "validate"
    /\ \/ IsValid(call[t]) /\ GoTo(t, "lock") /\ UNCHANGED result
       \/ /\ ~IsValid(call[t])
          /\ result' = [result EXCEPT ![t] = Threw]
          /\ GoTo(t, "done")
    /\ UNCHANGED <<lock, rows, cache, call, last, found, todo, published>>

(* The first statement under the guard. *)
Entry(o) ==
    CASE o.kind = "findById"   -> "probe"
      [] o.kind = "rowCount"   -> "count"
      [] o.kind = "insert"     -> "insert"
      [] o.kind = "deleteById" -> "remove"
      [] OTHER                 -> "scan"

LockShared(t) ==
    /\ pc[t] = "lock"
    /\ call[t].kind \in ReadKinds
    /\ Lock!EnterRead(t)
    /\ GoTo(t, Entry(call[t]))
    /\ UNCHANGED <<rows, cache, call, local, published>>

LockWaits(t) ==
    /\ pc[t] = "lock"
    /\ call[t].kind \notin ReadKinds
    /\ Lock!QueueWrite(t)
    /\ UNCHANGED <<rows, cache, call, pc, local, published>>

LockExclusive(t) ==
    /\ pc[t] = "lock"
    /\ call[t].kind \notin ReadKinds
    /\ Lock!EnterWrite(t)
    /\ GoTo(t, Entry(call[t]))
    /\ UNCHANGED <<rows, cache, call, local, published>>

Unlock(t) ==
    /\ pc[t] = "unlock"
    /\ \/ Lock!LeaveRead(t) /\ UNCHANGED published
       \/ Lock!LeaveWrite(t) /\ published' = rows
    /\ GoTo(t, "done")
    /\ UNCHANGED <<rows, cache, call, local>>

Return(t) ==
    /\ pc[t] = "done"
    /\ GoTo(t, "idle")
    /\ call' = [call EXCEPT ![t] = Idle]
    /\ last' = [last EXCEPT ![t] = BeforeAll]
    /\ found' = [found EXCEPT ![t] = <<>>]
    /\ todo' = [todo EXCEPT ![t] = <<>>]
    /\ result' = [result EXCEPT ![t] = Pending]
    /\ UNCHANGED <<lock, rows, cache, published>>

-----------------------------------------------------------------------------
(* cache_.put(id, value), cache_.erase(id) *)
Cached == {id \in Ids : cache[id] # NoRow}

CachePut(id, value) ==
    \/ /\ id \in Cached \/ Cardinality(Cached) # CacheCapacity
       /\ cache' = [cache EXCEPT ![id] = value]
    \/ /\ id \notin Cached /\ Cardinality(Cached) = CacheCapacity
       /\ \E victim \in Cached :
             cache' = [cache EXCEPT ![victim] = NoRow, ![id] = value]

CacheErase(ids) == cache' = [id \in Ids |-> IF id \in ids THEN NoRow ELSE cache[id]]

FindProbes(t) ==
    /\ pc[t] = "probe"
    /\ \/ cache[call[t].id] # NoRow /\ Yield(t, cache[call[t].id])
       \/ cache[call[t].id] = NoRow /\ GoTo(t, "search") /\ UNCHANGED result
    /\ UNCHANGED <<lock, rows, cache, call, last, found, todo, published>>

FindSearches(t) ==
    /\ pc[t] = "search"
    /\ \/ rows[call[t].id] = NoRow /\ Yield(t, NoRow)
       \/ rows[call[t].id] # NoRow /\ GoTo(t, "fill") /\ UNCHANGED result
    /\ UNCHANGED <<lock, rows, cache, call, last, found, todo, published>>

FindFills(t) ==
    /\ pc[t] = "fill"
    /\ CachePut(call[t].id, rows[call[t].id])
    /\ Yield(t, rows[call[t].id])
    /\ UNCHANGED <<lock, rows, call, last, found, todo, published>>

Counts(t) ==
    /\ pc[t] = "count"
    /\ Yield(t, Cardinality(Present(rows)))
    /\ UNCHANGED <<lock, rows, cache, call, last, found, todo, published>>

Inserts(t) ==
    LET o == call[t] IN
    /\ pc[t] = "insert"
    /\ \/ /\ rows[o.id] = NoRow
          /\ rows' = [rows EXCEPT ![o.id] = o.val]
          /\ Yield(t, TRUE)
       \/ /\ rows[o.id] # NoRow
          /\ UNCHANGED rows
          /\ Yield(t, FALSE)
    /\ UNCHANGED <<lock, cache, call, last, found, todo, published>>

(* deleteById: the row goes first, then its cache entry if there was a row. *)
Removes(t) ==
    LET id == call[t].id IN
    /\ pc[t] = "remove"
    /\ \/ /\ rows[id] = NoRow
          /\ UNCHANGED rows
          /\ Yield(t, FALSE)
       \/ /\ rows[id] # NoRow
          /\ rows' = [rows EXCEPT ![id] = NoRow]
          /\ GoTo(t, "evict")
          /\ UNCHANGED result
    /\ UNCHANGED <<lock, cache, call, last, found, todo, published>>

RemoveEvicts(t) ==
    /\ pc[t] = "evict"
    /\ CacheErase({call[t].id})
    /\ Yield(t, TRUE)
    /\ UNCHANGED <<lock, rows, call, last, found, todo, published>>

-----------------------------------------------------------------------------
(* The rows a scan has still ahead of it: forEachInOrder sees all of them,  *)
(* forEachRange those of its interval.                                      *)
Ahead(t) ==
    {id \in Present(rows) :
        /\ id > last[t]
        /\ call[t].kind = "selectIdRange" => id \in call[t].lo..call[t].hi}

ScanVisits(t) ==
    /\ pc[t] = "scan"
    /\ \E id \in Ahead(t) :
         /\ \A other \in Ahead(t) : id <= other
         /\ last' = [last EXCEPT ![t] = id]
         /\ found' = IF Matches(call[t], id, rows[id])
                     THEN [found EXCEPT ![t] = Append(@, <<id, rows[id]>>)]
                     ELSE found
    /\ UNCHANGED <<lock, rows, cache, call, pc, todo, result, published>>

ScanEnds(t) ==
    /\ pc[t] = "scan"
    /\ Ahead(t) = {}
    /\ \/ /\ call[t].kind \in ReadKinds
          /\ Yield(t, found[t])
          /\ UNCHANGED todo
       \/ /\ call[t].kind \notin ReadKinds
          /\ todo' = [todo EXCEPT ![t] = [i \in DOMAIN found[t] |-> found[t][i][1]]]
          /\ GoTo(t, "apply")
          /\ UNCHANGED result
    /\ UNCHANGED <<lock, rows, cache, call, last, found, published>>

(* One round of the second loop of deleteWhere or updateWhere. *)
DeletesOne(t) ==
    /\ pc[t] = "apply"
    /\ call[t].kind = "deleteWhere"
    /\ todo[t] # <<>>
    /\ rows' = [rows EXCEPT ![Head(todo[t])] = NoRow]
    /\ CacheErase({Head(todo[t])})
    /\ todo' = [todo EXCEPT ![t] = Tail(@)]
    /\ UNCHANGED <<lock, call, pc, last, found, result, published>>

(* Fault: the second loop stops one id early. *)
UpdatesAllButOne(t) ==
    /\ pc[t] = "apply"
    /\ call[t].kind = "updateWhere"
    /\ todo[t] # <<>>
    /\ rows' = IF Len(todo[t]) = 1 /\ Len(found[t]) > 1 THEN rows
               ELSE [rows EXCEPT ![Head(todo[t])] = NewValue(call[t])]
    /\ todo' = [todo EXCEPT ![t] = Tail(@)]
    /\ UNCHANGED <<lock, cache, call, pc, last, found, result, published>>

UpdatesOne(t) ==
    /\ pc[t] = "apply"
    /\ call[t].kind = "updateWhere"
    /\ todo[t] # <<>>
    /\ rows' = [rows EXCEPT ![Head(todo[t])] = NewValue(call[t])]
    /\ todo' = [todo EXCEPT ![t] = Tail(@)]
    /\ UNCHANGED <<lock, cache, call, pc, last, found, result, published>>

(* Fault: updateWhere forgets to erase what it has changed. *)
ApplyEndsKeepingCache(t) ==
    /\ pc[t] = "apply"
    /\ todo[t] = <<>>
    /\ Yield(t, Len(found[t]))
    /\ UNCHANGED <<lock, rows, cache, call, last, found, todo, published>>

(* updateWhere erases all matched ids from the cache when its loop is over. *)
ApplyEnds(t) ==
    /\ pc[t] = "apply"
    /\ todo[t] = <<>>
    /\ \/ /\ call[t].kind = "updateWhere"
          /\ CacheErase({found[t][i][1] : i \in DOMAIN found[t]})
       \/ /\ call[t].kind = "deleteWhere"
          /\ UNCHANGED cache
    /\ Yield(t, Len(found[t]))
    /\ UNCHANGED <<lock, rows, call, last, found, todo, published>>

-----------------------------------------------------------------------------
Step(t) ==
    \/ Invoke(t)
    \/ Validate(t)
    \/ LockShared(t)
    \/ LockWaits(t)
    \/ LockExclusive(t)
    \/ FindProbes(t)
    \/ FindSearches(t)
    \/ FindFills(t)
    \/ Counts(t)
    \/ Inserts(t)
    \/ Removes(t)
    \/ RemoveEvicts(t)
    \/ ScanVisits(t)
    \/ ScanEnds(t)
    \/ DeletesOne(t)
    \/ UpdatesOne(t)
    \/ ApplyEnds(t)
    \/ Unlock(t)
    \/ Return(t)

Next == \E t \in Threads : Step(t)

Spec == Init /\ [][Next]_vars

-----------------------------------------------------------------------------
(* The ranges of the shared variables; the cache never exceeds its          *)
(* capacity.                                                                *)
TypeOK ==
    /\ readers \in SUBSET Threads /\ writers \in SUBSET Threads
    /\ queued \in SUBSET Threads
    /\ rows \in Contents /\ published \in Contents
    /\ cache \in Contents /\ Cardinality(Cached) <= CacheCapacity
    /\ call \in [Threads -> Ops \cup {Idle}]
    /\ last \in [Threads -> Ids \cup {BeforeAll}]

(* A cached row is the row of the table.  A write may leave a stale entry   *)
(* behind only while it still holds the table lock, so no reader can ever   *)
(* be served one; and an id without a row is never cached, which is why     *)
(* insert need not touch the cache.                                         *)
CacheCoherent ==
    writers = {} => \A id \in Cached : cache[id] = rows[id]
=============================================================================
