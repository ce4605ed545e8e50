------------------------------ MODULE Database ------------------------------
(***************************************************************************)
(* The catalogue of tables (src/core/database.cpp) and the counted handles *)
(* to them (include/memory/SharedPtr.hpp), as the threads of the server    *)
(* use them: a hash map from names to handles under a readers-writer lock, *)
(* handles copied out of it and dropped without any lock.                  *)
(*                                                                         *)
(* An object is the address of a Table with its control block; an address  *)
(* is free for the next Table once the last handle has deleted it.  Every  *)
(* access to a strong count is a step.  The methods without a write,       *)
(* tableCount and tableNames, only read under the lock and are left out.   *)
(***************************************************************************)
EXTENDS HashMap

CONSTANTS Threads, Names, Objects,
          None          \* no table, a null handle

ASSUME DatabaseAssumption ==
    /\ IsFiniteSet(Threads)
    /\ Names # {} /\ \A n \in Names : Hash(n) \in Nat
    /\ None \notin Objects

VARIABLES
    readers, writers, queued,   \* lock_
    tables,     \* tables_: a HashMap from names to objects
    alive,      \* the objects that are allocated
    strong,     \* the count in the control block of each object
    pc,         \* where each thread is
    name,       \* the argument of its method
    ref         \* the handle it owns, or is about to copy

lock == <<readers, writers, queued>>
heap == <<alive, strong>>
vars == <<lock, tables, heap, pc, name, ref>>

Lock == INSTANCE ReadersWriter

Init ==
    /\ Lock!LockInit
    /\ tables = EmptyMap
    /\ alive = {}
    /\ strong = [o \in Objects |-> 0]
    /\ pc = [t \in Threads |-> "idle"]
    /\ name = [t \in Threads |-> CHOOSE n \in Names : TRUE]
    /\ ref = [t \in Threads |-> None]

GoTo(t, loc) == pc' = [pc EXCEPT ![t] = loc]

Holds(t, o) == ref' = [ref EXCEPT ![t] = o]

(* tables_.find(n) *)
Lookup(n) == IF HasKey(tables, n) THEN ValueOf(tables, n) ELSE None

-----------------------------------------------------------------------------
(* createTable makes the Table and its first handle before it locks. *)
Calls(t, method, n) ==
    /\ pc[t] = "idle"
    /\ name' = [name EXCEPT ![t] = n]
    /\ GoTo(t, method)
    /\ IF method = "create"
       THEN \E o \in Objects \ alive :
              /\ alive' = alive \cup {o}
              /\ strong' = [strong EXCEPT ![o] = 1]
              /\ Holds(t, o)
       ELSE UNCHANGED <<heap, ref>>
    /\ UNCHANGED <<lock, tables>>

LockShared(t) ==
    /\ pc[t] = "get"
    /\ Lock!EnterRead(t)
    /\ GoTo(t, "find")
    /\ UNCHANGED <<tables, heap, name, ref>>

LockWaits(t) ==
    /\ pc[t] \in {"create", "drop"}
    /\ Lock!QueueWrite(t)
    /\ UNCHANGED <<tables, heap, pc, name, ref>>

LockExclusive(t) ==
    /\ pc[t] \in {"create", "drop"}
    /\ Lock!EnterWrite(t)
    /\ GoTo(t, IF pc[t] = "create" THEN "insert" ELSE "erase")
    /\ UNCHANGED <<tables, heap, name, ref>>

(* The guard is destroyed.  getTable hands its handle to the caller, who    *)
(* uses the table for as long as it likes.                                  *)
Unlock(t) ==
    /\ pc[t] = "unlock"
    /\ Lock!LeaveRead(t) \/ Lock!LeaveWrite(t)
    /\ GoTo(t, IF ref[t] = None THEN "idle" ELSE "use")
    /\ UNCHANGED <<tables, heap, name, ref>>

-----------------------------------------------------------------------------
(* Fault: a new table takes the place of one with the same name. *)
Overwritten(n, o) == InsertOrAssign(tables, n, o)

Inserted(n, o) == Insert(tables, n, o)

(* insert() moves the handle into a slot, or leaves it to the parameter     *)
(* that held it, which releases it before the guard is destroyed.           *)
CreateInserts(t) ==
    /\ pc[t] = "insert"
    /\ tables' = Inserted(name[t], ref[t])
    /\ IF Lookup(name[t]) = None
       THEN Holds(t, None) /\ GoTo(t, "unlock")
       ELSE UNCHANGED ref /\ GoTo(t, "release")
    /\ UNCHANGED <<lock, heap, name>>

(* erase() resets the slot, which releases its handle. *)
DropErases(t) ==
    /\ pc[t] = "erase"
    /\ tables' = Erase(tables, name[t])
    /\ Holds(t, Lookup(name[t]))
    /\ GoTo(t, IF Lookup(name[t]) = None THEN "unlock" ELSE "release")
    /\ UNCHANGED <<lock, heap, name>>

GetFinds(t) ==
    /\ pc[t] = "find"
    /\ Holds(t, Lookup(name[t]))
    /\ GoTo(t, IF Lookup(name[t]) = None THEN "unlock" ELSE "copy")
    /\ UNCHANGED <<lock, tables, heap, name>>

(* Fault: the handle is copied without counting it. *)
GetBorrows(t) ==
    /\ pc[t] = "copy"
    /\ GoTo(t, "unlock")
    /\ UNCHANGED <<lock, tables, heap, name, ref>>

(* The copy constructor of SharedPtr. *)
GetCopies(t) ==
    /\ pc[t] = "copy"
    /\ strong' = [strong EXCEPT ![ref[t]] = @ + 1]
    /\ GoTo(t, "unlock")
    /\ UNCHANGED <<lock, tables, alive, name, ref>>

(* The caller's handle goes out of scope. *)
UseEnds(t) ==
    /\ pc[t] = "use"
    /\ GoTo(t, "release")
    /\ UNCHANGED <<lock, tables, heap, name, ref>>

-----------------------------------------------------------------------------
(* Fault: a comparison with the new count instead of the old one. *)
WasLastButOne(o) == strong[o] <= 2

WasLast(o) == strong[o] = 1

AfterRelease(t) == IF t \in writers THEN "unlock" ELSE "idle"

(* SharedPtr::release(): fetch_sub, and delete if it was the last. *)
ReleaseDecrements(t) ==
    /\ pc[t] = "release"
    /\ strong' = [strong EXCEPT ![ref[t]] = @ - 1]
    /\ IF WasLast(ref[t])
       THEN GoTo(t, "delete") /\ UNCHANGED ref
       ELSE GoTo(t, AfterRelease(t)) /\ Holds(t, None)
    /\ UNCHANGED <<lock, tables, alive, name>>

ReleaseDeletes(t) ==
    /\ pc[t] = "delete"
    /\ alive' = alive \ {ref[t]}
    /\ Holds(t, None)
    /\ GoTo(t, AfterRelease(t))
    /\ UNCHANGED <<lock, tables, strong, name>>

Next ==
    \E t \in Threads :
        \/ \E method \in {"create", "get", "drop"}, n \in Names : Calls(t, method, n)
        \/ LockShared(t) \/ LockWaits(t) \/ LockExclusive(t) \/ Unlock(t)
        \/ CreateInserts(t) \/ DropErases(t)
        \/ GetFinds(t) \/ GetCopies(t) \/ UseEnds(t)
        \/ ReleaseDecrements(t) \/ ReleaseDeletes(t)

Spec == Init /\ [][Next]_vars

-----------------------------------------------------------------------------
(* The slots that hold o, and the threads that own a counted handle to it. *)
Slots(o) == {i \in DOMAIN tables.slots : Occupied(tables.slots[i]) /\ tables.slots[i][2] = o}

Owners(o) == {t \in Threads : ref[t] = o /\ pc[t] \notin {"copy", "delete"}}

Deleters(o) == {t \in Threads : ref[t] = o /\ pc[t] = "delete"}

(* The count of a table is the number of its handles, in the map and with   *)
(* threads, through rehashes, failed creations and concurrent drops         *)
(* (SharedPtr.hpp, lines 9-13).                                             *)
CountsAreExact ==
    \A o \in alive : strong[o] = Cardinality(Slots(o)) + Cardinality(Owners(o))

(* "A table stays alive for any client still holding it even if another     *)
(* thread drops it" (Database.hpp, lines 16-21): whatever the map, a user   *)
(* or a thread about to copy refers to is allocated, and nobody but its one *)
(* deleter refers to a table that is being deleted.  And no longer: a table *)
(* "dies with its last SharedPtr" (database.cpp, line 27), so it is         *)
(* allocated only as long as somebody can still release it.                 *)
LivesAsLongAsItsHandles ==
    /\ alive \subseteq {o \in Objects : Slots(o) # {} \/ Owners(o) # {} \/ Deleters(o) # {}}
    /\ \A t \in Threads : ref[t] # None => ref[t] \in alive
    /\ \A o \in Objects :
          /\ Slots(o) # {} => o \in alive
          /\ Deleters(o) # {} => /\ Slots(o) = {}
                                 /\ Cardinality({t \in Threads : ref[t] = o}) = 1

(* The catalogue changes one name at a time, by a thread that holds the     *)
(* write lock for it: createTable never replaces a table, and no insertion, *)
(* rehash or removal makes another name appear, vanish or change.           *)
NamesChangeByTheirCalls ==
    [][\A n \in Names : Lookup(n)' # Lookup(n) =>
          \E t \in writers : /\ name[t] = n
                             /\ \/ pc[t] = "insert" /\ Lookup(n) = None
                                \/ pc[t] = "erase" /\ Lookup(n)' = None]_vars
=============================================================================
