--------------------------- MODULE DatabaseProofs ---------------------------
(***************************************************************************)
(* Reference counts and life times of the tables, and the catalogue, for   *)
(* any threads, names, table objects and hash function.                    *)
(*                                                                         *)
(* The invariant: each table is under at most one name; a thread that has  *)
(* made a table and not yet entered it, or is about to delete one, is the  *)
(* only one that refers to it; a thread about to copy a handle holds the   *)
(* read lock and the handle is in the catalogue; and each count is the     *)
(* number of handles.                                                      *)
(***************************************************************************)
EXTENDS Database, HashMapProofs

Locations ==
    {"idle", "create", "get", "drop", "find", "copy", "insert", "erase", "unlock", "use",
     "release", "delete"}

Typed ==
    /\ readers \subseteq Threads /\ writers \subseteq Threads /\ queued \subseteq Threads
    /\ alive \subseteq Objects
    /\ strong \in [Objects -> Nat]
    /\ pc \in [Threads -> Locations]
    /\ name \in [Threads -> Names]
    /\ ref \in [Threads -> Objects \cup {None}]

Excluded ==
    /\ writers # {} => readers = {}
    /\ \A t, u \in writers : t = u
    /\ \A t \in Threads : /\ pc[t] \in {"insert", "erase"} => t \in writers
                          /\ pc[t] \in {"find", "copy"} => t \in readers

Entered(m, o) == \E n \in Names : Maps(m, n, o)

Catalogued ==
    /\ IsMap(tables, Names, Objects)
    /\ \A n, p \in Names, o \in Objects : Maps(tables, n, o) /\ Maps(tables, p, o) => n = p
    /\ \A o \in Objects : Entered(tables, o) => o \in alive

Sole(t) == ~Entered(tables, ref[t]) /\ \A u \in Threads : ref[u] = ref[t] => u = t

Referring(t) ==
    /\ pc[t] \in {"idle", "get", "drop", "find", "erase"} => ref[t] = None
    /\ pc[t] \in {"create", "insert", "copy", "use", "release", "delete"} => ref[t] # None
    /\ ref[t] # None => ref[t] \in alive
    /\ pc[t] = "copy" => Entered(tables, ref[t])
    /\ pc[t] \in {"create", "insert", "delete"} => Sole(t)

Listed(o) == IF Entered(tables, o) THEN 1 ELSE 0

Balanced(o) ==
    /\ strong[o] = Listed(o) + Cardinality(Owners(o))
    /\ Entered(tables, o) \/ Owners(o) # {} \/ Deleters(o) # {}

DatabaseInv ==
    /\ Typed /\ Excluded /\ Catalogued
    /\ \A t \in Threads : Referring(t)
    /\ \A o \in alive : Balanced(o)

-----------------------------------------------------------------------------
LEMMA HashesNames == Hashes(Names)
BY DatabaseAssumption, Zenon DEF Hashes

LookupIn(m, n) == IF HasKey(m, n) THEN ValueOf(m, n) ELSE None

LEMMA LookupInIs ==
  ASSUME NEW m, IsMap(m, Names, Objects), NEW n \in Names
  PROVE  /\ LookupIn(m, n) # None <=> HasKey(m, n)
         /\ LookupIn(m, n) # None => LookupIn(m, n) \in Objects /\ Maps(m, n, LookupIn(m, n))
         /\ \A o : Maps(m, n, o) => LookupIn(m, n) = o /\ LookupIn(m, n) # None
<1>1. Placed(m, Names, Objects) /\ Hash(n) \in Nat
  BY HashesNames, Zenon DEF IsMap, Hashes
<1>2. HasKey(m, n) => ValueOf(m, n) \in Objects /\ Maps(m, n, ValueOf(m, n))
  BY <1>1, Lookups, Zenon
<1>3. \A o : Maps(m, n, o) => HasKey(m, n) /\ o = ValueOf(m, n)
  BY <1>1, Lookups, Zenon
<1> QED
  BY <1>2, <1>3, DatabaseAssumption, Zenon DEF LookupIn

LEMMA LookupIs ==
  ASSUME IsMap(tables, Names, Objects), NEW n \in Names
  PROVE  /\ Lookup(n) # None <=> HasKey(tables, n)
         /\ Lookup(n) # None => Lookup(n) \in Objects /\ Maps(tables, n, Lookup(n))
         /\ \A o : Maps(tables, n, o) => Lookup(n) = o /\ Lookup(n) # None
<1>1. Lookup(n) = LookupIn(tables, n)
  BY Zenon DEF Lookup, LookupIn
<1> QED
  BY <1>1, LookupInIs, Zenon

LEMMA TypedStep ==
  ASSUME DatabaseInv, NEW t \in Threads, NEW method \in {"create", "get", "drop"}, NEW n \in Names,
         \/ Calls(t, method, n)
         \/ LockShared(t) \/ LockWaits(t) \/ LockExclusive(t) \/ Unlock(t)
         \/ CreateInserts(t) \/ DropErases(t)
         \/ GetFinds(t) \/ GetCopies(t) \/ UseEnds(t)
         \/ ReleaseDecrements(t) \/ ReleaseDeletes(t)
  PROVE  Typed'
<1> USE DEF Typed, GoTo, Holds, lock, heap, Locations
<1>0. Typed /\ Referring(t) /\ IsMap(tables, Names, Objects)
  BY Zenon DEF DatabaseInv, Catalogued
<1>1. CASE Calls(t, method, n)
  BY <1>0, <1>1 DEF Calls
<1>2. CASE LockShared(t)
  BY <1>0, <1>2, Zenon DEF LockShared, Lock!EnterRead
<1>3. CASE LockWaits(t)
  BY <1>0, <1>3, Zenon DEF LockWaits, Lock!QueueWrite
<1>4. CASE LockExclusive(t)
  BY <1>0, <1>4, Zenon DEF LockExclusive, Lock!EnterWrite
<1>5. CASE Unlock(t)
  BY <1>0, <1>5, Zenon DEF Unlock, Lock!LeaveRead, Lock!LeaveWrite
<1>6. CASE CreateInserts(t)
  BY <1>0, <1>6, Zenon DEF CreateInserts
<1>7. name[t] \in Names /\ Lookup(name[t]) \in Objects \cup {None}
  BY <1>0, LookupIs, Zenon
<1>8. CASE DropErases(t)
  BY <1>0, <1>7, <1>8, Zenon DEF DropErases
<1>9. CASE GetFinds(t)
  BY <1>0, <1>7, <1>9, Zenon DEF GetFinds
<1>10. CASE GetCopies(t)
  <2>1. ref[t] \in Objects
    BY <1>0, <1>10, Zenon DEF Referring, GetCopies
  <2> QED
    BY <1>0, <1>10, <2>1 DEF GetCopies
<1>11. CASE UseEnds(t)
  BY <1>0, <1>11, Zenon DEF UseEnds
<1>12. CASE ReleaseDecrements(t)
  <2>1. ref[t] \in alive
    BY <1>0, <1>12, Zenon DEF Referring, ReleaseDecrements
  <2>2. strong[ref[t]] > 0
    <3> USE DEF DatabaseInv
    <3>1. t \in Owners(ref[t]) /\ IsFiniteSet(Owners(ref[t]))
      <4>1. Owners(ref[t]) \subseteq Threads
        BY Zenon DEF Owners
      <4> QED
        BY <1>12, <4>1, DatabaseAssumption, FS_Subset, Zenon DEF Owners, ReleaseDecrements
    <3>2. Cardinality(Owners(ref[t])) \in Nat \ {0}
      BY <3>1, FS_CardinalityType, FS_EmptySet, Zenon
    <3>3. Listed(ref[t]) \in Nat /\ strong[ref[t]] = Listed(ref[t]) + Cardinality(Owners(ref[t]))
      BY <2>1, Zenon DEF Listed, Balanced
    <3> QED
      BY <3>2, <3>3
  <2> QED
    BY <1>0, <1>12, <2>1, <2>2 DEF ReleaseDecrements, AfterRelease
<1>13. CASE ReleaseDeletes(t)
  BY <1>0, <1>13, Zenon DEF ReleaseDeletes, AfterRelease
<1> QED
  BY <1>1, <1>2, <1>3, <1>4, <1>5, <1>6, <1>8, <1>9, <1>10, <1>11, <1>12, <1>13, Zenon

LEMMA ExcludedStep ==
  ASSUME Typed, Excluded, NEW t \in Threads, NEW method \in {"create", "get", "drop"},
         NEW n \in Names,
         \/ Calls(t, method, n)
         \/ LockShared(t) \/ LockWaits(t) \/ LockExclusive(t) \/ Unlock(t)
         \/ CreateInserts(t) \/ DropErases(t)
         \/ GetFinds(t) \/ GetCopies(t) \/ UseEnds(t)
         \/ ReleaseDecrements(t) \/ ReleaseDeletes(t)
  PROVE  Excluded'
<1> USE DEF Excluded, Typed, GoTo, lock
<1>1. CASE Calls(t, method, n)
  BY <1>1, Zenon DEF Calls
<1>2. CASE LockShared(t)
  BY <1>2, Zenon DEF LockShared, Lock!EnterRead
<1>3. CASE LockWaits(t)
  BY <1>3, Zenon DEF LockWaits, Lock!QueueWrite
<1>4. CASE LockExclusive(t)
  BY <1>4, Zenon DEF LockExclusive, Lock!EnterWrite, Lock!Inside
<1>5. CASE Unlock(t)
  BY <1>5, Zenon DEF Unlock, Lock!LeaveRead, Lock!LeaveWrite
<1>6. CASE CreateInserts(t)
  BY <1>6, Zenon DEF CreateInserts
<1>7. CASE DropErases(t)
  BY <1>7, Zenon DEF DropErases
<1>8. CASE GetFinds(t)
  BY <1>8, Zenon DEF GetFinds
<1>9. CASE GetCopies(t)
  BY <1>9, Zenon DEF GetCopies
<1>10. CASE UseEnds(t)
  BY <1>10, Zenon DEF UseEnds
<1>11. CASE ReleaseDecrements(t)
  BY <1>11 DEF ReleaseDecrements, AfterRelease
<1>12. CASE ReleaseDeletes(t)
  BY <1>12, Zenon DEF ReleaseDeletes, AfterRelease
<1> QED
  BY <1>1, <1>2, <1>3, <1>4, <1>5, <1>6, <1>7, <1>8, <1>9, <1>10, <1>11, <1>12, Zenon
-----------------------------------------------------------------------------
(* What a step does to the catalogue, and to the owners of each table. *)
SameTables == Same(tables, tables', Names, Objects)

LEMMA SameEntered ==
  ASSUME SameTables PROVE /\ \A o : Entered(tables', o) <=> Entered(tables, o)
                          /\ Catalogued /\ alive' = alive => Catalogued'
BY Zenon DEF SameTables, Same, Entered, Catalogued

LEMMA UnchangedTables ==
  ASSUME Catalogued, tables' = tables PROVE SameTables
BY Zenon DEF SameTables, Same, Catalogued

(* A step after which each thread refers to what it did. *)
Quiet(t, loc) ==
    /\ pc' = [pc EXCEPT ![t] = loc]
    /\ {pc[t], loc} \cap {"copy", "delete"} = {}
    /\ loc \in {"idle", "get", "drop", "find", "erase"} => ref[t] = None
    /\ loc \in {"create", "insert", "use", "release"} => ref[t] # None
    /\ loc \in {"create", "insert"} => pc[t] \in {"create", "insert"}

LEMMA QuietStep ==
  ASSUME DatabaseInv, Typed', Excluded', NEW t \in Threads, NEW loc, Quiet(t, loc),
         SameTables, UNCHANGED heap, ref' = ref
  PROVE  DatabaseInv'
<1>0. /\ Typed /\ Catalogued /\ \A u \in Threads : Referring(u)
      /\ alive' = alive /\ strong' = strong
  BY Zenon DEF DatabaseInv, heap
<1>1. pc'[t] = loc /\ \A u \in Threads : u # t => pc'[u] = pc[u]
  BY <1>0, Zenon DEF Typed, Quiet
<1>2. Catalogued' /\ \A o : Entered(tables', o) <=> Entered(tables, o)
  BY <1>0, SameEntered, Zenon
<1>3. \A u \in Threads : Sole(u)' <=> Sole(u)
  BY <1>2, Zenon DEF Sole
<1>4. ASSUME NEW u \in Threads PROVE Referring(u)'
  <2>1. CASE u = t
    <3>1. loc # "copy" /\ loc # "delete"
      BY Zenon DEF Quiet
    <3>2. Referring(t) /\ (ref[t] # None => ref[t] \in alive)
      BY <1>0, Zenon DEF Referring
    <3>3. loc \in {"create", "insert"} => Sole(t)
      BY <3>2, Zenon DEF Referring, Quiet
    <3> QED
      BY <1>0, <1>1, <1>3, <2>1, <3>1, <3>2, <3>3, Zenon DEF Referring, Quiet
  <2>2. CASE u # t
    BY <1>0, <1>1, <1>2, <1>3, <2>2, Zenon DEF Referring
  <2> QED
    BY <2>1, <2>2, Zenon
<1>5. ASSUME NEW o PROVE Owners(o)' = Owners(o) /\ Deleters(o)' = Deleters(o)
  <2>1. pc[t] # "copy" /\ pc[t] # "delete" /\ loc # "copy" /\ loc # "delete"
    BY Zenon DEF Quiet
  <2>2. \A u \in Threads : /\ pc'[u] = "delete" <=> pc[u] = "delete"
                           /\ pc'[u] = "copy" <=> pc[u] = "copy"
    BY <1>1, <2>1, Zenon
  <2> QED
    BY <2>2, Zenon DEF Owners, Deleters
<1>6. ASSUME NEW o \in alive PROVE Balanced(o)'
  <2>1. Balanced(o)
    BY Zenon DEF DatabaseInv
  <2> QED
    BY <1>0, <1>2, <1>5, <2>1, Zenon DEF Balanced, Listed
<1> QED
  BY <1>0, <1>2, <1>4, <1>6, Zenon DEF DatabaseInv
-----------------------------------------------------------------------------
(* A step of thread t, after which it is at loc and refers to o. *)
Moves(t, loc, o) ==
    /\ pc'[t] = loc /\ ref'[t] = o
    /\ \A u \in Threads : u # t => pc'[u] = pc[u] /\ ref'[u] = ref[u]

LEMMA MovesTo ==
  ASSUME Typed, NEW t \in Threads, NEW loc, NEW o, GoTo(t, loc), Holds(t, o)
  PROVE  Moves(t, loc, o)
BY Zenon DEF Typed, GoTo, Holds, Moves

LEMMA MovesOn ==
  ASSUME Typed, NEW t \in Threads, NEW loc, GoTo(t, loc), ref' = ref
  PROVE  Moves(t, loc, ref[t])
BY Zenon DEF Typed, GoTo, Moves

(* The others refer to what they did. *)
LEMMA OthersRefer ==
  ASSUME NEW t \in Threads, NEW loc, NEW o, Moves(t, loc, o), NEW u \in Threads, u # t,
         Referring(u), ref[u] # None => ref[u] \in alive',
         pc[u] = "copy" => Entered(tables', ref[u]),
         Sole(u) /\ ref[u] # None => o # ref[u] /\ ~Entered(tables', ref[u])
  PROVE  Referring(u)'
<1>1. pc'[u] = pc[u] /\ ref'[u] = ref[u]
  BY Zenon DEF Moves, Entered
<1>2. ASSUME Sole(u), ref[u] # None PROVE Sole(u)'
  BY <1>1, <1>2, Zenon DEF Sole, Moves, Entered
<1> QED
  BY <1>1, <1>2, Zenon DEF Referring

(* A table that neither its handle before nor its handle after is of. *)
LEMMA OthersBalanced ==
  ASSUME NEW t \in Threads, NEW loc, NEW o, Moves(t, loc, o), NEW x, ref[t] # x, o # x,
         Balanced(x), strong'[x] = strong[x], Entered(tables', x) <=> Entered(tables, x)
  PROVE  Balanced(x)'
<1>1. Owners(x)' = Owners(x) /\ Deleters(x)' = Deleters(x)
  BY Zenon DEF Owners, Deleters, Moves
<1> QED
  BY <1>1, Zenon DEF Balanced, Listed

LEMMA OwnersAreFinite == \A o : IsFiniteSet(Owners(o)) /\ Cardinality(Owners(o)) \in Nat
<1>1. \A o : Owners(o) \subseteq Threads
  BY Zenon DEF Owners
<1> QED
  BY <1>1, DatabaseAssumption, FS_Subset, FS_CardinalityType, Zenon

(* createTable() allocates. *)
LEMMA CreateStep ==
  ASSUME DatabaseInv, Typed', Excluded', NEW t \in Threads, NEW n \in Names, Calls(t, "create", n)
  PROVE  DatabaseInv'
<1>0. /\ Typed /\ Catalogued /\ \A u \in Threads : Referring(u)
      /\ \A x \in alive : Balanced(x) /\ x \in Objects /\ x # None
  BY DatabaseAssumption, Zenon DEF DatabaseInv, Typed
<1>1. PICK o \in Objects \ alive : /\ alive' = alive \cup {o} /\ Holds(t, o)
                                   /\ strong' = [strong EXCEPT ![o] = 1]
  BY Zenon DEF Calls
<1>2. /\ pc[t] = "idle" /\ tables' = tables /\ Moves(t, "create", o)
      /\ strong'[o] = 1 /\ \A x \in alive : strong'[x] = strong[x]
  BY <1>0, <1>1, MovesTo, Zenon DEF Calls, Typed
<1>3. o # None /\ ref[t] = None /\ ~Entered(tables, o) /\ \A u \in Threads : ref[u] # o
  BY <1>0, <1>1, <1>2, DatabaseAssumption, Zenon DEF Catalogued, Referring
<1>4. Catalogued' /\ \A x : Entered(tables', x) <=> Entered(tables, x)
  BY <1>0, <1>1, <1>2, Zenon DEF Catalogued, Entered
<1>5. ASSUME NEW u \in Threads PROVE Referring(u)'
  <2>1. CASE u = t
    <3>1. \A w \in Threads : ref'[w] = o => w = t
      BY <1>2, <1>3, Zenon DEF Moves
    <3>2. Sole(t)'
      BY <1>2, <1>3, <1>4, <3>1, Zenon DEF Sole, Moves
    <3> QED
      BY <1>1, <1>2, <1>3, <2>1, <3>2, Zenon DEF Referring, Moves
  <2>2. CASE u # t
    <3>1. ref[u] # None => ref[u] \in alive'
      BY <1>0, <1>1, Zenon DEF Referring
    <3>2. pc[u] = "copy" => Entered(tables', ref[u])
      BY <1>0, <1>4, Zenon DEF Referring
    <3>3. Sole(u) => o # ref[u] /\ ~Entered(tables', ref[u])
      BY <1>3, <1>4, Zenon DEF Sole
    <3> QED
      BY <1>0, <1>2, <2>2, <3>1, <3>2, <3>3, OthersRefer, Zenon
  <2> QED
    BY <2>1, <2>2, Zenon
<1>6. Balanced(o)'
  <2>1. Owners(o)' = {t}
    BY <1>2, <1>3, Zenon DEF Owners, Moves
  <2>2. Cardinality({t}) = 1
    BY FS_Singleton, Zenon
  <2> QED
    BY <1>2, <1>3, <1>4, <2>1, <2>2 DEF Balanced, Listed
<1>7. ASSUME NEW x \in alive PROVE Balanced(x)'
  BY <1>0, <1>1, <1>2, <1>3, <1>4, OthersBalanced, Zenon
<1> QED
  BY <1>1, <1>4, <1>5, <1>6, <1>7, Zenon DEF DatabaseInv
(* insert() of a new name. *)
LEMMA InsertStep ==
  ASSUME DatabaseInv, Typed', Excluded', NEW t \in Threads, CreateInserts(t),
         Lookup(name[t]) = None
  PROVE  DatabaseInv'
<1>a. PICK n0, o : n0 = name[t] /\ o = ref[t]
  OBVIOUS
<1>0. /\ Typed /\ Catalogued /\ \A u \in Threads : Referring(u)
      /\ \A x \in alive : Balanced(x) /\ x \in Objects /\ x # None
  BY DatabaseAssumption, Zenon DEF DatabaseInv, Typed
<1>1. /\ pc[t] = "insert" /\ tables' = Insert(tables, n0, o) /\ Moves(t, "unlock", None)
      /\ alive' = alive /\ strong' = strong
  BY <1>a, <1>0, MovesTo, Zenon DEF CreateInserts, Inserted, heap
<1>2. n0 \in Names /\ o \in alive /\ o \in Objects /\ o # None /\ Sole(t)
  BY <1>a, <1>0, <1>1, Zenon DEF Typed, Referring
<1>3. ~HasKey(tables, n0) /\ IsMap(tables, Names, Objects)
  BY <1>a, <1>0, <1>2, LookupIs, Zenon DEF Catalogued
<1>4. Gains(tables, n0, o, tables', Names, Objects)
  BY <1>1, <1>2, <1>3, HashesNames, InsertingNew, Zenon
<1>5. /\ IsMap(tables', Names, Objects)
      /\ \A a, w : Maps(tables', a, w) <=> Maps(tables, a, w) \/ (a = n0 /\ w = o)
  BY <1>4, Zenon DEF Gains
<1>6. ~Entered(tables, o) /\ \A u \in Threads : u # t => ref[u] # o
  BY <1>a, <1>2, Zenon DEF Sole
<1>7. \A x : Entered(tables', x) <=> Entered(tables, x) \/ x = o
  BY <1>2, <1>5, Zenon DEF Entered
<1>8. Catalogued'
  <2>1. ASSUME NEW n \in Names, NEW p \in Names, NEW x \in Objects,
               Maps(tables', n, x), Maps(tables', p, x)
        PROVE  n = p
    <3>1. \A a \in Names : ~Maps(tables, a, o)
      BY <1>6, Zenon DEF Entered
    <3>2. Maps(tables, n, x) \/ (n = n0 /\ x = o)
      BY <1>5, <2>1, Zenon
    <3>3. Maps(tables, p, x) \/ (p = n0 /\ x = o)
      BY <1>5, <2>1, Zenon
    <3>4. Maps(tables, n, x) /\ Maps(tables, p, x) => n = p
      BY <1>0, Zenon DEF Catalogued
    <3> QED
      BY <3>1, <3>2, <3>3, <3>4, Zenon
  <2> QED
    BY <1>0, <1>1, <1>2, <1>5, <1>7, <2>1, Zenon DEF Catalogued
<1>9. ASSUME NEW u \in Threads PROVE Referring(u)'
  <2>1. CASE u = t
    BY <1>1, <2>1, Zenon DEF Referring, Moves
  <2>2. CASE u # t
    <3>1. Referring(u) /\ ref[u] # o
      BY <1>0, <1>6, <2>2, Zenon
    <3>2. ref[u] # None => ref[u] \in alive'
      BY <1>1, <3>1, Zenon DEF Referring
    <3>3. pc[u] = "copy" => Entered(tables', ref[u])
      BY <1>7, <3>1, Zenon DEF Referring
    <3>4. Sole(u) => ~Entered(tables', ref[u])
      BY <1>7, <3>1, Zenon DEF Sole
    <3> QED
      BY <1>1, <2>2, <3>1, <3>2, <3>3, <3>4, OthersRefer, Zenon
  <2> QED
    BY <2>1, <2>2, Zenon
<1>10. Balanced(o)'
  <2>1. Owners(o) = {t} /\ Owners(o)' = {}
    BY <1>a, <1>1, <1>2, <1>6, Zenon DEF Owners, Moves
  <2>2. Cardinality({t}) = 1 /\ Cardinality({}) = 0
    BY FS_Singleton, FS_EmptySet, Zenon
  <2>3. strong[o] = Listed(o) + Cardinality(Owners(o))
    BY <1>0, <1>2, Zenon DEF Balanced
  <2> QED
    BY <1>1, <1>6, <1>7, <2>1, <2>2, <2>3 DEF Balanced, Listed
<1>11. ASSUME NEW x \in alive, x # o PROVE Balanced(x)'
  BY <1>a, <1>0, <1>1, <1>7, <1>11, OthersBalanced, Zenon
<1> QED
  BY <1>1, <1>8, <1>9, <1>10, <1>11, Zenon DEF DatabaseInv

(* erase() of a name that is there. *)
LEMMA EraseStep ==
  ASSUME DatabaseInv, Typed', Excluded', NEW t \in Threads, DropErases(t),
         Lookup(name[t]) # None
  PROVE  DatabaseInv'
<1>a. PICK n0, o : n0 = name[t] /\ o = Lookup(name[t])
  OBVIOUS
<1>0. /\ Typed /\ Catalogued /\ Excluded /\ \A u \in Threads : Referring(u)
      /\ \A x \in alive : Balanced(x) /\ x \in Objects /\ x # None
  BY DatabaseAssumption, Zenon DEF DatabaseInv, Typed
<1>1. /\ pc[t] = "erase" /\ tables' = Erase(tables, n0) /\ Moves(t, "release", o)
      /\ alive' = alive /\ strong' = strong
  BY <1>a, <1>0, MovesTo, Zenon DEF DropErases, heap
<1>2. n0 \in Names /\ ref[t] = None
  BY <1>a, <1>0, <1>1, Zenon DEF Typed, Referring
<1>3. IsMap(tables, Names, Objects) /\ Maps(tables, n0, o) /\ o \in Objects
  BY <1>a, <1>0, <1>2, LookupIs, Zenon DEF Catalogued
<1>4. Entered(tables, o) /\ o \in alive
  BY <1>0, <1>2, <1>3, Zenon DEF Entered, Catalogued
<1>5. /\ IsMap(tables', Names, Objects)
      /\ \A a, w : Maps(tables', a, w) <=> Maps(tables, a, w) /\ a # n0
  BY <1>1, <1>2, <1>3, HashesNames, Erasing, Zenon DEF Loses
<1>6. \A x \in Objects : Entered(tables', x) <=> Entered(tables, x) /\ x # o
  <2>1. \A a \in Names : Maps(tables, a, o) => a = n0
    BY <1>0, <1>2, <1>3, Zenon DEF Catalogued
  <2>2. \A x : Maps(tables, n0, x) => x = o
    BY <1>a, <1>2, <1>3, LookupIs, Zenon
  <2> QED
    BY <1>5, <2>1, <2>2, Zenon DEF Entered
<1>7. Catalogued'
  BY <1>0, <1>1, <1>5, <1>6, Zenon DEF Catalogued
<1>8. ASSUME NEW u \in Threads PROVE Referring(u)'
  <2>1. CASE u = t
    BY <1>1, <1>0, <1>4, <2>1, Zenon DEF Referring, Moves
  <2>2. CASE u # t
    <3>1. Referring(u) /\ pc[u] # "copy"
      BY <1>0, <1>1, Zenon DEF Excluded
    <3>2. ref[u] # None => ref[u] \in alive' /\ ref[u] \in Objects
      BY <1>0, <1>1, <3>1, Zenon DEF Referring
    <3>3. Sole(u) /\ ref[u] # None => o # ref[u] /\ ~Entered(tables', ref[u])
      BY <1>4, <1>6, <3>2, Zenon DEF Sole
    <3> QED
      BY <1>1, <2>2, <3>1, <3>2, <3>3, OthersRefer, Zenon
  <2> QED
    BY <2>1, <2>2, Zenon
<1>9. Balanced(o)'
  <2>1. Owners(o)' = Owners(o) \cup {t} /\ t \notin Owners(o)
    BY <1>0, <1>1, <1>2, <1>4, Zenon DEF Owners, Moves
  <2>2. Cardinality(Owners(o)') = Cardinality(Owners(o)) + 1 /\ Cardinality(Owners(o)) \in Nat
    BY <2>1, OwnersAreFinite, FS_AddElement, Zenon
  <2>3. strong[o] = Listed(o) + Cardinality(Owners(o)) /\ Listed(o) = 1 /\ Listed(o)' = 0
    BY <1>0, <1>3, <1>4, <1>6, Zenon DEF Balanced, Listed
  <2> QED
    BY <1>1, <2>1, <2>2, <2>3 DEF Balanced
<1>10. ASSUME NEW x \in alive, x # o PROVE Balanced(x)'
  BY <1>0, <1>1, <1>2, <1>6, <1>10, OthersBalanced, Zenon
<1> QED
  BY <1>1, <1>7, <1>8, <1>9, <1>10, Zenon DEF DatabaseInv
(* find() of a name that is there. *)
LEMMA FindStep ==
  ASSUME DatabaseInv, Typed', Excluded', NEW t \in Threads, GetFinds(t), Lookup(name[t]) # None
  PROVE  DatabaseInv'
<1>a. PICK n0, o : n0 = name[t] /\ o = Lookup(name[t])
  OBVIOUS
<1>0. /\ Typed /\ Catalogued /\ \A u \in Threads : Referring(u)
      /\ \A x \in alive : Balanced(x) /\ x \in Objects /\ x # None
  BY DatabaseAssumption, Zenon DEF DatabaseInv, Typed
<1>1. /\ pc[t] = "find" /\ tables' = tables /\ Moves(t, "copy", o)
      /\ alive' = alive /\ strong' = strong
  BY <1>a, <1>0, MovesTo, Zenon DEF GetFinds, heap
<1>2. n0 \in Names /\ ref[t] = None
  BY <1>a, <1>0, <1>1, Zenon DEF Typed, Referring
<1>3. Maps(tables, n0, o) /\ o \in Objects
  BY <1>a, <1>0, <1>2, LookupIs, Zenon DEF Catalogued
<1>4. Entered(tables, o) /\ o \in alive /\ o # None
  BY <1>0, <1>2, <1>3, Zenon DEF Entered, Catalogued
<1>5. Catalogued'
  BY <1>0, <1>1, Zenon DEF Catalogued
<1>6. ASSUME NEW u \in Threads PROVE Referring(u)'
  <2>1. CASE u = t
    BY <1>1, <1>4, <2>1, Zenon DEF Referring, Moves
  <2>2. CASE u # t
    <3>1. Referring(u) /\ (ref[u] # None => ref[u] \in alive')
      BY <1>0, <1>1, Zenon DEF Referring
    <3>2. Sole(u) => o # ref[u] /\ ~Entered(tables', ref[u])
      BY <1>1, <1>4, Zenon DEF Sole
    <3>3. pc[u] = "copy" => Entered(tables', ref[u])
      BY <1>1, <3>1, Zenon DEF Referring
    <3> QED
      BY <1>1, <2>2, <3>1, <3>2, <3>3, OthersRefer, Zenon
  <2> QED
    BY <2>1, <2>2, Zenon
<1>7. ASSUME NEW x \in alive PROVE Balanced(x)'
  <2>1. Owners(x)' = Owners(x) /\ Deleters(x)' = Deleters(x)
    BY <1>0, <1>1, <1>2, Zenon DEF Owners, Deleters, Moves
  <2>2. Balanced(x)
    BY <1>0, Zenon
  <2> QED
    BY <1>1, <2>1, <2>2, Zenon DEF Balanced, Listed
<1> QED
  BY <1>1, <1>5, <1>6, <1>7, Zenon DEF DatabaseInv

(* The copy of a handle. *)
LEMMA CopyStep ==
  ASSUME DatabaseInv, Typed', Excluded', NEW t \in Threads, GetCopies(t)
  PROVE  DatabaseInv'
<1>a. PICK o : o = ref[t]
  OBVIOUS
<1>0. /\ Typed /\ Catalogued /\ \A u \in Threads : Referring(u)
      /\ \A x \in alive : Balanced(x) /\ x \in Objects /\ x # None
  BY DatabaseAssumption, Zenon DEF DatabaseInv, Typed
<1>1. /\ pc[t] = "copy" /\ tables' = tables /\ Moves(t, "unlock", o) /\ alive' = alive
      /\ strong' = [strong EXCEPT ![o] = strong[o] + 1]
  BY <1>a, <1>0, MovesOn, Zenon DEF GetCopies
<1>2. o \in alive
  BY <1>a, <1>0, <1>1, Zenon DEF Referring
<1>3. strong'[o] = strong[o] + 1 /\ \A x \in alive : x # o => strong'[x] = strong[x]
  BY <1>0, <1>1, <1>2, Zenon DEF Typed
<1>4. Catalogued'
  BY <1>0, <1>1, Zenon DEF Catalogued
<1>5. ASSUME NEW u \in Threads PROVE Referring(u)'
  <2>1. CASE u = t
    BY <1>1, <1>2, <2>1, Zenon DEF Referring, Moves
  <2>2. CASE u # t
    <3>1. Referring(u) /\ (ref[u] # None => ref[u] \in alive')
      BY <1>0, <1>1, Zenon DEF Referring
    <3>2. Sole(u) => o # ref[u] /\ ~Entered(tables', ref[u])
      BY <1>a, <1>1, <2>2, Zenon DEF Sole
    <3>3. pc[u] = "copy" => Entered(tables', ref[u])
      BY <1>1, <3>1, Zenon DEF Referring
    <3> QED
      BY <1>1, <2>2, <3>1, <3>2, <3>3, OthersRefer, Zenon
  <2> QED
    BY <2>1, <2>2, Zenon
<1>6. Balanced(o)'
  <2>1. Owners(o)' = Owners(o) \cup {t} /\ t \notin Owners(o)
    BY <1>a, <1>1, Zenon DEF Owners, Moves
  <2>2. Cardinality(Owners(o)') = Cardinality(Owners(o)) + 1 /\ Cardinality(Owners(o)) \in Nat
    BY <2>1, OwnersAreFinite, FS_AddElement, Zenon
  <2>3. /\ strong[o] = Listed(o) + Cardinality(Owners(o)) /\ Listed(o)' = Listed(o)
        /\ Listed(o) \in Nat
    BY <1>0, <1>1, <1>2, Zenon DEF Balanced, Listed
  <2> QED
    BY <1>3, <2>1, <2>2, <2>3 DEF Balanced
<1>7. ASSUME NEW x \in alive, x # o PROVE Balanced(x)'
  BY <1>a, <1>0, <1>1, <1>3, <1>7, OthersBalanced, Zenon
<1> QED
  BY <1>1, <1>4, <1>5, <1>6, <1>7, Zenon DEF DatabaseInv

(* The fetch_sub of a release. *)
LEMMA DecrementStep ==
  ASSUME DatabaseInv, Typed', Excluded', NEW t \in Threads, ReleaseDecrements(t)
  PROVE  DatabaseInv'
<1>a. PICK o : o = ref[t]
  OBVIOUS
<1>0. /\ Typed /\ Catalogued /\ \A u \in Threads : Referring(u)
      /\ \A x \in alive : Balanced(x) /\ x \in Objects /\ x # None
  BY DatabaseAssumption, Zenon DEF DatabaseInv, Typed
<1>1. /\ pc[t] = "release" /\ tables' = tables /\ alive' = alive
      /\ strong' = [strong EXCEPT ![o] = strong[o] - 1]
  BY <1>a, Zenon DEF ReleaseDecrements
<1>2. o \in alive /\ o # None
  BY <1>a, <1>0, <1>1, Zenon DEF Referring
<1>3. strong'[o] = strong[o] - 1 /\ \A x \in alive : x # o => strong'[x] = strong[x]
  BY <1>0, <1>1, <1>2, Zenon DEF Typed
<1>4. Catalogued'
  BY <1>0, <1>1, Zenon DEF Catalogued
<1>5. t \in Owners(o)
  BY <1>a, <1>1, Zenon DEF Owners
<1>6. /\ IsFiniteSet(Owners(o) \ {t}) /\ Cardinality(Owners(o)) \in Nat
      /\ Cardinality(Owners(o) \ {t}) = Cardinality(Owners(o)) - 1
      /\ Cardinality(Owners(o) \ {t}) \in Nat
  BY <1>5, OwnersAreFinite, FS_RemoveElement, FS_CardinalityType, Zenon
<1>7. strong[o] = Listed(o) + Cardinality(Owners(o)) /\ Listed(o) \in Nat
  BY <1>0, <1>2, Zenon DEF Balanced, Listed
<1>8. ASSUME NEW loc, NEW p, Moves(t, loc, p), loc = "delete" \/ p = None
      PROVE  /\ Owners(o)' = Owners(o) \ {t}
             /\ strong'[o] = Listed(o)' + Cardinality(Owners(o)')
  <2>1. Owners(o)' = Owners(o) \ {t}
    BY <1>2, <1>8, Zenon DEF Owners, Moves
  <2>2. Listed(o)' = Listed(o)
    BY <1>1, Zenon DEF Listed
  <2> QED
    BY <1>3, <1>6, <1>7, <2>1, <2>2
<1>9. CASE strong[o] = 1
  <2>1. Moves(t, "delete", o)
    BY <1>a, <1>0, <1>9, MovesOn, Zenon DEF ReleaseDecrements, WasLast
  <2>2. Listed(o) = 0 /\ Cardinality(Owners(o) \ {t}) = 0
    BY <1>6, <1>7, <1>9
  <2>3. ~Entered(tables, o) /\ Owners(o) \ {t} = {}
    BY <1>6, <2>2, FS_EmptySet DEF Listed
  <2>4. ASSUME NEW u \in Threads, u # t PROVE ref[u] # o
    <3>1. CASE pc[u] = "copy"
      BY <1>0, <2>3, <3>1, Zenon DEF Referring
    <3>2. CASE pc[u] = "delete"
      BY <1>a, <1>0, <2>4, <3>2, Zenon DEF Referring, Sole
    <3> QED
      BY <2>3, <2>4, <3>1, <3>2, Zenon DEF Owners
  <2>5. ASSUME NEW u \in Threads PROVE Referring(u)'
    <3>1. CASE u = t
      <4>1. Sole(t)'
        BY <1>1, <2>1, <2>3, <2>4, Zenon DEF Sole, Moves
      <4> QED
        BY <1>1, <1>2, <2>1, <3>1, <4>1, Zenon DEF Referring, Moves
    <3>2. CASE u # t
      <4>1. Referring(u) /\ (ref[u] # None => ref[u] \in alive')
        BY <1>0, <1>1, Zenon DEF Referring
      <4>2. Sole(u) => o # ref[u] /\ ~Entered(tables', ref[u])
        BY <1>1, <2>4, <3>2, Zenon DEF Sole
      <4>3. pc[u] = "copy" => Entered(tables', ref[u])
        BY <1>1, <4>1, Zenon DEF Referring
      <4> QED
        BY <2>1, <3>2, <4>1, <4>2, <4>3, OthersRefer
    <3> QED
      BY <3>1, <3>2, Zenon
  <2>6. Balanced(o)'
    <3>1. t \in Deleters(o)'
      BY <2>1, Zenon DEF Deleters, Moves
    <3> QED
      BY <1>8, <2>1, <3>1, Zenon DEF Balanced
  <2>7. ASSUME NEW x \in alive, x # o PROVE Balanced(x)'
    BY <1>a, <1>0, <1>1, <1>3, <2>1, <2>7, OthersBalanced, Zenon
  <2> QED
    BY <1>1, <1>4, <2>5, <2>6, <2>7, Zenon DEF DatabaseInv
<1>10. CASE strong[o] # 1
  <2>0. PICK loc \in {"unlock", "idle"} : Moves(t, loc, None)
    BY <1>a, <1>0, <1>10, MovesTo, Zenon DEF ReleaseDecrements, WasLast, AfterRelease
  <2>1. ASSUME NEW u \in Threads PROVE Referring(u)'
    <3>1. CASE u = t
      BY <2>0, <3>1, Zenon DEF Referring, Moves
    <3>2. CASE u # t
      <4>1. Referring(u) /\ (ref[u] # None => ref[u] \in alive')
        BY <1>0, <1>1, Zenon DEF Referring
      <4>2. Sole(u) => ~Entered(tables', ref[u])
        BY <1>1, Zenon DEF Sole
      <4>3. pc[u] = "copy" => Entered(tables', ref[u])
        BY <1>1, <4>1, Zenon DEF Referring
      <4> QED
        BY <2>0, <3>2, <4>1, <4>2, <4>3, OthersRefer, Zenon
    <3> QED
      BY <3>1, <3>2, Zenon
  <2>2. Balanced(o)'
    <3>1. Owners(o)' = Owners(o) \ {t} /\ strong'[o] = Listed(o)' + Cardinality(Owners(o)')
      BY <1>8, <2>0, Zenon
    <3>2. ASSUME ~Entered(tables, o), Owners(o) \ {t} = {} PROVE FALSE
      <4>1. Listed(o) = 0 /\ Cardinality(Owners(o) \ {t}) = 0
        BY <3>2, FS_EmptySet, Zenon DEF Listed
      <4> QED
        BY <1>6, <1>7, <1>10, <4>1
    <3> QED
      BY <1>1, <3>1, <3>2, Zenon DEF Balanced
  <2>3. ASSUME NEW x \in alive, x # o PROVE Balanced(x)'
    BY <1>a, <1>0, <1>1, <1>3, <2>0, <2>3, OthersBalanced, Zenon
  <2> QED
    BY <1>1, <1>4, <2>1, <2>2, <2>3, Zenon DEF DatabaseInv
<1> QED
  BY <1>9, <1>10, Zenon

(* The deletion of a table. *)
LEMMA DeleteStep ==
  ASSUME DatabaseInv, Typed', Excluded', NEW t \in Threads, ReleaseDeletes(t)
  PROVE  DatabaseInv'
<1>a. PICK o : o = ref[t]
  OBVIOUS
<1>0. /\ Typed /\ Catalogued /\ \A u \in Threads : Referring(u)
      /\ \A x \in alive : Balanced(x) /\ x \in Objects /\ x # None
  BY DatabaseAssumption, Zenon DEF DatabaseInv, Typed
<1>1. pc[t] = "delete" /\ tables' = tables /\ alive' = alive \ {o} /\ strong' = strong
  BY <1>a, Zenon DEF ReleaseDeletes
<1>2. PICK loc \in {"unlock", "idle"} : Moves(t, loc, None)
  BY <1>0, MovesTo, Zenon DEF ReleaseDeletes, AfterRelease
<1>3. ~Entered(tables, o) /\ \A u \in Threads : u # t => ref[u] # o
  BY <1>a, <1>0, <1>1, Zenon DEF Referring, Sole
<1>4. Catalogued'
  BY <1>0, <1>1, <1>3, Zenon DEF Catalogued
<1>5. ASSUME NEW u \in Threads PROVE Referring(u)'
  <2>1. CASE u = t
    BY <1>2, <2>1, Zenon DEF Referring, Moves
  <2>2. CASE u # t
    <3>1. Referring(u) /\ (ref[u] # None => ref[u] \in alive')
      BY <1>0, <1>1, <1>3, <2>2, Zenon DEF Referring
    <3>2. Sole(u) => ~Entered(tables', ref[u])
      BY <1>1, Zenon DEF Sole
    <3>3. pc[u] = "copy" => Entered(tables', ref[u])
      BY <1>1, <3>1, Zenon DEF Referring
    <3> QED
      BY <1>2, <2>2, <3>1, <3>2, <3>3, OthersRefer, Zenon
  <2> QED
    BY <2>1, <2>2, Zenon
<1>6. ASSUME NEW x \in alive, x # o PROVE Balanced(x)'
  BY <1>a, <1>0, <1>1, <1>2, <1>6, OthersBalanced, Zenon
<1> QED
  BY <1>1, <1>4, <1>5, <1>6, Zenon DEF DatabaseInv
(* The steps that leave handles and catalogue alone. *)
LEMMA LockingSteps ==
  ASSUME DatabaseInv, Typed', Excluded', NEW t \in Threads,
         \/ \E method \in {"get", "drop"}, n \in Names : Calls(t, method, n)
         \/ LockShared(t) \/ LockWaits(t) \/ LockExclusive(t) \/ Unlock(t) \/ UseEnds(t)
  PROVE  DatabaseInv'
<1>0. Typed /\ Catalogued /\ Referring(t)
  BY Zenon DEF DatabaseInv
<1>1. tables' = tables /\ UNCHANGED heap /\ ref' = ref
  BY Zenon DEF Calls, LockShared, LockWaits, LockExclusive, Unlock, UseEnds, heap
<1>2. SameTables
  BY <1>0, <1>1, UnchangedTables, Zenon
<1>3. \E loc : Quiet(t, loc)
  <2> USE DEF GoTo, Quiet
  <2>1. ASSUME NEW method \in {"get", "drop"}, NEW n \in Names, Calls(t, method, n)
        PROVE  Quiet(t, method)
    BY <1>0, <2>1, Zenon DEF Calls, Referring
  <2>2. ASSUME LockShared(t) PROVE Quiet(t, "find")
    BY <1>0, <2>2, Zenon DEF LockShared, Referring
  <2>3. ASSUME LockWaits(t) PROVE Quiet(t, pc[t])
    BY <1>0, <2>3, Zenon DEF LockWaits, Referring, Typed
  <2>4. ASSUME LockExclusive(t) PROVE Quiet(t, IF pc[t] = "create" THEN "insert" ELSE "erase")
    BY <1>0, <2>4, Zenon DEF LockExclusive, Referring
  <2>5. ASSUME Unlock(t) PROVE Quiet(t, IF ref[t] = None THEN "idle" ELSE "use")
    BY <1>0, <2>5, Zenon DEF Unlock, Referring
  <2>6. ASSUME UseEnds(t) PROVE Quiet(t, "release")
    BY <1>0, <2>6, Zenon DEF UseEnds, Referring
  <2> HIDE DEF Quiet
  <2> QED
    BY <2>1, <2>2, <2>3, <2>4, <2>5, <2>6, Zenon
<1> QED
  BY <1>1, <1>2, <1>3, QuietStep, Zenon

(* createTable() of a name that is there, and the other two of one that is  *)
(* not.                                                                     *)
LEMMA MissSteps ==
  ASSUME DatabaseInv, Typed', Excluded', NEW t \in Threads,
         \/ CreateInserts(t) /\ Lookup(name[t]) # None
         \/ DropErases(t) /\ Lookup(name[t]) = None
         \/ GetFinds(t) /\ Lookup(name[t]) = None
  PROVE  DatabaseInv'
<1>0. /\ Typed /\ Catalogued /\ Referring(t) /\ IsMap(tables, Names, Objects)
      /\ \A x \in alive : x \in Objects
  BY Zenon DEF DatabaseInv, Catalogued, Typed
<1>1. name[t] \in Names
  BY <1>0, Zenon DEF Typed
<1>2. Lookup(name[t]) # None <=> HasKey(tables, name[t])
  BY <1>0, <1>1, LookupIs, Zenon
<1>3. CASE CreateInserts(t) /\ Lookup(name[t]) # None
  <2>1. /\ pc[t] = "insert" /\ pc' = [pc EXCEPT ![t] = "release"] /\ ref' = ref
        /\ UNCHANGED heap /\ tables' = Insert(tables, name[t], ref[t])
    BY <1>3, Zenon DEF CreateInserts, GoTo, Inserted
  <2>2. ref[t] # None /\ ref[t] \in Objects
    BY <1>0, <2>1, Zenon DEF Referring
  <2>3. SameTables
    BY <1>0, <1>1, <1>2, <1>3, <2>1, <2>2, HashesNames, InsertingOld, Zenon DEF SameTables
  <2>4. Quiet(t, "release")
    BY <2>1, <2>2, Zenon DEF Quiet
  <2> QED
    BY <2>1, <2>2, <2>3, <2>4, QuietStep, Zenon
<1>4. CASE DropErases(t) /\ Lookup(name[t]) = None
  <2>1. /\ pc[t] = "erase" /\ pc' = [pc EXCEPT ![t] = "unlock"]
        /\ UNCHANGED heap /\ tables' = tables
    BY <1>2, <1>4, Zenon DEF DropErases, GoTo, Erase
  <2>2. ref' = ref
    <3>1. ref[t] = None
      BY <1>0, <2>1, Zenon DEF Referring
    <3> QED
      BY <1>0, <1>4, <3>1, Zenon DEF DropErases, Holds, Typed
  <2>3. SameTables /\ Quiet(t, "unlock")
    BY <1>0, <2>1, UnchangedTables, Zenon DEF Quiet
  <2> QED
    BY <2>1, <2>2, <2>3, QuietStep, Zenon
<1>5. CASE GetFinds(t) /\ Lookup(name[t]) = None
  <2>1. /\ pc[t] = "find" /\ pc' = [pc EXCEPT ![t] = "unlock"]
        /\ UNCHANGED heap /\ tables' = tables
    BY <1>5, Zenon DEF GetFinds, GoTo
  <2>2. ref' = ref
    <3>1. ref[t] = None
      BY <1>0, <2>1, Zenon DEF Referring
    <3> QED
      BY <1>0, <1>5, <3>1, Zenon DEF GetFinds, Holds, Typed
  <2>3. SameTables /\ Quiet(t, "unlock")
    BY <1>0, <2>1, UnchangedTables, Zenon DEF Quiet
  <2> QED
    BY <2>1, <2>2, <2>3, QuietStep, Zenon
<1> QED
  BY <1>3, <1>4, <1>5, Zenon

LEMMA DatabaseStep ==
  ASSUME DatabaseInv, [Next]_vars PROVE DatabaseInv'
<1>1. CASE UNCHANGED vars
  <2>1. /\ readers' = readers /\ writers' = writers /\ queued' = queued /\ tables' = tables
        /\ alive' = alive /\ strong' = strong /\ pc' = pc /\ name' = name /\ ref' = ref
    BY <1>1, Zenon DEF vars, lock, heap
  <2>2. \A o : Owners(o)' = Owners(o) /\ Deleters(o)' = Deleters(o)
    BY <2>1, Zenon DEF Owners, Deleters
  <2>3. \A o \in alive : Balanced(o)'
    BY <2>1, <2>2, Zenon DEF DatabaseInv, Balanced, Listed
  <2>4. \A t \in Threads : Referring(t)'
    BY <2>1, Zenon DEF DatabaseInv, Referring, Sole
  <2>5. Typed' /\ Excluded' /\ Catalogued'
    BY <2>1, Zenon DEF DatabaseInv, Typed, Excluded, Catalogued
  <2> QED
    BY <2>1, <2>3, <2>4, <2>5, Zenon DEF DatabaseInv
<1>2. CASE Next
  <2>1. PICK t \in Threads, method \in {"create", "get", "drop"}, n \in Names :
            \/ Calls(t, method, n)
            \/ LockShared(t) \/ LockWaits(t) \/ LockExclusive(t) \/ Unlock(t)
            \/ CreateInserts(t) \/ DropErases(t)
            \/ GetFinds(t) \/ GetCopies(t) \/ UseEnds(t)
            \/ ReleaseDecrements(t) \/ ReleaseDeletes(t)
    <3>1. \E method \in {"create", "get", "drop"} : TRUE
      BY Zenon
    <3>2. \E n \in Names : TRUE
      BY DatabaseAssumption, Zenon
    <3> QED
      BY <1>2, <3>1, <3>2, Zenon DEF Next
  <2>2. Typed' /\ Excluded'
    <3>1. Typed /\ Excluded
      BY Zenon DEF DatabaseInv
    <3>2. Typed'
      BY <2>1, TypedStep, Zenon
    <3> QED
      BY <2>1, <3>1, <3>2, ExcludedStep, Zenon
  <2>3. CASE Calls(t, method, n)
    <3>1. CASE method = "create"
      BY <2>2, <2>3, <3>1, CreateStep, Zenon
    <3>2. CASE method \in {"get", "drop"}
      BY <2>2, <2>3, <3>2, LockingSteps, Zenon
    <3> QED
      BY <3>1, <3>2, Zenon
  <2>4. CASE LockShared(t) \/ LockWaits(t) \/ LockExclusive(t) \/ Unlock(t) \/ UseEnds(t)
    BY <2>2, <2>4, LockingSteps, Zenon
  <2>5. CASE CreateInserts(t)
    BY <2>2, <2>5, InsertStep, MissSteps, Zenon
  <2>6. CASE DropErases(t)
    BY <2>2, <2>6, EraseStep, MissSteps, Zenon
  <2>7. CASE GetFinds(t)
    BY <2>2, <2>7, FindStep, MissSteps, Zenon
  <2>8. CASE GetCopies(t)
    BY <2>2, <2>8, CopyStep, Zenon
  <2>9. CASE ReleaseDecrements(t)
    BY <2>2, <2>9, DecrementStep, Zenon
  <2>10. CASE ReleaseDeletes(t)
    BY <2>2, <2>10, DeleteStep, Zenon
  <2> QED
    BY <2>1, <2>3, <2>4, <2>5, <2>6, <2>7, <2>8, <2>9, <2>10, Zenon
<1> QED
  BY <1>1, <1>2, Zenon
LEMMA DatabaseStarts == Init => DatabaseInv
<1> SUFFICES ASSUME Init PROVE DatabaseInv
  OBVIOUS
<1>1. /\ readers = {} /\ writers = {} /\ queued = {} /\ alive = {} /\ tables = Blank(MinCapacity)
      /\ strong = [o \in Objects |-> 0] /\ pc = [t \in Threads |-> "idle"]
      /\ name = [t \in Threads |-> CHOOSE n \in Names : TRUE] /\ ref = [t \in Threads |-> None]
  BY Zenon DEF Init, Lock!LockInit, EmptyMap
<1>2. Typed
  <2>1. (CHOOSE n \in Names : TRUE) \in Names
    BY DatabaseAssumption, Zenon
  <2> QED
    BY <1>1, <2>1, Zenon DEF Typed, Locations
<1>3. Excluded
  BY <1>1, Zenon DEF Excluded
<1>4. IsMap(tables, Names, Objects) /\ \A n, o : ~Maps(tables, n, o)
  BY <1>1, HashAssumption, Blanks, Zenon
<1>5. Catalogued
  BY <1>4, Zenon DEF Catalogued, Entered
<1>6. \A t \in Threads : Referring(t)
  BY <1>1, Zenon DEF Referring
<1> QED
  BY <1>1, <1>2, <1>3, <1>5, <1>6, Zenon DEF DatabaseInv

(* The invariant holds throughout. *)
THEOREM DatabaseInvariant == Spec => []DatabaseInv
<1>1. Init => DatabaseInv
  BY DatabaseStarts, Zenon
<1>2. DatabaseInv /\ [Next]_vars => DatabaseInv'
  BY DatabaseStep, Zenon
<1> QED
  BY <1>1, <1>2, PTL DEF Spec

-----------------------------------------------------------------------------
LEMMA SlotsOf ==
  ASSUME DatabaseInv, NEW o \in Objects
  PROVE  Cardinality(Slots(o)) = Listed(o) /\ (Slots(o) # {} <=> Entered(tables, o))
<1>0. /\ Catalogued /\ IsMap(tables, Names, Objects) /\ Shape(tables, Names, Objects)
      /\ NoTwin(tables)
  BY Zenon DEF DatabaseInv, Catalogued, IsMap, Placed
<1>1. DOMAIN tables.slots = 1..Capacity(tables)
  BY <1>0, Array, Zenon
<1>2. ASSUME NEW i \in Slots(o)
      PROVE  /\ i \in OccupiedSlots(tables) /\ tables.slots[i][1] \in Names
             /\ Maps(tables, tables.slots[i][1], o)
  <2>1. /\ i \in 1..Capacity(tables) /\ HoldsKey(tables, i, tables.slots[i][1])
        /\ tables.slots[i][2] = o /\ i \in OccupiedSlots(tables)
    BY <1>1, <1>2, Zenon DEF Slots, HoldsKey, OccupiedSlots
  <2>2. /\ tables.slots[i][1] \in Names
        /\ tables.slots[i] = <<tables.slots[i][1], tables.slots[i][2]>>
    BY <1>0, <2>1, Holding
  <2> QED
    BY <1>1, <2>1, <2>2, Zenon DEF Maps
<1>3. \A i, j \in Slots(o) : i = j
  BY <1>0, <1>2, Zenon DEF NoTwin, Catalogued
<1>4. Entered(tables, o) => Slots(o) # {}
  <2> SUFFICES ASSUME Entered(tables, o) PROVE Slots(o) # {}
    OBVIOUS
  <2>1. PICK n \in Names, i \in DOMAIN tables.slots : tables.slots[i] = <<n, o>>
    BY Zenon DEF Entered, Maps
  <2>2. Occupied(tables.slots[i]) /\ tables.slots[i][2] = o
    BY <2>1, Tuples
  <2> QED
    BY <2>1, <2>2, Zenon DEF Slots
<1>5. Slots(o) # {} => Entered(tables, o)
  BY <1>2, Zenon DEF Entered
<1>6. CASE Slots(o) = {}
  BY <1>4, <1>6, FS_EmptySet, Zenon DEF Listed
<1>7. CASE Slots(o) # {}
  <2>1. PICK i : Slots(o) = {i}
    BY <1>3, <1>7, Zenon
  <2> QED
    BY <1>5, <1>7, <2>1, FS_Singleton, Zenon DEF Listed
<1> QED
  BY <1>4, <1>5, <1>6, <1>7, Zenon

(* The count of a table is the number of its handles. *)
THEOREM DatabaseCounts == Spec => []CountsAreExact
<1>1. DatabaseInv => CountsAreExact
  <2> SUFFICES ASSUME DatabaseInv, NEW o \in alive
               PROVE  strong[o] = Cardinality(Slots(o)) + Cardinality(Owners(o))
    BY Zenon DEF CountsAreExact
  <2>1. o \in Objects /\ strong[o] = Listed(o) + Cardinality(Owners(o))
    BY Zenon DEF DatabaseInv, Typed, Balanced
  <2> QED
    BY <2>1, SlotsOf, Zenon
<1> QED
  BY <1>1, DatabaseInvariant, PTL

(* A table is allocated exactly as long as somebody refers to it, and a     *)
(* table that is being deleted is nobody else's.                            *)
THEOREM DatabaseLifetimes == Spec => []LivesAsLongAsItsHandles
<1>1. DatabaseInv => LivesAsLongAsItsHandles
  <2> SUFFICES ASSUME DatabaseInv PROVE LivesAsLongAsItsHandles
    OBVIOUS
  <2>0. /\ Typed /\ Catalogued /\ \A u \in Threads : Referring(u)
        /\ \A o \in alive : Balanced(o) /\ o \in Objects
    BY Zenon DEF DatabaseInv, Typed
  <2>1. \A o \in Objects : Slots(o) # {} <=> Entered(tables, o)
    BY SlotsOf, Zenon
  <2>2. ASSUME NEW o \in alive PROVE Slots(o) # {} \/ Owners(o) # {} \/ Deleters(o) # {}
    BY <2>0, <2>1, Zenon DEF Balanced
  <2>3. ASSUME NEW o \in Objects, Deleters(o) # {}
        PROVE  Slots(o) = {} /\ Cardinality({t \in Threads : ref[t] = o}) = 1
    <3>1. PICK t \in Threads : ref[t] = o /\ pc[t] = "delete"
      BY <2>3, Zenon DEF Deleters
    <3>2. Sole(t)
      BY <2>0, <3>1, Zenon DEF Referring
    <3>3. {u \in Threads : ref[u] = o} = {t}
      BY <3>1, <3>2, Zenon DEF Sole
    <3> QED
      BY <2>1, <3>1, <3>2, <3>3, FS_Singleton, Zenon DEF Sole
  <2>4. \A t \in Threads : ref[t] # None => ref[t] \in alive
    BY <2>0, Zenon DEF Referring
  <2>5. \A o \in Objects : Slots(o) # {} => o \in alive
    BY <2>0, <2>1, Zenon DEF Catalogued
  <2> QED
    BY <2>0, <2>2, <2>3, <2>4, <2>5, Zenon DEF LivesAsLongAsItsHandles
<1> QED
  BY <1>1, DatabaseInvariant, PTL
LEMMA SameLookup ==
  ASSUME NEW m, IsMap(m, Names, Objects), NEW r, IsMap(r, Names, Objects), NEW n \in Names,
         \A o : Maps(r, n, o) <=> Maps(m, n, o)
  PROVE  LookupIn(r, n) = LookupIn(m, n)
<1>1. LookupIn(m, n) # None => Maps(m, n, LookupIn(m, n))
  BY LookupInIs, Zenon
<1>2. LookupIn(r, n) # None => Maps(r, n, LookupIn(r, n))
  BY LookupInIs, Zenon
<1>3. \A o : Maps(m, n, o) => LookupIn(m, n) = o
  BY LookupInIs, Zenon
<1>4. \A o : Maps(r, n, o) => LookupIn(r, n) = o
  BY LookupInIs, Zenon
<1> QED
  BY <1>1, <1>2, <1>3, <1>4, Zenon

(* The catalogue changes one name at a time, by a call that may change it.  *)
THEOREM DatabaseNames == Spec => NamesChangeByTheirCalls
<1> DEFINE ByItsCall ==
      \A n \in Names : Lookup(n)' # Lookup(n) =>
          \E t \in writers : /\ name[t] = n
                             /\ \/ pc[t] = "insert" /\ Lookup(n) = None
                                \/ pc[t] = "erase" /\ Lookup(n)' = None
<1>1. DatabaseInv /\ DatabaseInv' /\ [Next]_vars => [ByItsCall]_vars
  <2> SUFFICES ASSUME DatabaseInv, DatabaseInv', Next, NEW n \in Names, Lookup(n)' # Lookup(n)
               PROVE  \E t \in writers :
                         /\ name[t] = n
                         /\ \/ pc[t] = "insert" /\ Lookup(n) = None
                            \/ pc[t] = "erase" /\ Lookup(n)' = None
    BY Zenon
  <2>1. /\ Lookup(n) = LookupIn(tables, n) /\ Lookup(n)' = LookupIn(tables', n)
        /\ IsMap(tables, Names, Objects) /\ IsMap(tables', Names, Objects) /\ Typed /\ Excluded
        /\ \A t \in Threads : Referring(t)
    BY Zenon DEF Lookup, LookupIn, DatabaseInv, Catalogued
  <2>2. tables' # tables
    BY <2>1, Zenon
  <2>3. PICK t \in Threads : CreateInserts(t) \/ DropErases(t)
    BY <2>2, Zenon
       DEF Next, Calls, LockShared, LockWaits, LockExclusive, Unlock, GetFinds, GetCopies,
                UseEnds, ReleaseDecrements, ReleaseDeletes
  <2>4. ~\A o : Maps(tables', n, o) <=> Maps(tables, n, o)
    BY <2>1, SameLookup, Zenon
  <2>5. name[t] \in Names /\ (Lookup(name[t]) # None <=> HasKey(tables, name[t]))
    <3>1. name[t] \in Names
      BY <2>1, Zenon DEF Typed
    <3> QED
      BY <2>1, <3>1, LookupIs, Zenon
  <2>6. CASE CreateInserts(t)
    <3>1. /\ pc[t] = "insert" /\ tables' = Insert(tables, name[t], ref[t]) /\ t \in writers
          /\ ref[t] \in Objects
      <4>1. pc[t] = "insert" /\ tables' = Insert(tables, name[t], ref[t])
        BY <2>6, Zenon DEF CreateInserts, Inserted
      <4> QED
        BY <2>1, <4>1, Zenon DEF Excluded, Referring, Typed
    <3>2. ~HasKey(tables, name[t])
      BY <2>1, <2>4, <2>5, <3>1, HashesNames, InsertingOld, Zenon DEF Same
    <3>3. \A a, w : Maps(tables', a, w) <=> Maps(tables, a, w) \/ (a = name[t] /\ w = ref[t])
      <4>1. Gains(tables, name[t], ref[t], tables', Names, Objects)
        BY <2>1, <2>5, <3>1, <3>2, HashesNames, InsertingNew, Zenon
      <4> QED
        BY <4>1, Zenon DEF Gains
    <3>4. n = name[t]
      BY <2>4, <3>3, Zenon
    <3> QED
      BY <2>5, <3>1, <3>2, <3>4, Zenon
  <2>7. CASE DropErases(t)
    <3>1. pc[t] = "erase" /\ tables' = Erase(tables, name[t]) /\ t \in writers
      BY <2>1, <2>7, Zenon DEF DropErases, Excluded
    <3>2. \A a, w : Maps(tables', a, w) <=> Maps(tables, a, w) /\ a # name[t]
      BY <2>1, <2>5, <3>1, HashesNames, Erasing, Zenon DEF Loses
    <3>3. n = name[t]
      BY <2>4, <3>2, Zenon
    <3>4. LookupIn(tables', n) = None
      BY <2>1, <3>2, <3>3, LookupInIs, Zenon
    <3> QED
      BY <2>1, <3>1, <3>3, <3>4, Zenon
  <2> QED
    BY <2>3, <2>6, <2>7, Zenon
<1>2. DatabaseInv /\ [Next]_vars => DatabaseInv'
  BY DatabaseStep, Zenon
<1> QED
  BY <1>1, <1>2, DatabaseInvariant, PTL DEF Spec, NamesChangeByTheirCalls
=============================================================================
