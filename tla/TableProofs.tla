---------------------------- MODULE TableProofs ----------------------------
(***************************************************************************)
(* A table shared by any number of threads is linearizable: whatever the   *)
(* ids, the values, the predicates and the capacity of the cache, its      *)
(* calls behave as those of AtomicTable.                                   *)
(*                                                                         *)
(* First the invariant, the facts about the operations that it needs and   *)
(* one lemma for each step; then what finite sets of ids have to offer to  *)
(* a walk; then the conclusions.                                           *)
(***************************************************************************)
EXTENDS Table, TableRefinement, FiniteSetTheorems, WellFoundedInduction, TLAPS

(* The rows in the sequence s are those of the ids in S, in order. *)
Row == Ids \X (Vals \cup {NoRow})

Enumerates(s, S, contents) ==
    /\ s \in Seq(Row)
    /\ \A i \in 1..Len(s) : s[i][1] \in S /\ s[i] = <<s[i][1], contents[s[i][1]]>>
    /\ \A i, j \in 1..Len(s) : i < j => s[i][1] < s[j][1]
    /\ \A id \in S : \E i \in 1..Len(s) : s[i][1] = id

(* What a walk needs to know of finite sets of integers: they have a least  *)
(* element, and only one sorted enumeration (proved after the steps).       *)
Walks ==
    /\ \E id \in Ids : \A other \in Ids : id <= other
    /\ \A S \in SUBSET Ids : \A s, contents :
          Enumerates(s, S, contents) =>
              /\ Len(s) = Cardinality(S)
              /\ s = [i \in DOMAIN InOrder(S) |-> <<InOrder(S)[i], contents[InOrder(S)[i]]>>]

(* A scan appends the rows it visits in ascending order. *)
LEMMA Extend ==
  ASSUME NEW S \in SUBSET Ids, NEW s, NEW contents \in Contents, Enumerates(s, S, contents),
         NEW m \in Ids, \A id \in S : id < m
  PROVE  Enumerates(Append(s, <<m, contents[m]>>), S \cup {m}, contents)
<1>1. <<m, contents[m]>> \in Row
  BY Zenon DEF Row, Contents
<1>2. PICK e \in Row : e = <<m, contents[m]>> /\ e[1] = m
  BY <1>1, Zenon
<1>3. PICK a \in Seq(Row) : a = Append(s, e)
  <2>1. s \in Seq(Row)
    BY Zenon DEF Enumerates
  <2>2. Append(s, e) \in Seq(Row)
    BY <2>1
  <2> QED
    BY <2>2, Zenon
<1>4. PICK n \in Nat : n = Len(s)
  BY DEF Enumerates
<1>5. Len(a) = n + 1 /\ a[n + 1] = e /\ \A i \in 1..n : a[i] = s[i]
  BY <1>3, <1>4 DEF Enumerates
<1>6. /\ \A i \in 1..n : s[i][1] \in S /\ s[i] = <<s[i][1], contents[s[i][1]]>>
      /\ \A i, j \in 1..n : i < j => s[i][1] < s[j][1]
      /\ \A id \in S : \E i \in 1..n : s[i][1] = id
  BY <1>4, Zenon DEF Enumerates
<1>7. \A i \in 1..(n + 1) : i \in 1..n \/ i = n + 1
  OBVIOUS
<1>8. \A i \in 1..(n + 1) : a[i][1] \in S \cup {m} /\ a[i] = <<a[i][1], contents[a[i][1]]>>
  BY <1>2, <1>5, <1>6, <1>7, Zenon
<1>9. \A i, j \in 1..(n + 1) : i < j => a[i][1] < a[j][1]
  <2> SUFFICES ASSUME NEW i \in 1..(n + 1), NEW j \in 1..(n + 1), i < j
               PROVE  a[i][1] < a[j][1]
    OBVIOUS
  <2>1. i \in 1..n
    OBVIOUS
  <2>2. CASE j \in 1..n
    BY <1>5, <1>6, <2>1, <2>2, Zenon
  <2>3. CASE j = n + 1
    BY <1>2, <1>5, <1>6, <2>1, <2>3
  <2> QED
    BY <1>7, <2>2, <2>3, Zenon
<1>10. \A id \in S \cup {m} : \E i \in 1..(n + 1) : a[i][1] = id
  <2> TAKE id \in S \cup {m}
  <2>1. CASE id = m
    <3>1. n + 1 \in 1..(n + 1) /\ a[n + 1][1] = id
      BY <1>2, <1>5, <2>1
    <3> QED
      BY <3>1, Zenon
  <2>2. CASE id \in S
    <3>1. PICK i \in 1..n : s[i][1] = id
      BY <1>6, <2>2, Zenon
    <3>2. i \in 1..(n + 1) /\ a[i][1] = id
      BY <1>5, <3>1
    <3> QED
      BY <3>2, Zenon
  <2> QED
    BY <2>1, <2>2, Zenon
<1>11. Enumerates(a, S \cup {m}, contents)
  BY <1>5, <1>8, <1>9, <1>10, Zenon DEF Enumerates
<1> QED
  BY <1>2, <1>3, <1>11, Zenon

(* The ids of the collected rows, and the first of those still to do. *)
LEMMA FirstColumn ==
  ASSUME NEW f \in Seq(Row)
  PROVE  LET ids == [i \in DOMAIN f |-> f[i][1]] IN
         ids \in Seq(Ids) /\ Len(ids) = Len(f) /\ \A i \in 1..Len(f) : ids[i] = f[i][1]
<1>1. PICK n \in Nat : n = Len(f) /\ DOMAIN f = 1..n
  OBVIOUS
<1>2. \A i \in 1..n : f[i] \in Row
  BY <1>1
<1>3. \A i \in 1..n : f[i][1] \in Ids
  BY <1>2, Zenon DEF Row
<1> DEFINE ids == [i \in 1..n |-> f[i][1]]
<1>4. ids \in [1..n -> Ids]
  BY <1>3, Zenon
<1>5. ids \in Seq(Ids)
  BY <1>4
<1>6. DOMAIN ids = 1..n /\ \A i \in 1..n : ids[i] = f[i][1]
  OBVIOUS
<1> HIDE DEF ids
<1>7. Len(ids) = n
  BY <1>5, <1>6
<1>8. [i \in DOMAIN f |-> f[i][1]] = ids
  BY <1>1, Zenon DEF ids
<1> QED
  BY <1>1, <1>5, <1>6, <1>7, <1>8, Zenon

LEMMA HeadAndTail ==
  ASSUME NEW q \in Seq(Ids), q # <<>>
  PROVE  /\ Head(q) \in Ids /\ Head(q) = q[1] /\ Len(q) \in Nat /\ Len(q) > 0
         /\ Tail(q) \in Seq(Ids) /\ Len(Tail(q)) = Len(q) - 1
         /\ \A i \in 1..(Len(q) - 1) : Tail(q)[i] = q[i + 1]
  OBVIOUS

LEMMA Indices ==
  ASSUME NEW n \in Nat, NEW L \in Nat, n > 0, n <= L
  PROVE  \E k \in Nat :
           /\ k = L - n /\ k + 1 \in 1..L /\ L - (n - 1) = k + 1 /\ 1 \in 1..n /\ n - 1 <= L
           /\ \A i \in 1..(n - 1) : i + 1 \in 1..n /\ k + (i + 1) = (k + 1) + i
<1> WITNESS L - n \in Nat
<1> QED
  OBVIOUS

(* The id is one of the first k that were collected. *)
Among(f, k, id) == \E i \in 1..k : f[i][1] = id

LEMMA OneMore ==
  ASSUME NEW k \in Nat, NEW f
  PROVE  /\ \A id : ~Among(f, 0, id)
         /\ \A id : Among(f, k + 1, id) <=> Among(f, k, id) \/ id = f[k + 1][1]
<1>1. \A i : i \in 1..(k + 1) <=> i \in 1..k \/ i = k + 1
  OBVIOUS
<1>2. \A i : i \notin 1..0
  OBVIOUS
<1> QED
  BY <1>1, <1>2, Zenon DEF Among

(* The fields of an operation. *)
LEMMA OpFields ==
  ASSUME NEW o \in Ops
  PROVE  /\ o.kind \in {"findById", "rowCount", "selectWhere", "selectIdRange",
                        "insert", "deleteById", "deleteWhere", "updateWhere"}
         /\ o.kind \in {"findById", "deleteById", "insert"} => o.id \in Ids
         /\ o.kind = "insert" /\ IsValid(o) => o.val \in Vals
         /\ o.kind = "updateWhere" /\ IsValid(o) => NewValue(o) \in Vals
<1>1. o \in AllOps
  BY Zenon DEF Ops
<1>2. ASSUME NEW id \in Ids, o = Find(id) \/ o = DeleteById(id)
      PROVE  o.kind \in {"findById", "deleteById"} /\ o.id \in Ids
  BY <1>2 DEF Find, DeleteById
<1>3. ASSUME NEW id \in Ids, NEW v \in Vals \cup {Bad}, o = Insert(id, v)
      PROVE  o.kind = "insert" /\ o.id \in Ids /\ (IsValid(o) => o.val \in Vals)
  BY <1>3, Zenon DEF Insert, IsValid
<1>4. ASSUME NEW p \in Preds, NEW v \in Vals, NEW a \in {<<v>>, <<v, Bad>>}, o = UpdateWhere(p, a)
      PROVE  o.kind = "updateWhere" /\ (IsValid(o) => NewValue(o) \in Vals)
  <2>1. o.kind = "updateWhere" /\ o.assignments = a
    BY <1>4, Zenon DEF UpdateWhere
  <2>2. CASE a = <<v>>
    BY <2>1, <2>2 DEF NewValue
  <2>3. CASE a = <<v, Bad>>
    <3>1. 2 \in DOMAIN a /\ a[2] = Bad
      BY <2>3
    <3>2. ~IsValid(o)
      BY <2>1, <3>1, Zenon DEF IsValid
    <3> QED
      BY <2>1, <3>2, Zenon
  <2> QED
    BY <1>4, <2>2, <2>3, Zenon
<1>5. ASSUME o = RowCount PROVE o.kind = "rowCount"
  BY <1>5, Zenon DEF RowCount
<1>6. ASSUME NEW p \in Preds, o = SelectWhere(p) \/ o = DeleteWhere(p)
      PROVE  o.kind \in {"selectWhere", "deleteWhere"}
  BY <1>6 DEF SelectWhere, DeleteWhere
<1>7. ASSUME NEW l \in Ids, NEW h \in Ids, o = SelectIdRange(l, h)
      PROVE  o.kind = "selectIdRange"
  BY <1>7, Zenon DEF SelectIdRange
<1>8. \/ \E id \in Ids : o = Find(id) \/ o = DeleteById(id)
      \/ \E id \in Ids, v \in Vals \cup {Bad} : o = Insert(id, v)
      \/ o = RowCount
      \/ \E p \in Preds : o = SelectWhere(p) \/ o = DeleteWhere(p)
      \/ \E l \in Ids, h \in Ids : o = SelectIdRange(l, h)
      \/ \E p \in Preds, v \in Vals : \E a \in {<<v>>, <<v, Bad>>} : o = UpdateWhere(p, a)
  BY <1>1 DEF AllOps
<1> QED
  BY <1>2, <1>3, <1>4, <1>5, <1>6, <1>7, <1>8, Zenon

(* What the operations return and do, case by case. *)
LEMMA Results ==
  ASSUME NEW o \in Ops, IsValid(o), NEW r
  PROVE  /\ o.kind = "findById" => Result(o, r) = r[o.id]
         /\ o.kind = "rowCount" => Result(o, r) = Cardinality(Present(r))
         /\ o.kind = "insert" => Result(o, r) = (r[o.id] = NoRow)
         /\ o.kind = "deleteById" => Result(o, r) = (r[o.id] # NoRow)
<1>1. o.kind \in {"findById", "rowCount", "insert", "deleteById"} =>
        Result(o, r) = CASE o.kind = "insert"     -> r[o.id] = NoRow
                         [] o.kind = "deleteById" -> r[o.id] # NoRow
                         [] o.kind = "findById"   -> r[o.id]
                         [] o.kind = "rowCount"   -> Cardinality(Present(r))
  BY Zenon DEF Result
<1> QED
  BY <1>1, Zenon

LEMMA ScanResults ==
  ASSUME Walks, NEW o \in Ops, IsValid(o), NEW r, NEW s, Enumerates(s, Matched(o, r), r)
  PROVE  /\ o.kind \in {"selectWhere", "selectIdRange"} => Result(o, r) = s
         /\ o.kind \in {"deleteWhere", "updateWhere"} => Result(o, r) = Len(s)
<1>1. Matched(o, r) \in SUBSET Ids
  BY Zenon DEF Matched, Present
<1>2. PICK S \in SUBSET Ids : S = Matched(o, r)
  BY <1>1, Zenon
<1>3. /\ Len(s) = Cardinality(S)
      /\ s = [i \in DOMAIN InOrder(S) |-> <<InOrder(S)[i], r[InOrder(S)[i]]>>]
  <2>1. Enumerates(s, S, r)
    BY <1>2, Zenon
  <2> QED
    BY <2>1 DEF Walks
<1>4. o.kind \in {"selectWhere", "selectIdRange"} =>
        Result(o, r) = [i \in DOMAIN InOrder(S) |-> <<InOrder(S)[i], r[InOrder(S)[i]]>>]
  BY <1>2, Zenon DEF Result
<1>5. o.kind \in {"deleteWhere", "updateWhere"} => Result(o, r) = Cardinality(S)
  BY <1>2, Zenon DEF Result
<1> QED
  BY <1>3, <1>4, <1>5, Zenon

LEMMA Effects ==
  ASSUME NEW o \in Ops, IsValid(o), NEW r \in Contents
  PROVE  /\ o.kind \in ReadKinds => Effect(o, r) = r
         /\ o.kind = "insert" => Effect(o, r) = IF r[o.id] = NoRow THEN [r EXCEPT ![o.id] = o.val] ELSE r
         /\ o.kind = "deleteById" => Effect(o, r) = [r EXCEPT ![o.id] = NoRow]
         /\ o.kind \in {"deleteWhere", "updateWhere"} => Effect(o, r) =
               [id \in Ids |-> IF id \in Matched(o, r)
                              THEN IF o.kind = "deleteWhere" THEN NoRow ELSE NewValue(o)
                              ELSE r[id]]
<1>1. o.kind \in ReadKinds => Effect(o, r) = r
  BY Zenon DEF Effect, ReadKinds
<1>2. o.kind = "insert" => Effect(o, r) = IF r[o.id] = NoRow THEN [r EXCEPT ![o.id] = o.val] ELSE r
  BY Zenon DEF Effect
<1>3. o.kind = "deleteById" => Effect(o, r) = [r EXCEPT ![o.id] = NoRow]
  BY Zenon DEF Effect
<1>4. o.kind = "deleteWhere" => Effect(o, r) =
        [id \in Ids |-> IF id \in Matched(o, r) THEN NoRow ELSE r[id]]
  BY Zenon DEF Effect
<1>5. o.kind = "updateWhere" => Effect(o, r) =
        [id \in Ids |-> IF id \in Matched(o, r) THEN NewValue(o) ELSE r[id]]
  BY Zenon DEF Effect
<1> QED
  BY <1>1, <1>2, <1>3, <1>4, <1>5, Zenon

-----------------------------------------------------------------------------
(***************************************************************************)
(* The invariant.                                                          *)
(***************************************************************************)

Types ==
    /\ readers \in SUBSET Threads /\ writers \in SUBSET Threads
    /\ rows \in Contents /\ published \in Contents /\ cache \in Contents
    /\ call \in [Threads -> Ops \cup {Idle}]
    /\ DOMAIN pc = Threads
    /\ last \in [Threads -> Int]
    /\ found \in [Threads -> Seq(Row)]
    /\ todo \in [Threads -> Seq(Ids)]
    /\ DOMAIN result = Threads

(* What ReadersWriter promises. *)
Exclusive ==
    /\ writers # {} => readers = {}
    /\ \A t, u \in writers : t = u
    /\ writers = {} => rows = published

(* A scan has collected the matching rows up to the last one it visited. *)
SoFar(t, contents) == {id \in Matched(call[t], contents) : id <= last[t]}

Scanned(t) == Enumerates(found[t], SoFar(t, rows), rows)

(* A thread that holds no guard. *)
Outside(t) ==
    /\ pc[t] \in {"idle", "validate", "lock", "done"}
    /\ pc[t] = "idle" <=> call[t] = Idle
    /\ pc[t] = "lock" => IsValid(call[t])
    /\ pc[t] # "done" => last[t] = BeforeAll /\ found[t] = <<>>
    /\ pc[t] = "done" => result[t] # Pending

Reading(t) ==
    /\ call[t] # Idle /\ IsValid(call[t]) /\ call[t].kind \in ReadKinds
    /\ pc[t] \in {"probe", "search", "fill", "count", "scan", "unlock"}
    /\ pc[t] \in {"probe", "search", "fill"} => call[t].kind = "findById"
    /\ pc[t] = "count" => call[t].kind = "rowCount"
    /\ pc[t] = "scan" => call[t].kind \in {"selectWhere", "selectIdRange"} /\ Scanned(t)
    /\ pc[t] = "unlock" => result[t] = Result(call[t], rows)

(* The second loop of deleteWhere and updateWhere has dealt with the first  *)
(* matches and has the others still to do.                                  *)
Done(t) == Len(found[t]) - Len(todo[t])

Applied(t) ==
    /\ Enumerates(found[t], Matched(call[t], published), published)
    /\ Len(todo[t]) <= Len(found[t])
    /\ \A i \in 1..Len(todo[t]) : todo[t][i] = found[t][Done(t) + i][1]
    /\ rows = [id \in Ids |->
                  IF Among(found[t], Done(t), id)
                  THEN IF call[t].kind = "deleteWhere" THEN NoRow ELSE NewValue(call[t])
                  ELSE published[id]]

Writing(t) ==
    /\ call[t] # Idle /\ IsValid(call[t]) /\ call[t].kind \notin ReadKinds
    /\ pc[t] \in {"insert", "remove", "evict", "scan", "apply", "unlock"}
    /\ pc[t] = "insert" => call[t].kind = "insert"
    /\ pc[t] \in {"remove", "evict"} => call[t].kind = "deleteById"
    /\ pc[t] \in {"scan", "apply"} => call[t].kind \in {"deleteWhere", "updateWhere"}
    /\ pc[t] \in {"insert", "remove", "scan"} => rows = published
    /\ pc[t] = "evict" => /\ published[call[t].id] # NoRow
                          /\ rows = [published EXCEPT ![call[t].id] = NoRow]
    /\ pc[t] = "scan" => Scanned(t)
    /\ pc[t] = "apply" => Applied(t)
    /\ pc[t] = "unlock" => /\ rows = Effect(call[t], published)
                           /\ result[t] = Result(call[t], published)

Located(t) ==
    /\ t \in readers => Reading(t)
    /\ t \in writers => Writing(t)
    /\ t \notin readers \cup writers => Outside(t)

(* The id of which a writer has changed the row but not yet the entry. *)
MayBeStale(t, id) ==
    \/ pc[t] = "evict" /\ id = call[t].id
    \/ /\ pc[t] = "apply" /\ call[t].kind = "updateWhere"
       /\ \E i \in 1..Len(found[t]) : found[t][i][1] = id

Fresh ==
    \A id \in Ids : \/ cache[id] \in {NoRow, rows[id]}
                    \/ \E t \in writers : MayBeStale(t, id)

Inv == Types /\ Exclusive /\ (\A t \in Threads : Located(t)) /\ Fresh

-----------------------------------------------------------------------------
(* The step changes nothing that belongs to another thread. *)
OnlyOf(t) ==
    \A u \in Threads : u # t =>
        /\ pc'[u] = pc[u] /\ call'[u] = call[u] /\ result'[u] = result[u]
        /\ last'[u] = last[u] /\ found'[u] = found[u] /\ todo'[u] = todo[u]
        /\ u \in readers' <=> u \in readers
        /\ u \in writers' <=> u \in writers

(* What a thread knows of the rows survives the steps of the others: only a *)
(* writer changes rows, and then nobody else is inside.                     *)
LEMMA OthersLocated ==
  ASSUME Inv, NEW t \in Threads, OnlyOf(t),
         t \in writers \/ UNCHANGED <<rows, published>>,
         NEW u \in Threads, u # t
  PROVE  Located(u)'
<1>1. Located(u)
  BY Zenon DEF Inv
<1>2. /\ pc'[u] = pc[u] /\ call'[u] = call[u] /\ result'[u] = result[u]
      /\ last'[u] = last[u] /\ found'[u] = found[u] /\ todo'[u] = todo[u]
      /\ u \in readers' <=> u \in readers
      /\ u \in writers' <=> u \in writers
  BY Zenon DEF OnlyOf
<1>3. CASE u \notin readers \cup writers
  <2>1. Outside(u)'
    BY <1>1, <1>2, <1>3, Zenon DEF Located, Outside
  <2> QED
    BY <1>2, <1>3, <2>1, Zenon DEF Located
<1>4. CASE u \in readers \cup writers
  <2>1. rows' = rows /\ published' = published
    BY <1>4, Zenon DEF Inv, Exclusive
  <2>2. Scanned(u)' <=> Scanned(u)
    BY <1>2, <2>1, Zenon DEF Scanned, SoFar
  <2>3. u \in readers => Reading(u)'
    BY <1>1, <1>2, <2>1, <2>2, Zenon DEF Located, Reading
  <2>4. Applied(u)' <=> Applied(u)
    BY <1>2, <2>1 DEF Applied, Done
  <2>5. u \in writers => Writing(u)'
    BY <1>1, <1>2, <2>1, <2>2, <2>4, Zenon DEF Located, Writing
  <2> QED
    BY <1>2, <1>4, <2>3, <2>5, Zenon DEF Located
<1> QED
  BY <1>3, <1>4, Zenon

LEMMA Preserved ==
  ASSUME Inv, NEW t \in Threads, OnlyOf(t),
         t \in writers \/ UNCHANGED <<rows, published>>,
         Types', Exclusive', Located(t)', Fresh'
  PROVE  Inv'
<1>1. \A u \in Threads : Located(u)'
  BY OthersLocated, Zenon
<1> QED
  BY <1>1, Zenon DEF Inv

(* Steps that touch neither the lock nor the rows nor the cache. *)
LEMMA Quiet ==
  ASSUME Inv, NEW t \in Threads, OnlyOf(t), UNCHANGED <<lock, rows, cache, published>>,
         Types', Located(t)', \A id \in Ids : MayBeStale(t, id) => MayBeStale(t, id)'
  PROVE  Inv'
<1>1. Exclusive'
  BY Zenon DEF Inv, Exclusive, lock
<1>2. Fresh'
  <2> SUFFICES ASSUME NEW id \in Ids
               PROVE  \/ cache'[id] \in {NoRow, rows'[id]}
                      \/ \E u \in writers' : MayBeStale(u, id)'
    BY Zenon DEF Fresh
  <2>1. CASE cache[id] \in {NoRow, rows[id]}
    BY <2>1, Zenon
  <2>2. ASSUME NEW u \in writers, MayBeStale(u, id) PROVE MayBeStale(u, id)'
    <3>1. CASE u = t
      BY <2>2, <3>1, Zenon
    <3>2. CASE u # t
      <4>1. u \in Threads
        BY Zenon DEF Inv, Types
      <4> QED
        BY <2>2, <3>2, <4>1 DEF OnlyOf, MayBeStale
    <3> QED
      BY <3>1, <3>2, Zenon
  <2>3. writers' = writers
    BY Zenon DEF lock
  <2> QED
    BY <2>1, <2>2, <2>3, Zenon DEF Inv, Fresh
<1> QED
  BY <1>1, <1>2, Preserved, Zenon

(* Where a thread is tells whether it is inside, and how. *)
LEMMA Whereabouts ==
  ASSUME Inv, NEW t \in Threads
  PROVE  /\ pc[t] \in {"idle", "validate", "lock", "done"} => t \notin readers \cup writers /\ Outside(t)
         /\ pc[t] \in {"probe", "search", "fill", "count"} => t \in readers /\ t \notin writers /\ Reading(t)
         /\ pc[t] \in {"insert", "remove", "evict", "apply"} => t \in writers /\ t \notin readers /\ Writing(t)
         /\ pc[t] \in {"scan", "unlock"} =>
               \/ t \in readers /\ t \notin writers /\ Reading(t)
               \/ t \in writers /\ t \notin readers /\ Writing(t)
         /\ t \in readers => writers = {}
<1>1. Located(t) /\ Exclusive
  BY Zenon DEF Inv
<1>2. t \in readers => Reading(t) /\ writers = {}
  BY <1>1, Zenon DEF Located, Exclusive
<1>3. t \in writers => Writing(t) /\ readers = {}
  BY <1>1, Zenon DEF Located, Exclusive
<1>4. t \notin readers \cup writers => Outside(t)
  BY <1>1, Zenon DEF Located
<1> QED
  BY <1>2, <1>3, <1>4, Zenon DEF Reading, Writing, Outside

LEMMA InvokeStep == ASSUME Inv, NEW t \in Threads, Invoke(t) PROVE Inv'
<1>1. t \notin readers \cup writers /\ Outside(t) /\ Types
  BY Whereabouts, Zenon DEF Invoke, Inv
<1>2. PICK o \in Ops : call' = [call EXCEPT ![t] = o]
  BY Zenon DEF Invoke
<1>3. /\ pc[t] = "idle" /\ pc' = [pc EXCEPT ![t] = "validate"]
      /\ UNCHANGED <<readers, writers, queued, rows, cache, last, found, todo, result, published>>
  BY Zenon DEF Invoke, GoTo, lock, local
<1>4. Types'
  BY <1>1, <1>2, <1>3, Zenon DEF Types
<1>5. OnlyOf(t)
  BY <1>1, <1>2, <1>3, Zenon DEF OnlyOf, Types
<1>6. pc'[t] = "validate" /\ call'[t] # Idle
  BY <1>1, <1>2, <1>3, TableAssumption, Zenon DEF Types
<1>7. Located(t)'
  BY <1>1, <1>3, <1>6, Zenon DEF Located, Outside
<1>8. \A id \in Ids : ~MayBeStale(t, id)
  BY <1>3, Zenon DEF MayBeStale
<1> QED
  BY <1>3, <1>4, <1>5, <1>7, <1>8, Quiet, Zenon DEF lock

LEMMA ValidateStep == ASSUME Inv, NEW t \in Threads, Validate(t) PROVE Inv'
<1>1. t \notin readers \cup writers /\ Outside(t) /\ Types
  BY Whereabouts, Zenon DEF Validate, Inv
<1>2. /\ pc[t] = "validate"
      /\ UNCHANGED <<readers, writers, queued, rows, cache, call, last, found, todo, published>>
  BY Zenon DEF Validate, lock
<1>3. \/ IsValid(call[t]) /\ pc' = [pc EXCEPT ![t] = "lock"] /\ result' = result
      \/ /\ ~IsValid(call[t]) /\ pc' = [pc EXCEPT ![t] = "done"]
         /\ result' = [result EXCEPT ![t] = Threw]
  BY Zenon DEF Validate, GoTo
<1>4. Types'
  BY <1>1, <1>2, <1>3, Zenon DEF Types
<1>5. OnlyOf(t)
  BY <1>1, <1>2, <1>3, Zenon DEF OnlyOf, Types
<1>6. call[t] \in Ops /\ call[t] # Idle
  BY <1>1, <1>2, Zenon DEF Types, Outside
<1>7. ~IsValid(call[t]) => Threw # Pending
  <2>1. Result(call[t], published) # Pending
    BY <1>1, <1>6, TableAssumption, Zenon DEF Types
  <2> QED
    BY <2>1, Zenon DEF Result
<1>8. \/ pc'[t] = "lock" /\ IsValid(call[t])
      \/ pc'[t] = "done" /\ result'[t] # Pending
  BY <1>1, <1>3, <1>7, Zenon DEF Types
<1>9. Located(t)'
  BY <1>1, <1>2, <1>6, <1>8, Zenon DEF Located, Outside
<1>10. \A id \in Ids : ~MayBeStale(t, id)
  BY <1>2, Zenon DEF MayBeStale
<1> QED
  BY <1>2, <1>4, <1>5, <1>9, <1>10, Quiet, Zenon DEF lock

LEMMA BeforeAllIds ==
  ASSUME Walks PROVE BeforeAll \in Int /\ \A id \in Ids : id \in Int /\ BeforeAll < id
<1> DEFINE m == CHOOSE id \in Ids : \A other \in Ids : id <= other
<1>1. m \in Ids /\ \A id \in Ids : m <= id
  BY Zenon DEF Walks
<1> HIDE DEF m
<1>2. m \in Int /\ \A id \in Ids : id \in Int /\ m - 1 < id
  BY <1>1, OpsAssumption
<1> QED
  BY <1>2 DEF BeforeAll, m

LEMMA ReturnStep == ASSUME Walks, Inv, NEW t \in Threads, Return(t) PROVE Inv'
<1>1. t \notin readers \cup writers /\ Outside(t) /\ Types
  BY Whereabouts, Zenon DEF Return, Inv
<1>2. /\ pc[t] = "done" /\ pc' = [pc EXCEPT ![t] = "idle"]
      /\ call' = [call EXCEPT ![t] = Idle] /\ last' = [last EXCEPT ![t] = BeforeAll]
      /\ found' = [found EXCEPT ![t] = <<>>] /\ todo' = [todo EXCEPT ![t] = <<>>]
      /\ result' = [result EXCEPT ![t] = Pending]
      /\ UNCHANGED <<readers, writers, queued, rows, cache, published>>
  BY Zenon DEF Return, GoTo, lock
<1>3. Types'
  <2>1. last' \in [Threads -> Int]
    BY <1>1, <1>2, BeforeAllIds, Zenon DEF Types
  <2>2. found' \in [Threads -> Seq(Row)] /\ todo' \in [Threads -> Seq(Ids)]
    BY <1>1, <1>2 DEF Types
  <2> QED
    BY <1>1, <1>2, <2>1, <2>2, Zenon DEF Types
<1>4. OnlyOf(t)
  BY <1>1, <1>2, Zenon DEF OnlyOf, Types
<1>5. pc'[t] = "idle" /\ call'[t] = Idle /\ last'[t] = BeforeAll /\ found'[t] = <<>>
  BY <1>1, <1>2, Zenon DEF Types
<1>6. Located(t)'
  <2>1. BeforeAll' = BeforeAll
    BY Zenon DEF BeforeAll
  <2> QED
    BY <1>1, <1>2, <1>5, <2>1, Zenon DEF Located, Outside
<1>7. \A id \in Ids : ~MayBeStale(t, id)
  BY <1>2, Zenon DEF MayBeStale
<1> QED
  BY <1>2, <1>3, <1>4, <1>6, <1>7, Quiet, Zenon DEF lock

-----------------------------------------------------------------------------
(* Taking and releasing the guard. *)
LEMMA NothingScanned ==
  ASSUME Walks, NEW contents, NEW S \in SUBSET Ids
  PROVE  Enumerates(<<>>, {id \in S : id <= BeforeAll}, contents)
<1>1. {id \in S : id <= BeforeAll} = {}
  BY BeforeAllIds
<1>2. <<>> \in Seq(Row) /\ Len(<<>>) = 0
  OBVIOUS
<1> QED
  BY <1>1, <1>2 DEF Enumerates

LEMMA EntryOf ==
  ASSUME NEW o \in Ops
  PROVE  /\ o.kind \in ReadKinds =>
               \/ Entry(o) = "probe" /\ o.kind = "findById"
               \/ Entry(o) = "count" /\ o.kind = "rowCount"
               \/ Entry(o) = "scan" /\ o.kind \in {"selectWhere", "selectIdRange"}
         /\ o.kind \notin ReadKinds =>
               \/ Entry(o) = "insert" /\ o.kind = "insert"
               \/ Entry(o) = "remove" /\ o.kind = "deleteById"
               \/ Entry(o) = "scan" /\ o.kind \in {"deleteWhere", "updateWhere"}
BY OpFields, Zenon DEF Entry, ReadKinds

LEMMA EnterStep ==
  ASSUME Walks, Inv, NEW t \in Threads, LockShared(t) \/ LockExclusive(t) PROVE Inv'
<1>1. t \notin readers \cup writers /\ Outside(t) /\ Types /\ Exclusive /\ Fresh
  BY Whereabouts, Zenon DEF LockShared, LockExclusive, Inv
<1>2. /\ pc[t] = "lock" /\ pc' = [pc EXCEPT ![t] = Entry(call[t])]
      /\ UNCHANGED <<rows, cache, call, last, found, todo, result, published>>
  BY Zenon DEF LockShared, LockExclusive, GoTo, local
<1>3. /\ writers = {}
      /\ \/ call[t].kind \in ReadKinds /\ readers' = readers \cup {t} /\ writers' = {}
         \/ call[t].kind \notin ReadKinds /\ readers = {} /\ readers' = {} /\ writers' = {t}
  BY Zenon DEF LockShared, LockExclusive, Lock!EnterRead, Lock!EnterWrite, Lock!Inside
<1>4. call[t] \in Ops /\ call[t] # Idle /\ IsValid(call[t]) /\ last[t] = BeforeAll /\ found[t] = <<>>
  BY <1>1, <1>2, Zenon DEF Outside, Types
<1>5. Types'
  BY <1>1, <1>2, <1>3, Zenon DEF Types
<1>6. OnlyOf(t)
  BY <1>1, <1>2, <1>3 DEF OnlyOf, Types
<1>7. rows = published
  BY <1>1, <1>3, Zenon DEF Exclusive
<1>8. Exclusive'
  BY <1>2, <1>3, <1>7, Zenon DEF Exclusive
<1>9. Fresh'
  BY <1>1, <1>2, <1>3, Zenon DEF Fresh
<1>10. pc'[t] = Entry(call[t])
  BY <1>1, <1>2, Zenon DEF Types
<1>11. Scanned(t)'
  <2>1. Matched(call[t], rows) \in SUBSET Ids
    BY Zenon DEF Matched, Present
  <2>2. Enumerates(<<>>, {id \in Matched(call[t], rows) : id <= BeforeAll}, rows)
    BY <2>1, NothingScanned, Zenon
  <2>3. found'[t] = <<>> /\ last'[t] = BeforeAll /\ call'[t] = call[t] /\ rows' = rows
    BY <1>2, <1>4, Zenon
  <2> QED
    BY <2>2, <2>3, Zenon DEF Scanned, SoFar
<1>12. CASE call[t].kind \in ReadKinds
  <2>1. Reading(t)'
    BY <1>2, <1>4, <1>10, <1>11, <1>12, EntryOf, Zenon DEF Reading
  <2>2. t \in readers' /\ t \notin writers'
    BY <1>3, <1>12, Zenon
  <2>3. Located(t)'
    BY <2>1, <2>2, Zenon DEF Located
  <2> QED
    BY <1>2, <1>5, <1>6, <1>8, <1>9, <2>3, Preserved, Zenon
<1>13. CASE call[t].kind \notin ReadKinds
  <2>1. Writing(t)'
    BY <1>2, <1>4, <1>7, <1>10, <1>11, <1>13, EntryOf, Zenon DEF Writing
  <2>2. t \notin readers' /\ t \in writers'
    BY <1>3, <1>13, Zenon
  <2>3. Located(t)'
    BY <2>1, <2>2, Zenon DEF Located
  <2> QED
    BY <1>2, <1>5, <1>6, <1>8, <1>9, <2>3, Preserved, Zenon
<1> QED
  BY <1>12, <1>13, Zenon

LEMMA WaitsStep == ASSUME Inv, NEW t \in Threads, LockWaits(t) PROVE Inv'
<1>1. UNCHANGED <<readers, writers, rows, cache, call, pc, last, found, todo, result, published>>
  BY Zenon DEF LockWaits, Lock!QueueWrite, local
<1>2. Types' /\ Exclusive'
  BY <1>1, Zenon DEF Inv, Types, Exclusive
<1>3. OnlyOf(t)
  BY <1>1, Zenon DEF OnlyOf
<1>4. Located(t) /\ pc[t] = "lock" /\ t \notin readers \cup writers /\ Outside(t)
  BY Whereabouts, Zenon DEF Inv, LockWaits
<1>5. Located(t)'
  BY <1>1, <1>4, Zenon DEF Located, Outside
<1>6. Fresh'
  BY <1>1 DEF Inv, Fresh, MayBeStale
<1> QED
  BY <1>1, <1>2, <1>3, <1>5, <1>6, Preserved, Zenon

LEMMA UnlockStep == ASSUME Inv, NEW t \in Threads, Unlock(t) PROVE Inv'
<1>1. Types /\ Exclusive /\ Fresh
  BY Zenon DEF Inv
<1>2. /\ pc[t] = "unlock" /\ pc' = [pc EXCEPT ![t] = "done"]
      /\ UNCHANGED <<rows, cache, call, last, found, todo, result>>
  BY Zenon DEF Unlock, GoTo, local
<1>3. \/ /\ t \in readers /\ t \notin writers /\ Reading(t) /\ writers = {}
         /\ readers' = readers \ {t} /\ writers' = writers /\ published' = published
      \/ /\ t \in writers /\ t \notin readers /\ Writing(t)
         /\ readers' = readers /\ writers' = writers \ {t} /\ published' = rows
  BY <1>2, Whereabouts, Zenon DEF Unlock, Lock!LeaveRead, Lock!LeaveWrite
<1>4. Types'
  BY <1>1, <1>2, <1>3, Zenon DEF Types
<1>5. OnlyOf(t)
  BY <1>1, <1>2, <1>3, Zenon DEF OnlyOf, Types
<1>6. Exclusive'
  BY <1>1, <1>2, <1>3, Zenon DEF Exclusive
<1>7. \A id \in Ids : ~MayBeStale(t, id)
  BY <1>2, Zenon DEF MayBeStale
<1>8. Fresh'
  <2>1. \A u \in writers : u = t \/ u \notin writers
    BY <1>1, <1>3, Zenon DEF Exclusive
  <2> QED
    BY <1>1, <1>2, <1>3, <1>7, <2>1, Zenon DEF Fresh
<1>9. call[t] \in Ops /\ call[t] # Idle
  BY <1>1, <1>3, Zenon DEF Types, Reading, Writing
<1>10. result[t] # Pending
  BY <1>1, <1>2, <1>3, <1>9, TableAssumption, Zenon DEF Reading, Writing, Types
<1>11. pc'[t] = "done"
  BY <1>1, <1>2, Zenon DEF Types
<1>12. Located(t)'
  BY <1>2, <1>3, <1>9, <1>10, <1>11, Zenon DEF Located, Outside
<1> QED
  BY <1>2, <1>3, <1>4, <1>5, <1>6, <1>8, <1>12, Preserved, Zenon

-----------------------------------------------------------------------------
(* The steps of a thread that holds the lock exclusively. *)
LEMMA WriterAlone ==
  ASSUME Inv, NEW t \in Threads, t \in writers
  PROVE  /\ writers = {t} /\ readers = {} /\ Types
         /\ \A id \in Ids : cache[id] \in {NoRow, rows[id]} \/ MayBeStale(t, id)
<1>1. writers = {t} /\ readers = {} /\ Types /\ Fresh
  BY Zenon DEF Inv, Exclusive
<1> QED
  BY <1>1, Zenon DEF Fresh

LEMMA WriterStep ==
  ASSUME Inv, NEW t \in Threads, t \in writers, OnlyOf(t),
         UNCHANGED <<readers, writers, published>>, Types', Writing(t)',
         \A id \in Ids : cache'[id] \in {NoRow, rows'[id]} \/ MayBeStale(t, id)'
  PROVE  Inv'
<1>1. writers = {t} /\ readers = {}
  BY WriterAlone, Zenon
<1>2. Exclusive'
  BY <1>1, Zenon DEF Exclusive
<1>3. Fresh'
  BY <1>1, Zenon DEF Fresh
<1>4. Located(t)'
  BY <1>1, Zenon DEF Located
<1> QED
  BY <1>2, <1>3, <1>4, Preserved, Zenon

-----------------------------------------------------------------------------
(* The methods that concern one row, and rowCount. *)

(* The read methods that do not scan. *)
LEMMA ReadStep ==
  ASSUME Inv, NEW t \in Threads, FindProbes(t) \/ FindSearches(t) \/ Counts(t) PROVE Inv'
<1>1. /\ t \in readers /\ t \notin writers /\ Reading(t) /\ writers = {} /\ Types /\ Fresh
      /\ pc[t] \in {"probe", "search", "count"}
  BY Whereabouts, Zenon DEF FindProbes, FindSearches, Counts, Inv
<1>2. UNCHANGED <<readers, writers, queued, rows, cache, call, last, found, todo, published>>
  BY Zenon DEF FindProbes, FindSearches, Counts, lock
<1>3. \/ pc' = [pc EXCEPT ![t] = "search"] /\ result' = result /\ call[t].kind = "findById"
      \/ pc' = [pc EXCEPT ![t] = "fill"] /\ result' = result /\ call[t].kind = "findById"
      \/ /\ pc' = [pc EXCEPT ![t] = "unlock"]
         /\ result' = [result EXCEPT ![t] = Result(call[t], rows)]
  <2>1. call[t] \in Ops /\ IsValid(call[t])
    BY <1>1, Zenon DEF Types, Reading
  <2>2. CASE FindProbes(t)
    <3>1. call[t].kind = "findById" /\ call[t].id \in Ids
      BY <1>1, <2>1, <2>2, OpFields, Zenon DEF FindProbes, Reading
    <3>2. cache[call[t].id] # NoRow => cache[call[t].id] = Result(call[t], rows)
      BY <1>1, <2>1, <3>1, Results, Zenon DEF Fresh
    <3> QED
      BY <2>2, <3>1, <3>2, Zenon DEF FindProbes, Yield, GoTo
  <2>3. CASE FindSearches(t)
    <3>1. call[t].kind = "findById"
      BY <1>1, <2>3, Zenon DEF FindSearches, Reading
    <3>2. Result(call[t], rows) = rows[call[t].id]
      BY <2>1, <3>1, Results, Zenon
    <3> QED
      BY <2>3, <3>1, <3>2, Zenon DEF FindSearches, Yield, GoTo
  <2>4. CASE Counts(t)
    <3>1. call[t].kind = "rowCount"
      BY <1>1, <2>4, Zenon DEF Counts, Reading
    <3>2. Result(call[t], rows) = Cardinality(Present(rows))
      BY <2>1, <3>1, Results, Zenon
    <3> QED
      BY <2>4, <3>2, Zenon DEF Counts, Yield, GoTo
  <2> QED
    BY <2>2, <2>3, <2>4, Zenon
<1>4. Types'
  BY <1>1, <1>2, <1>3, Zenon DEF Types
<1>5. OnlyOf(t)
  BY <1>1, <1>2, <1>3, Zenon DEF OnlyOf, Types
<1>6. \/ pc'[t] \in {"search", "fill"} /\ call[t].kind = "findById"
      \/ pc'[t] = "unlock" /\ result'[t] = Result(call[t], rows)
  BY <1>1, <1>3, Zenon DEF Types
<1>7. Reading(t)'
  BY <1>1, <1>2, <1>6, Zenon DEF Reading
<1>8. Located(t)'
  BY <1>1, <1>2, <1>7, Zenon DEF Located
<1>9. \A id \in Ids : ~MayBeStale(t, id)
  BY <1>1, Zenon DEF MayBeStale
<1> QED
  BY <1>2, <1>4, <1>5, <1>8, <1>9, Quiet, Zenon DEF lock

(* A put makes the entry equal to the row, and evicts at most another one. *)
LEMMA FillStep == ASSUME Inv, NEW t \in Threads, FindFills(t) PROVE Inv'
<1>1. /\ t \in readers /\ t \notin writers /\ Reading(t) /\ writers = {} /\ Types /\ Fresh
      /\ pc[t] = "fill" /\ Exclusive
  BY Whereabouts, Zenon DEF FindFills, Inv
<1>2. /\ pc' = [pc EXCEPT ![t] = "unlock"]
      /\ result' = [result EXCEPT ![t] = rows[call[t].id]]
      /\ CachePut(call[t].id, rows[call[t].id])
      /\ UNCHANGED <<readers, writers, queued, rows, call, last, found, todo, published>>
  BY Zenon DEF FindFills, Yield, GoTo, lock
<1>3. call[t] \in Ops /\ IsValid(call[t]) /\ call[t].kind = "findById" /\ call[t].id \in Ids
  BY <1>1, OpFields, Zenon DEF Types, Reading
<1>4. rows[call[t].id] \in Vals \cup {NoRow}
  BY <1>1, <1>3, Zenon DEF Types, Contents
<1>5. cache' \in Contents /\ \A id \in Ids : cache'[id] \in {NoRow, rows[id], cache[id]}
  <2>1. CASE cache' = [cache EXCEPT ![call[t].id] = rows[call[t].id]]
    BY <1>1, <1>3, <1>4, <2>1, Zenon DEF Types, Contents
  <2>2. ASSUME NEW victim \in Ids,
               cache' = [cache EXCEPT ![victim] = NoRow, ![call[t].id] = rows[call[t].id]]
        PROVE  cache' \in Contents /\ \A id \in Ids : cache'[id] \in {NoRow, rows[id], cache[id]}
    BY <1>1, <1>3, <1>4, <2>2, Zenon DEF Types, Contents
  <2> QED
    BY <1>2, <2>1, <2>2, Zenon DEF CachePut, Cached
<1>6. Types'
  BY <1>1, <1>2, <1>5, Zenon DEF Types
<1>7. OnlyOf(t)
  BY <1>1, <1>2, Zenon DEF OnlyOf, Types
<1>8. Exclusive'
  BY <1>1, <1>2, Zenon DEF Exclusive
<1>9. Fresh'
  BY <1>1, <1>2, <1>5, Zenon DEF Fresh
<1>10. Result(call[t], rows) = rows[call[t].id]
  BY <1>3, Results, Zenon
<1>11. pc'[t] = "unlock" /\ result'[t] = Result(call[t], rows)
  BY <1>1, <1>2, <1>10, Zenon DEF Types
<1>12. Reading(t)'
  BY <1>1, <1>2, <1>11, Zenon DEF Reading
<1>13. Located(t)'
  BY <1>1, <1>2, <1>12, Zenon DEF Located
<1> QED
  BY <1>2, <1>6, <1>7, <1>8, <1>9, <1>13, Preserved, Zenon

-----------------------------------------------------------------------------
(* An id without a row is not cached, so insert need not touch the cache. *)
LEMMA InsertStep == ASSUME Inv, NEW t \in Threads, Inserts(t) PROVE Inv'
<1>1. t \in writers /\ Writing(t) /\ Types /\ pc[t] = "insert"
  BY Whereabouts, Zenon DEF Inserts, Inv
<1>2. \A id \in Ids : cache[id] \in {NoRow, rows[id]}
  BY <1>1, WriterAlone, Zenon DEF MayBeStale
<1>3. /\ call[t] \in Ops /\ IsValid(call[t]) /\ call[t].kind = "insert" /\ call[t].id \in Ids
      /\ call[t].val \in Vals /\ rows = published
  BY <1>1, OpFields, Zenon DEF Types, Writing
<1>4. /\ pc' = [pc EXCEPT ![t] = "unlock"]
      /\ result' = [result EXCEPT ![t] = (rows[call[t].id] = NoRow)]
      /\ rows' = IF rows[call[t].id] = NoRow THEN [rows EXCEPT ![call[t].id] = call[t].val] ELSE rows
      /\ UNCHANGED <<readers, writers, queued, cache, call, last, found, todo, published>>
  <2>1. CASE rows[call[t].id] = NoRow
    <3>1. (rows[call[t].id] = NoRow) = TRUE
      BY <2>1, Zenon
    <3> QED
      BY <2>1, <3>1, Zenon DEF Inserts, Yield, GoTo, lock
  <2>2. CASE rows[call[t].id] # NoRow
    <3>1. (rows[call[t].id] = NoRow) = FALSE
      BY <2>2, Zenon
    <3> QED
      BY <2>2, <3>1, Zenon DEF Inserts, Yield, GoTo, lock
  <2> QED
    BY <2>1, <2>2, Zenon
<1>5. rows' \in Contents /\ \A id \in Ids : cache[id] \in {NoRow, rows'[id]}
  BY <1>1, <1>2, <1>3, <1>4, Zenon DEF Types, Contents
<1>6. Types'
  BY <1>1, <1>4, <1>5, Zenon DEF Types
<1>7. OnlyOf(t)
  BY <1>1, <1>4, Zenon DEF OnlyOf, Types
<1>8. rows' = Effect(call[t], published)
  BY <1>1, <1>3, <1>4, Effects, Zenon DEF Types
<1>9. Result(call[t], published) = (rows[call[t].id] = NoRow)
  BY <1>3, Results, Zenon
<1>10. pc'[t] = "unlock" /\ result'[t] = Result(call[t], published)
  BY <1>1, <1>4, <1>9, Zenon DEF Types
<1>11. Writing(t)'
  BY <1>1, <1>3, <1>4, <1>8, <1>10, Zenon DEF Writing
<1> QED
  BY <1>1, <1>4, <1>5, <1>6, <1>7, <1>11, WriterStep, Zenon

LEMMA RemoveStep == ASSUME Inv, NEW t \in Threads, Removes(t) PROVE Inv'
<1>1. t \in writers /\ Writing(t) /\ Types /\ pc[t] = "remove"
  BY Whereabouts, Zenon DEF Removes, Inv
<1>2. \A id \in Ids : cache[id] \in {NoRow, rows[id]}
  BY <1>1, WriterAlone, Zenon DEF MayBeStale
<1>3. /\ call[t] \in Ops /\ IsValid(call[t]) /\ call[t].kind = "deleteById" /\ call[t].id \in Ids
      /\ rows = published
  BY <1>1, OpFields, Zenon DEF Types, Writing
<1>4. UNCHANGED <<readers, writers, queued, cache, call, last, found, todo, published>>
  BY Zenon DEF Removes, lock
<1>5. CASE rows[call[t].id] = NoRow
  <2>1. /\ pc' = [pc EXCEPT ![t] = "unlock"] /\ rows' = rows
        /\ result' = [result EXCEPT ![t] = FALSE]
    BY <1>5, Zenon DEF Removes, Yield, GoTo
  <2>2. Types'
    BY <1>1, <1>4, <2>1, Zenon DEF Types
  <2>3. OnlyOf(t)
    BY <1>1, <1>4, <2>1, Zenon DEF OnlyOf, Types
  <2>4. rows' = Effect(call[t], published)
    <3>1. [rows EXCEPT ![call[t].id] = NoRow] = rows
      BY <1>1, <1>3, <1>5, Zenon DEF Types, Contents
    <3>2. Effect(call[t], rows) = [rows EXCEPT ![call[t].id] = NoRow]
      BY <1>1, <1>3, Effects, Zenon DEF Types
    <3> QED
      BY <1>3, <2>1, <3>1, <3>2, Zenon
  <2>5. Result(call[t], published) = FALSE
    BY <1>3, <1>5, Results, Zenon
  <2>6. pc'[t] = "unlock" /\ result'[t] = Result(call[t], published)
    BY <1>1, <2>1, <2>5, Zenon DEF Types
  <2>7. Writing(t)'
    BY <1>1, <1>3, <1>4, <2>4, <2>6, Zenon DEF Writing
  <2> QED
    BY <1>1, <1>2, <1>4, <2>1, <2>2, <2>3, <2>7, WriterStep, Zenon
<1>6. CASE rows[call[t].id] # NoRow
  <2>1. /\ pc' = [pc EXCEPT ![t] = "evict"] /\ result' = result
        /\ rows' = [rows EXCEPT ![call[t].id] = NoRow]
    BY <1>6, Zenon DEF Removes, GoTo
  <2>2. rows' \in Contents /\ \A id \in Ids \ {call[t].id} : rows'[id] = rows[id]
    BY <1>1, <1>3, <2>1, Zenon DEF Types, Contents
  <2>3. Types'
    BY <1>1, <1>4, <2>1, <2>2, Zenon DEF Types
  <2>4. OnlyOf(t)
    BY <1>1, <1>4, <2>1, Zenon DEF OnlyOf, Types
  <2>5. pc'[t] = "evict"
    BY <1>1, <2>1, Zenon DEF Types
  <2>6. Writing(t)'
    BY <1>1, <1>3, <1>4, <1>6, <2>1, <2>5, Zenon DEF Writing
  <2>7. \A id \in Ids : cache'[id] \in {NoRow, rows'[id]} \/ MayBeStale(t, id)'
    BY <1>2, <1>4, <2>2, <2>5, Zenon DEF MayBeStale
  <2> QED
    BY <1>1, <1>4, <2>3, <2>4, <2>6, <2>7, WriterStep, Zenon
<1> QED
  BY <1>5, <1>6, Zenon

LEMMA EvictStep == ASSUME Inv, NEW t \in Threads, RemoveEvicts(t) PROVE Inv'
<1>1. t \in writers /\ Writing(t) /\ Types /\ pc[t] = "evict"
  BY Whereabouts, Zenon DEF RemoveEvicts, Inv
<1>2. /\ call[t] \in Ops /\ IsValid(call[t]) /\ call[t].kind = "deleteById" /\ call[t].id \in Ids
      /\ published[call[t].id] # NoRow /\ rows = [published EXCEPT ![call[t].id] = NoRow]
  BY <1>1, OpFields, Zenon DEF Types, Writing
<1>3. /\ pc' = [pc EXCEPT ![t] = "unlock"]
      /\ result' = [result EXCEPT ![t] = TRUE]
      /\ cache' = [id \in Ids |-> IF id = call[t].id THEN NoRow ELSE cache[id]]
      /\ UNCHANGED <<readers, writers, queued, rows, call, last, found, todo, published>>
  BY Zenon DEF RemoveEvicts, CacheErase, Yield, GoTo, lock
<1>4. \A id \in Ids \ {call[t].id} : cache[id] \in {NoRow, rows[id]}
  BY <1>1, WriterAlone, Zenon DEF MayBeStale
<1>5. cache' \in Contents /\ \A id \in Ids : cache'[id] \in {NoRow, rows[id]}
  BY <1>1, <1>3, <1>4, Zenon DEF Types, Contents
<1>6. Types'
  BY <1>1, <1>3, <1>5, Zenon DEF Types
<1>7. OnlyOf(t)
  BY <1>1, <1>3, Zenon DEF OnlyOf, Types
<1>8. rows = Effect(call[t], published)
  BY <1>1, <1>2, Effects, Zenon DEF Types
<1>9. Result(call[t], published) = TRUE
  BY <1>2, Results, Zenon
<1>10. pc'[t] = "unlock" /\ result'[t] = Result(call[t], published)
  BY <1>1, <1>3, <1>9, Zenon DEF Types
<1>11. Writing(t)'
  BY <1>1, <1>2, <1>3, <1>8, <1>10, Zenon DEF Writing
<1> QED
  BY <1>1, <1>3, <1>5, <1>6, <1>7, <1>11, WriterStep, Zenon

-----------------------------------------------------------------------------
(* The methods that scan the table: selectWhere and selectIdRange, and the  *)
(* two loops of deleteWhere and updateWhere.                                *)

(* Nothing that matches lies between the last row and the next one. *)
LEMMA NextRow ==
  ASSUME Types, NEW t \in Threads, NEW m \in Ahead(t), \A other \in Ahead(t) : m <= other
  PROVE  /\ m \in Ids /\ m \in Int /\ last[t] < m /\ rows[m] # NoRow
         /\ {id \in Matched(call[t], rows) : id <= m} =
               IF Matches(call[t], m, rows[m]) THEN SoFar(t, rows) \cup {m} ELSE SoFar(t, rows)
<1>3. m \in Ids /\ m \in Int /\ last[t] < m /\ rows[m] # NoRow /\ last[t] \in Int
  BY OpsAssumption, Zenon DEF Ahead, Present, Types
<1>4. ASSUME NEW id \in Matched(call[t], rows) PROVE id \in Int /\ (last[t] < id => m <= id)
  <2>1. id \in Present(rows) /\ id \in Int
    BY OpsAssumption, Zenon DEF Matched, Present
  <2>2. call[t].kind = "selectIdRange" => id \in call[t].lo..call[t].hi
    BY Zenon DEF Matched, Matches
  <2>3. last[t] < id => id \in Ahead(t)
    BY <2>1, <2>2, Zenon DEF Ahead
  <2> QED
    BY <2>1, <2>3, Zenon
<1>5. Matches(call[t], m, rows[m]) <=> m \in Matched(call[t], rows)
  BY <1>3, Zenon DEF Matched, Present
<1>6. \A id : id \in Matched(call[t], rows) /\ id <= m <=>
              \/ id \in Matched(call[t], rows) /\ id <= last[t]
              \/ id = m /\ m \in Matched(call[t], rows)
  <2> TAKE id
  <2>1. CASE id \in Matched(call[t], rows)
    BY <1>3, <1>4, <2>1
  <2> QED
    BY <2>1, Zenon
<1>7. {id \in Matched(call[t], rows) : id <= m} =
        IF Matches(call[t], m, rows[m]) THEN SoFar(t, rows) \cup {m} ELSE SoFar(t, rows)
  <2>1. CASE m \in Matched(call[t], rows)
    BY <1>5, <1>6, <2>1 DEF SoFar
  <2>2. CASE m \notin Matched(call[t], rows)
    BY <1>5, <1>6, <2>2, Zenon DEF SoFar
  <2> QED
    BY <2>1, <2>2, Zenon
<1> QED
  BY <1>3, <1>7, Zenon

LEMMA VisitStep == ASSUME Inv, NEW t \in Threads, ScanVisits(t) PROVE Inv'
<1>1. /\ Types /\ pc[t] = "scan" /\ Scanned(t)
      /\ \/ t \in readers /\ t \notin writers /\ Reading(t)
         \/ t \in writers /\ t \notin readers /\ Writing(t)
  BY Whereabouts, Zenon DEF ScanVisits, Inv, Reading, Writing
<1>2. UNCHANGED <<readers, writers, queued, rows, cache, call, pc, todo, result, published>>
  BY Zenon DEF ScanVisits, lock
<1>4. PICK m \in Ids :
        /\ m \in Int /\ last[t] < m
        /\ last' = [last EXCEPT ![t] = m]
        /\ found' = IF Matches(call[t], m, rows[m])
                    THEN [found EXCEPT ![t] = Append(@, <<m, rows[m]>>)]
                    ELSE found
        /\ {id \in Matched(call[t], rows) : id <= m} =
              IF Matches(call[t], m, rows[m]) THEN SoFar(t, rows) \cup {m} ELSE SoFar(t, rows)
  BY <1>1, NextRow, Zenon DEF ScanVisits
<1>5. <<m, rows[m]>> \in Row
  BY <1>1, Zenon DEF Types, Contents, Row
<1>6. Types'
  <2>1. last' \in [Threads -> Int]
    BY <1>1, <1>4, Zenon DEF Types
  <2>2. found[t] \in Seq(Row)
    BY <1>1, Zenon DEF Types
  <2>3. found' \in [Threads -> Seq(Row)]
    BY <1>1, <1>4, <1>5, <2>2 DEF Types
  <2> QED
    BY <1>1, <1>2, <2>1, <2>3, Zenon DEF Types
<1>7. OnlyOf(t)
  BY <1>1, <1>2, <1>4, Zenon DEF OnlyOf, Types
<1>8. Scanned(t)'
  <2>1. last'[t] = m
    BY <1>1, <1>4, Zenon DEF Types
  <2>2. SoFar(t, rows)' = {id \in Matched(call[t], rows) : id <= m}
    BY <1>2, <2>1, Zenon DEF SoFar
  <2>3. SoFar(t, rows) \in SUBSET Ids /\ \A id \in SoFar(t, rows) : id < m
    <3>1. \A id \in SoFar(t, rows) : id \in Ids /\ id \in Int /\ id <= last[t] /\ last[t] \in Int
      BY <1>1, OpsAssumption, Zenon DEF SoFar, Matched, Present, Types
    <3> QED
      BY <1>4, <3>1
  <2>4. CASE Matches(call[t], m, rows[m])
    <3>1. found'[t] = Append(found[t], <<m, rows[m]>>)
      BY <1>1, <1>4, <2>4, Zenon DEF Types
    <3>2. Enumerates(Append(found[t], <<m, rows[m]>>), SoFar(t, rows) \cup {m}, rows)
      BY <1>1, <2>3, Extend, Zenon DEF Types, Scanned
    <3>3. SoFar(t, rows)' = SoFar(t, rows) \cup {m}
      BY <1>4, <2>2, <2>4, Zenon
    <3> QED
      BY <1>2, <3>1, <3>2, <3>3, Zenon DEF Scanned
  <2>5. CASE ~Matches(call[t], m, rows[m])
    <3>1. found' = found /\ SoFar(t, rows)' = SoFar(t, rows)
      BY <1>4, <2>2, <2>5, Zenon
    <3> QED
      BY <1>1, <1>2, <3>1, Zenon DEF Scanned
  <2> QED
    BY <2>4, <2>5, Zenon
<1>9. Reading(t) => Reading(t)'
  BY <1>1, <1>2, <1>8, Zenon DEF Reading
<1>10. Writing(t) => Writing(t)'
  BY <1>1, <1>2, <1>8, Zenon DEF Writing
<1>11. Located(t)'
  BY <1>1, <1>2, <1>9, <1>10, Zenon DEF Located
<1>12. \A id \in Ids : ~MayBeStale(t, id)
  BY <1>1, Zenon DEF MayBeStale
<1> QED
  BY <1>2, <1>6, <1>7, <1>11, <1>12, Quiet, Zenon DEF lock

(* At the end of the scan it has collected every match. *)
LEMMA ScannedAll ==
  ASSUME Types, NEW t \in Threads, Ahead(t) = {}
  PROVE  SoFar(t, rows) = Matched(call[t], rows)
<1>1. ASSUME NEW id \in Matched(call[t], rows) PROVE id <= last[t]
  <2>1. id \in Present(rows) /\ id \in Int /\ last[t] \in Int
    BY OpsAssumption, Zenon DEF Matched, Present, Types
  <2>2. call[t].kind = "selectIdRange" => id \in call[t].lo..call[t].hi
    BY Zenon DEF Matched, Matches
  <2>3. ~(last[t] < id)
    BY <2>1, <2>2, Zenon DEF Ahead
  <2> QED
    BY <2>1, <2>3
<1> QED
  BY <1>1, Zenon DEF SoFar

LEMMA ScanEndStep == ASSUME Walks, Inv, NEW t \in Threads, ScanEnds(t) PROVE Inv'
<1>1. /\ Types /\ pc[t] = "scan"
      /\ \/ t \in readers /\ t \notin writers /\ Reading(t)
         \/ t \in writers /\ t \notin readers /\ Writing(t)
  BY Whereabouts, Zenon DEF ScanEnds, Inv
<1>2. UNCHANGED <<readers, writers, queued, rows, cache, call, last, found, published>>
  BY Zenon DEF ScanEnds, lock
<1>3. Enumerates(found[t], Matched(call[t], rows), rows)
  <2>1. Scanned(t) /\ Ahead(t) = {}
    BY <1>1, Zenon DEF Reading, Writing, ScanEnds
  <2> QED
    BY <1>1, <2>1, ScannedAll, Zenon DEF Scanned
<1>4. call[t] \in Ops /\ IsValid(call[t]) /\ found[t] \in Seq(Row)
  BY <1>1, Zenon DEF Types, Reading, Writing
<1>5. \A id \in Ids : ~MayBeStale(t, id)
  BY <1>1, Zenon DEF MayBeStale
<1>6. CASE call[t].kind \in ReadKinds
  <2>1. t \in readers /\ t \notin writers /\ Reading(t) /\ call[t].kind \in {"selectWhere", "selectIdRange"}
    BY <1>1, <1>6, Zenon DEF Reading, Writing
  <2>2. /\ pc' = [pc EXCEPT ![t] = "unlock"] /\ todo' = todo
        /\ result' = [result EXCEPT ![t] = found[t]]
    BY <1>6, Zenon DEF ScanEnds, Yield, GoTo
  <2>3. Result(call[t], rows) = found[t]
    BY <1>3, <1>4, <2>1, ScanResults, Zenon
  <2>4. Types'
    BY <1>1, <1>2, <2>2, Zenon DEF Types
  <2>5. OnlyOf(t)
    BY <1>1, <1>2, <2>2, Zenon DEF OnlyOf, Types
  <2>6. pc'[t] = "unlock" /\ result'[t] = Result(call[t], rows)
    BY <1>1, <2>2, <2>3, Zenon DEF Types
  <2>7. Reading(t)'
    BY <1>2, <2>1, <2>6, Zenon DEF Reading
  <2>8. Located(t)'
    BY <1>2, <2>1, <2>7, Zenon DEF Located
  <2> QED
    BY <1>2, <1>5, <2>4, <2>5, <2>8, Quiet, Zenon DEF lock
<1>7. CASE call[t].kind \notin ReadKinds
  <2>1. /\ t \in writers /\ t \notin readers /\ Writing(t) /\ rows = published
        /\ call[t].kind \in {"deleteWhere", "updateWhere"}
    BY <1>1, <1>7, Zenon DEF Reading, Writing
  <2>2. /\ pc' = [pc EXCEPT ![t] = "apply"] /\ result' = result
        /\ todo' = [todo EXCEPT ![t] = [i \in DOMAIN found[t] |-> found[t][i][1]]]
    BY <1>7, Zenon DEF ScanEnds, GoTo
  <2>3. PICK n \in Nat : n = Len(found[t])
    <3>1. Len(found[t]) \in Nat
      BY <1>4
    <3> QED
      BY <3>1, Zenon
  <2>5. PICK ids \in Seq(Ids) : /\ ids = [i \in DOMAIN found[t] |-> found[t][i][1]]
                                /\ Len(ids) = n /\ \A i \in 1..n : ids[i] = found[t][i][1]
    BY <1>4, <2>3, FirstColumn, Zenon
  <2>6. todo' = [todo EXCEPT ![t] = ids]
    BY <2>2, <2>5, Zenon
  <2>7. Types'
    BY <1>1, <1>2, <2>2, <2>6, Zenon DEF Types
  <2>8. OnlyOf(t)
    BY <1>1, <1>2, <2>2, <2>6, Zenon DEF OnlyOf, Types
  <2>9. pc'[t] = "apply" /\ todo'[t] = ids
    BY <1>1, <2>2, <2>6, Zenon DEF Types
  <2>10. Applied(t)'
    <3>1. Done(t)' = 0
      BY <1>2, <2>3, <2>5, <2>9 DEF Done
    <3>2. rows = [id \in Ids |-> published[id]]
      BY <1>1, <2>1, Zenon DEF Types, Contents
    <3>3. Len(todo'[t]) = n /\ Len(found'[t]) = n
          /\ \A i \in 1..n : todo'[t][i] = found'[t][0 + i][1]
      BY <1>2, <2>3, <2>5, <2>9
    <3>4. Enumerates(found[t], Matched(call[t], published), published)
      BY <1>3, <2>1, Zenon
    <3>5. \A id : ~Among(found[t], 0, id)
      BY OneMore, Zenon
    <3>6. rows = [id \in Ids |->
                    IF Among(found[t], 0, id)
                    THEN IF call[t].kind = "deleteWhere" THEN NoRow ELSE NewValue(call[t])
                    ELSE published[id]]
      BY <3>2, <3>5, Zenon
    <3> QED
      BY <1>2, <3>1, <3>3, <3>4, <3>6 DEF Applied
  <2>11. Writing(t)'
    BY <1>2, <2>1, <2>9, <2>10, Zenon DEF Writing
  <2>12. Located(t)'
    BY <1>2, <2>1, <2>11, Zenon DEF Located
  <2> QED
    BY <1>2, <1>5, <2>7, <2>8, <2>12, Quiet, Zenon DEF lock
<1> QED
  BY <1>6, <1>7, Zenon

-----------------------------------------------------------------------------
(* One round of the second loop: one more match is dealt with. *)
LEMMA AppliesOne ==
  ASSUME Types, NEW t \in Threads, Applied(t), todo[t] # <<>>
  PROVE  LET v == IF call[t].kind = "deleteWhere" THEN NoRow ELSE NewValue(call[t]) IN
         /\ Head(todo[t]) \in Ids /\ Tail(todo[t]) \in Seq(Ids)
         /\ \E i \in 1..Len(found[t]) : found[t][i][1] = Head(todo[t])
         /\ /\ rows' = [rows EXCEPT ![Head(todo[t])] = v]
            /\ todo' = [todo EXCEPT ![t] = Tail(@)]
            /\ UNCHANGED <<call, found, published>>
            => Applied(t)'
<1>1. PICK q \in Seq(Ids), f \in Seq(Row) : q = todo[t] /\ f = found[t]
  BY Zenon DEF Types
<1>2. PICK n \in Nat, L \in Nat : n = Len(q) /\ L = Len(f) /\ n > 0 /\ n <= L
  <2>1. Len(q) \in Nat /\ Len(q) > 0
    BY <1>1, HeadAndTail, Zenon
  <2>2. Len(f) \in Nat
    BY <1>1
  <2>3. Len(q) <= Len(f)
    BY <1>1, Zenon DEF Applied
  <2> QED
    BY <2>1, <2>2, <2>3, Zenon
<1>3. PICK h \in Ids, r \in Seq(Ids) :
        /\ h = Head(q) /\ h = q[1] /\ r = Tail(q) /\ Len(r) = n - 1
        /\ \A i \in 1..(n - 1) : r[i] = q[i + 1]
  BY <1>1, <1>2, HeadAndTail, Zenon
<1>4. PICK k \in Nat :
        /\ k = L - n /\ k + 1 \in 1..L /\ L - (n - 1) = k + 1 /\ 1 \in 1..n /\ n - 1 <= L
        /\ \A i \in 1..(n - 1) : i + 1 \in 1..n /\ k + (i + 1) = (k + 1) + i
  BY <1>2, Indices, Zenon
<1>5. k = Done(t)
  BY <1>1, <1>2, <1>4, Zenon DEF Done
<1>6. \A i \in 1..n : q[i] = f[k + i][1]
  BY <1>1, <1>2, <1>5, Zenon DEF Applied
<1>7. h = f[k + 1][1]
  BY <1>3, <1>4, <1>6, Zenon
<1>8. \A i \in 1..(n - 1) : r[i] = f[(k + 1) + i][1]
  <2> TAKE i \in 1..(n - 1)
  <2>1. i + 1 \in 1..n /\ k + (i + 1) = (k + 1) + i
    BY <1>4, Zenon
  <2>2. q[i + 1] = f[k + (i + 1)][1]
    BY <1>6, <2>1, Zenon
  <2> QED
    BY <1>3, <2>1, <2>2, Zenon
<1>9. Head(todo[t]) \in Ids /\ Tail(todo[t]) \in Seq(Ids)
      /\ \E i \in 1..Len(found[t]) : found[t][i][1] = Head(todo[t])
  BY <1>1, <1>2, <1>3, <1>4, <1>7, Zenon
<1> DEFINE v == IF call[t].kind = "deleteWhere" THEN NoRow ELSE NewValue(call[t])
<1>10. rows = [id \in Ids |-> IF Among(f, k, id) THEN v ELSE published[id]]
  BY <1>1, <1>5, Zenon DEF Applied
<1>11. [rows EXCEPT ![h] = v]
         = [id \in Ids |-> IF Among(f, k + 1, id) THEN v ELSE published[id]]
  <2>1. \A id : Among(f, k + 1, id) <=> Among(f, k, id) \/ id = h
    BY <1>7, OneMore, Zenon
  <2> HIDE DEF v
  <2> QED
    BY <1>10, <2>1, Zenon
<1>12. ASSUME rows' = [rows EXCEPT ![Head(todo[t])] = v],
              todo' = [todo EXCEPT ![t] = Tail(@)],
              UNCHANGED <<call, found, published>>
       PROVE  Applied(t)'
  <2>1. todo'[t] = r /\ found'[t] = f /\ call'[t] = call[t] /\ published' = published
    BY <1>1, <1>3, <1>12, Zenon DEF Types
  <2>2. rows' = [id \in Ids |-> IF Among(f, k + 1, id) THEN v ELSE published[id]]
    <3> HIDE DEF v
    <3> QED
      BY <1>1, <1>3, <1>11, <1>12, Zenon
  <2>3. Done(t)' = k + 1
    BY <1>2, <1>3, <1>4, <2>1, Zenon DEF Done
  <2>4. Enumerates(f, Matched(call[t], published), published)
    BY <1>1, Zenon DEF Applied
  <2>5. Len(r) <= L
    BY <1>3, <1>4, Zenon
  <2> QED
    BY <1>2, <1>3, <1>8, <2>1, <2>2, <2>3, <2>4, <2>5, Zenon DEF Applied
<1> QED
  BY <1>9, <1>12, Zenon

LEMMA ApplyStep ==
  ASSUME Inv, NEW t \in Threads, DeletesOne(t) \/ UpdatesOne(t) PROVE Inv'
<1> DEFINE v == IF call[t].kind = "deleteWhere" THEN NoRow ELSE NewValue(call[t])
           h == Head(todo[t])
<1>1. /\ t \in writers /\ Writing(t) /\ Types /\ Applied(t) /\ todo[t] # <<>>
      /\ pc[t] = "apply" /\ call[t].kind \in {"deleteWhere", "updateWhere"} /\ call[t] \in Ops
  BY Whereabouts, Zenon DEF DeletesOne, UpdatesOne, Inv, Writing, Types
<1>2. v \in Vals \cup {NoRow}
  BY <1>1, OpFields, Zenon DEF Writing
<1>3. h \in Ids /\ Tail(todo[t]) \in Seq(Ids) /\ \E i \in 1..Len(found[t]) : found[t][i][1] = h
  BY <1>1, AppliesOne, Zenon
<1>4. /\ rows' = [rows EXCEPT ![h] = v] /\ todo' = [todo EXCEPT ![t] = Tail(@)]
      /\ UNCHANGED <<readers, writers, call, pc, last, found, result, published>>
      /\ \/ /\ call[t].kind = "deleteWhere"
            /\ cache' = [id \in Ids |-> IF id = h THEN NoRow ELSE cache[id]]
         \/ call[t].kind = "updateWhere" /\ cache' = cache
  BY Zenon DEF DeletesOne, UpdatesOne, CacheErase, lock
<1>5. Applied(t)'
  BY <1>1, <1>4, AppliesOne, Zenon
<1> HIDE DEF v, h
<1>6. rows' \in Contents /\ cache' \in Contents /\ todo' \in [Threads -> Seq(Ids)]
  BY <1>1, <1>2, <1>3, <1>4, Zenon DEF Types, Contents
<1>7. Types'
  BY <1>1, <1>4, <1>6, Zenon DEF Types
<1>8. OnlyOf(t)
  BY <1>1, <1>4, Zenon DEF OnlyOf, Types
<1>9. Writing(t)'
  BY <1>1, <1>4, <1>5, Zenon DEF Writing
<1>10. \A id \in Ids : cache'[id] \in {NoRow, rows'[id]} \/ MayBeStale(t, id)'
  <2> TAKE id \in Ids
  <2>1. cache[id] \in {NoRow, rows[id]} \/ MayBeStale(t, id)
    BY <1>1, WriterAlone, Zenon
  <2>2. id # h => rows'[id] = rows[id]
    BY <1>1, <1>4, Zenon DEF Types, Contents
  <2>3. CASE call[t].kind = "deleteWhere"
    <3>1. ~MayBeStale(t, id) /\ cache'[id] = IF id = h THEN NoRow ELSE cache[id]
      BY <1>1, <1>4, <2>3, Zenon DEF MayBeStale
    <3> QED
      BY <2>1, <2>2, <3>1, Zenon
  <2>4. CASE call[t].kind = "updateWhere"
    <3>1. cache' = cache
      BY <1>4, <2>4, Zenon
    <3>2. MayBeStale(t, id)' <=> \E i \in 1..Len(found[t]) : found[t][i][1] = id
      BY <1>1, <1>4, <2>4, Zenon DEF MayBeStale
    <3>3. MayBeStale(t, id) => MayBeStale(t, id)'
      BY <1>1, <3>2, Zenon DEF MayBeStale
    <3>4. id = h => MayBeStale(t, id)'
      BY <1>3, <3>2, Zenon
    <3> QED
      BY <2>1, <2>2, <3>1, <3>3, <3>4, Zenon
  <2> QED
    BY <1>1, <2>3, <2>4, Zenon
<1> QED
  BY <1>1, <1>4, <1>7, <1>8, <1>9, <1>10, WriterStep, Zenon

(* When nothing is left to do the rows are those of the atomic operation,   *)
(* and updateWhere erases every entry it may have left stale.               *)
LEMMA ApplyEndStep == ASSUME Walks, Inv, NEW t \in Threads, ApplyEnds(t) PROVE Inv'
<1>1. /\ t \in writers /\ Writing(t) /\ Types /\ Applied(t) /\ todo[t] = <<>> /\ IsValid(call[t])
      /\ pc[t] = "apply" /\ call[t].kind \in {"deleteWhere", "updateWhere"} /\ call[t] \in Ops
  BY Whereabouts, Zenon DEF ApplyEnds, Inv, Writing, Types
<1>2. /\ pc' = [pc EXCEPT ![t] = "unlock"] /\ result' = [result EXCEPT ![t] = Len(found[t])]
      /\ UNCHANGED <<readers, writers, rows, call, last, found, todo, published>>
      /\ \/ /\ call[t].kind = "updateWhere"
            /\ cache' = [id \in Ids |-> IF id \in {found[t][i][1] : i \in DOMAIN found[t]}
                                        THEN NoRow ELSE cache[id]]
         \/ call[t].kind = "deleteWhere" /\ cache' = cache
  BY Zenon DEF ApplyEnds, CacheErase, Yield, GoTo, lock
<1>3. PICK n \in Nat : n = Len(found[t]) /\ DOMAIN found[t] = 1..n
  <2>1. found[t] \in Seq(Row)
    BY <1>1, Zenon DEF Types
  <2> QED
    BY <2>1
<1>4. Done(t) = n
  <2>1. Len(todo[t]) = 0
    BY <1>1
  <2> QED
    BY <1>3, <2>1 DEF Done
<1>5. Enumerates(found[t], Matched(call[t], published), published)
  BY <1>1, Zenon DEF Applied
<1>6. \A id : (\E i \in 1..n : found[t][i][1] = id) <=> id \in Matched(call[t], published)
  BY <1>3, <1>5, Zenon DEF Enumerates
<1>7. rows = Effect(call[t], published)
  <2> DEFINE v == IF call[t].kind = "deleteWhere" THEN NoRow ELSE NewValue(call[t])
  <2>1. rows = [id \in Ids |-> IF Among(found[t], n, id) THEN v ELSE published[id]]
    BY <1>1, <1>4, Zenon DEF Applied
  <2>2. \A id : Among(found[t], n, id) <=> id \in Matched(call[t], published)
    BY <1>6, Zenon DEF Among
  <2>3. Effect(call[t], published) =
          [id \in Ids |-> IF id \in Matched(call[t], published) THEN v ELSE published[id]]
    BY <1>1, Effects, Zenon DEF Types
  <2> HIDE DEF v
  <2> QED
    BY <2>1, <2>2, <2>3, Zenon
<1>8. pc'[t] = "unlock" /\ result'[t] = Result(call[t], published)
  <2>1. Result(call[t], published) = Len(found[t])
    BY <1>1, <1>5, ScanResults, Zenon
  <2> QED
    BY <1>1, <1>2, <2>1, Zenon DEF Types
<1>9. cache' \in Contents /\ \A id \in Ids : cache'[id] \in {NoRow, rows[id]}
  <2>1. CASE call[t].kind = "updateWhere"
    <3> DEFINE Hits == {found[t][i][1] : i \in DOMAIN found[t]}
    <3>1. cache' = [id \in Ids |-> IF id \in Hits THEN NoRow ELSE cache[id]]
      BY <1>2, <2>1, Zenon
    <3>2. \A id \in Ids : MayBeStale(t, id) => id \in Hits
      BY <1>1, <1>3, Zenon DEF MayBeStale
    <3> HIDE DEF Hits
    <3>3. \A id \in Ids : cache[id] \in {NoRow, rows[id]} \/ id \in Hits
      BY <1>1, <3>2, WriterAlone, Zenon
    <3> QED
      BY <1>1, <3>1, <3>3, Zenon DEF Types, Contents
  <2>2. CASE call[t].kind = "deleteWhere"
    <3>1. \A id \in Ids : ~MayBeStale(t, id)
      BY <1>1, <2>2, Zenon DEF MayBeStale
    <3>2. cache' = cache
      BY <1>2, <2>2, Zenon
    <3> QED
      BY <1>1, <3>1, <3>2, WriterAlone, Zenon DEF Types
  <2> QED
    BY <1>1, <2>1, <2>2, Zenon
<1>10. Types'
  BY <1>1, <1>2, <1>9, Zenon DEF Types
<1>11. OnlyOf(t)
  BY <1>1, <1>2, Zenon DEF OnlyOf, Types
<1>12. Writing(t)'
  BY <1>1, <1>2, <1>7, <1>8, Zenon DEF Writing
<1> QED
  BY <1>1, <1>2, <1>9, <1>10, <1>11, <1>12, WriterStep, Zenon

-----------------------------------------------------------------------------
(***************************************************************************)
(* Finite sets of integers have a least element and one sorted enumeration *)
(***************************************************************************)

LEMMA Least ==
  ASSUME NEW C \in SUBSET Nat, C # {} PROVE \E n \in C : \A m \in C : n <= m
<1> DEFINE R == {ss \in Nat \X Nat : ss[1] < ss[2]}
<1>1. IsWellFoundedOn(R, Nat)
  BY NatLessThanWellFounded, Zenon DEF OpToRel
<1> HIDE DEF R
<1>2. PICK n \in C : \A m \in C : ~(<<m, n>> \in R)
  BY <1>1, WFMin, Zenon
<1>3. \A m \in C : m \in Nat /\ n \in Nat /\ ~(m < n)
  BY <1>2, Zenon DEF R
<1> QED
  BY <1>3

(* A finite set of integers has a least element: take the smallest set      *)
(* without one, and remove an element from it.                              *)
LEMMA FiniteSetHasMin ==
  ASSUME NEW S \in SUBSET Int, IsFiniteSet(S), S # {}
  PROVE  \E x \in S : \A y \in S : x <= y
<1> DEFINE HasMin(T) == \E x \in T : \A y \in T : x <= y
           Bad0 == {n \in Nat : \E T \in SUBSET Int : /\ IsFiniteSet(T) /\ T # {}
                                                      /\ Cardinality(T) = n /\ ~HasMin(T)}
<1>1. Bad0 = {}
  <2> SUFFICES ASSUME Bad0 # {} PROVE FALSE
    OBVIOUS
  <2>1. PICK n \in Bad0 : \A m \in Bad0 : n <= m
    BY Least, Zenon
  <2>2. PICK T \in SUBSET Int : IsFiniteSet(T) /\ T # {} /\ Cardinality(T) = n /\ ~HasMin(T)
    OBVIOUS
  <2>3. PICK x \in T : TRUE
    BY <2>2, Zenon
  <2>4. IsFiniteSet(T \ {x}) /\ Cardinality(T \ {x}) = n - 1
    BY <2>2, FS_RemoveElement, Zenon
  <2>5. n - 1 \in Nat
    BY <2>4, FS_CardinalityType, Zenon
  <2>6. T \ {x} = {} \/ HasMin(T \ {x})
    <3> HIDE DEF HasMin
    <3>1. n \in Nat /\ n - 1 \notin Bad0
      BY <2>1, <2>5
    <3> QED
      BY <2>4, <2>5, <3>1, Zenon
  <2>7. CASE T \ {x} = {}
    BY <2>2, <2>7
  <2>8. CASE HasMin(T \ {x})
    <3>1. PICK m \in T \ {x} : \A y \in T \ {x} : m <= y
      BY <2>8, Zenon
    <3>2. x \in Int /\ m \in Int /\ (\A y \in T : y \in Int)
      OBVIOUS
    <3>3. CASE m <= x
      BY <2>2, <3>1, <3>2, <3>3, Zenon
    <3>4. CASE x <= m
      BY <2>2, <3>1, <3>2, <3>4
    <3> QED
      BY <3>2, <3>3, <3>4
  <2> QED
    BY <2>6, <2>7, <2>8, Zenon
<1>2. Cardinality(S) \in Nat
  BY FS_CardinalityType, Zenon
<1> QED
  BY <1>1, <1>2, Zenon

LEMMA EnumeratesLen ==
  ASSUME NEW S \in SUBSET Ids, NEW s, NEW contents, Enumerates(s, S, contents)
  PROVE  IsFiniteSet(S) /\ Cardinality(S) = Len(s) /\ Len(s) \in Nat
<1>1. Len(s) \in Nat
  BY DEF Enumerates
<1> DEFINE f == [i \in 1..Len(s) |-> s[i][1]]
<1>2. \A i, j \in 1..Len(s) : s[i][1] = s[j][1] => i = j
  <2> TAKE i, j \in 1..Len(s)
  <2>1. s[i][1] \in Int /\ s[j][1] \in Int
    BY OpsAssumption, Zenon DEF Enumerates
  <2> QED
    BY <1>1, <2>1 DEF Enumerates
<1>3. ExistsBijection(1..Len(s), S)
  <2>1. f \in [1..Len(s) -> S]
    BY Zenon DEF Enumerates
  <2>2. \A i, j \in 1..Len(s) : f[i] = f[j] => i = j
    BY <1>2, Zenon
  <2>3. \A id \in S : \E i \in 1..Len(s) : f[i] = id
    BY Zenon DEF Enumerates
  <2> HIDE DEF f
  <2>4. DOMAIN f = 1..Len(s)
    BY <2>1, Zenon
  <2>5. f \in Injection(1..Len(s), S) /\ f \in Surjection(1..Len(s), S)
    BY <2>1, <2>2, <2>3, <2>4, Zenon DEF Injection, Surjection, IsInjective
  <2> QED
    BY <2>5, Zenon DEF ExistsBijection, Bijection
<1>4. IsFiniteSet(S)
  BY OpsAssumption, FS_Subset, Zenon
<1>5. Cardinality(S) = Len(s)
  BY <1>1, <1>3, FS_CountingElements, Zenon
<1> QED
  BY <1>1, <1>4, <1>5, Zenon

(* There is only one sorted enumeration of a set, so the order of the tree  *)
(* walk is that of InOrder.                                                 *)
LEMMA EnumeratesInOrder ==
  ASSUME NEW S \in SUBSET Ids, NEW s, NEW contents, Enumerates(s, S, contents)
  PROVE  s = [i \in DOMAIN InOrder(S) |-> <<InOrder(S)[i], contents[InOrder(S)[i]]>>]
<1>1. PICK n \in Nat : n = Len(s) /\ n = Cardinality(S)
  BY EnumeratesLen, Zenon
<1> DEFINE f == [i \in 1..n |-> s[i][1]]
           Sorted(g) == \A i, j \in 1..n : i < j => g[i] < g[j]
<1>2. f \in [1..n -> S] /\ Sorted(f)
  BY <1>1, Zenon DEF Enumerates
<1>3. /\ InOrder(S) \in [1..n -> S] /\ Sorted(InOrder(S))
  <2>1. \E g \in [1..n -> S] : Sorted(g)
    BY <1>2, Zenon
  <2>2. InOrder(S) = CHOOSE g \in [1..n -> S] : Sorted(g)
    BY <1>1, Zenon DEF InOrder
  <2> HIDE DEF Sorted
  <2> QED
    BY <2>1, <2>2, Zenon
<1>4. PICK g \in [1..n -> S] : g = InOrder(S) /\ Sorted(g)
  BY <1>3, Zenon
<1>5. /\ \A i \in 1..n : f[i] \in Int /\ g[i] \in Int /\ f[i] \in S /\ g[i] \in S
      /\ \A id \in S : \E i \in 1..n : f[i] = id
  BY <1>1, <1>2, OpsAssumption, Zenon DEF Enumerates
<1>6. \A i \in 1..n : f[i] = g[i]
  <2> DEFINE Diff == {i \in 1..n : f[i] # g[i]}
  <2> SUFFICES ASSUME Diff # {} PROVE FALSE
    OBVIOUS
  <2>0. Diff \in SUBSET Nat
    OBVIOUS
  <2>1. PICK k \in Diff : \A m \in Diff : k <= m
    <3> HIDE DEF Diff
    <3> QED
      BY <2>0, Least, Zenon
  <2>2. k \in 1..n /\ f[k] # g[k] /\ \A m \in 1..n : m < k => f[m] = g[m]
    BY <2>1
  <2> HIDE DEF f, Diff
  (* g reaches every element of S as well: it is injective into a set of n. *)
  <2>3. \A id \in S : \E i \in 1..n : g[i] = id
    <3>1. \A i, j \in 1..n : g[i] = g[j] => i = j
      BY <1>4, <1>5
    <3>2. DOMAIN g = 1..n
      OBVIOUS
    <3>3. g \in Injection(1..n, S)
      BY <3>1, <3>2, Zenon DEF Injection, IsInjective
    <3>4. IsFiniteSet(1..n) /\ Cardinality(1..n) = n /\ IsFiniteSet(S) /\ Cardinality(S) = n
      <4>1. IsFiniteSet(1..n)
        BY FS_Interval
      <4>2. Cardinality(1..n) = n
        BY FS_Interval
      <4> QED
        BY <1>1, <4>1, <4>2, EnumeratesLen, Zenon
    <3>5. g \in Surjection(1..n, S)
      BY <3>3, <3>4, FS_Injection, Zenon
    <3> QED
      BY <3>5, Zenon DEF Surjection
  <2>4. CASE f[k] < g[k]
    <3>1. PICK i \in 1..n : g[i] = f[k]
      BY <1>5, <2>2, <2>3, Zenon
    <3>2. i < k
      <4>0. g[k] \in Int /\ f[k] \in Int /\ g[i] \in Int
        BY <1>5, <2>2, Zenon
      <4>1. i # k /\ ~(g[k] < g[i])
        BY <2>2, <2>4, <3>1, <4>0
      <4> QED
        BY <1>4, <2>2, <4>1
    <3> QED
      BY <1>2, <1>5, <2>2, <3>1, <3>2
  <2>5. CASE g[k] < f[k]
    <3>1. PICK i \in 1..n : f[i] = g[k]
      BY <1>5, <2>2, Zenon
    <3>2. i < k
      <4>0. f[k] \in Int /\ g[k] \in Int /\ f[i] \in Int
        BY <1>5, <2>2, Zenon
      <4>1. i # k /\ ~(f[k] < f[i])
        BY <2>2, <2>5, <3>1, <4>0
      <4> QED
        BY <1>2, <2>2, <4>1
    <3> QED
      BY <1>4, <1>5, <2>2, <3>1, <3>2
  <2> QED
    BY <1>5, <2>2, <2>4, <2>5
<1>7. \A i \in 1..n : s[i] = <<g[i], contents[g[i]]>>
  <2> TAKE i \in 1..n
  <2>1. s[i] = <<s[i][1], contents[s[i][1]]>> /\ f[i] = s[i][1]
    BY <1>1, Zenon DEF Enumerates
  <2> HIDE DEF f
  <2> QED
    BY <1>6, <2>1, Zenon
<1>8. s = [i \in 1..n |-> s[i]]
  <2>1. s \in Seq(Row)
    BY Zenon DEF Enumerates
  <2> HIDE DEF f, Sorted
  <2>2. s = [i \in 1..Len(s) |-> s[i]]
    BY <2>1
  <2> QED
    BY <1>1, <2>2, Zenon
<1> HIDE DEF f, Sorted
<1>9. DOMAIN g = 1..n
  OBVIOUS
<1> QED
  BY <1>4, <1>7, <1>8, <1>9, Zenon

LEMMA WalksHold == Walks
<1>1. \E id \in Ids : \A other \in Ids : id <= other
  BY OpsAssumption, FiniteSetHasMin, Zenon
<1>2. ASSUME NEW S \in SUBSET Ids, NEW s, NEW contents, Enumerates(s, S, contents)
      PROVE  /\ Len(s) = Cardinality(S)
             /\ s = [i \in DOMAIN InOrder(S) |-> <<InOrder(S)[i], contents[InOrder(S)[i]]>>]
  BY <1>2, EnumeratesLen, EnumeratesInOrder
<1> QED
  BY <1>1, <1>2, Zenon DEF Walks

-----------------------------------------------------------------------------
(* The invariant holds at first and is kept by every step. *)
LEMMA InitInv == Init => Inv
<1> SUFFICES ASSUME Init PROVE Inv
  OBVIOUS
<1>1. /\ readers = {} /\ writers = {} /\ rows = published
      /\ rows = [id \in Ids |-> NoRow] /\ cache = [id \in Ids |-> NoRow]
      /\ call = [t \in Threads |-> Idle] /\ pc = [t \in Threads |-> "idle"]
      /\ last = [t \in Threads |-> BeforeAll] /\ found = [t \in Threads |-> <<>>]
      /\ todo = [t \in Threads |-> <<>>] /\ result = [t \in Threads |-> Pending]
  BY Zenon DEF Init, Lock!LockInit
<1>2. BeforeAll \in Int
  BY BeforeAllIds, WalksHold, Zenon
<1>3. <<>> \in Seq(Row) /\ <<>> \in Seq(Ids)
  OBVIOUS
<1>4. Types
  BY <1>1, <1>2, <1>3, Zenon DEF Types, Contents
<1>5. Exclusive
  BY <1>1, Zenon DEF Exclusive
<1>6. \A t \in Threads : Located(t)
  BY <1>1, Zenon DEF Located, Outside
<1>7. Fresh
  BY <1>1, Zenon DEF Fresh
<1> QED
  BY <1>4, <1>5, <1>6, <1>7 DEF Inv

LEMMA NextInv == Inv /\ [Next]_vars => Inv'
<1> SUFFICES ASSUME Inv, [Next]_vars PROVE Inv'
  OBVIOUS
<1>1. ASSUME NEW t \in Threads, Step(t) PROVE Inv'
  <2>1. CASE Invoke(t)
    BY <2>1, InvokeStep, Zenon
  <2>2. CASE Validate(t)
    BY <2>2, ValidateStep, Zenon
  <2>3. CASE LockShared(t) \/ LockExclusive(t)
    BY <2>3, EnterStep, WalksHold, Zenon
  <2>4. CASE LockWaits(t)
    BY <2>4, WaitsStep, Zenon
  <2>5. CASE FindProbes(t) \/ FindSearches(t) \/ Counts(t)
    BY <2>5, ReadStep
  <2>6. CASE FindFills(t)
    BY <2>6, FillStep, Zenon
  <2>7. CASE Inserts(t)
    BY <2>7, InsertStep, Zenon
  <2>8. CASE Removes(t)
    BY <2>8, RemoveStep, Zenon
  <2>9. CASE RemoveEvicts(t)
    BY <2>9, EvictStep, Zenon
  <2>10. CASE ScanVisits(t)
    BY <2>10, VisitStep, Zenon
  <2>11. CASE ScanEnds(t)
    BY <2>11, ScanEndStep, WalksHold
  <2>12. CASE DeletesOne(t) \/ UpdatesOne(t)
    BY <2>12, ApplyStep
  <2>13. CASE ApplyEnds(t)
    BY <2>13, ApplyEndStep, WalksHold, Zenon
  <2>14. CASE Unlock(t)
    BY <2>14, UnlockStep, Zenon
  <2>15. CASE Return(t)
    BY <2>15, ReturnStep, WalksHold, Zenon
  <2> QED
    BY <1>1, <2>1, <2>2, <2>3, <2>4, <2>5, <2>6, <2>7, <2>8, <2>9, <2>10, <2>11, <2>12,
       <2>13, <2>14, <2>15 DEF Step
<1>2. CASE UNCHANGED vars
  <2>1. UNCHANGED <<readers, writers, queued, rows, cache, call, pc, last, found, todo, result, published>>
    BY <1>2, Zenon DEF vars, lock, local
  <2>2. ASSUME NEW t \in Threads PROVE Located(t)'
    <3>1. (Scanned(t)' <=> Scanned(t)) /\ (Applied(t)' <=> Applied(t))
      BY <2>1, Zenon DEF Scanned, SoFar, Applied, Done
    <3>2. Reading(t)' <=> Reading(t)
      BY <2>1, <3>1, Zenon DEF Reading
    <3>3. Writing(t)' <=> Writing(t)
      BY <2>1, <3>1 DEF Writing
    <3>4. Outside(t)' <=> Outside(t)
      BY <2>1, Zenon DEF Outside
    <3> QED
      BY <2>1, <3>2, <3>3, <3>4, Zenon DEF Inv, Located
  <2>3. Types' /\ Exclusive' /\ Fresh'
    BY <2>1 DEF Inv, Types, Exclusive, Fresh, MayBeStale
  <2> QED
    BY <2>2, <2>3, Zenon DEF Inv
<1> QED
  BY <1>1, <1>2, Zenon DEF Next

-----------------------------------------------------------------------------
(* Every step is one of the atomic table, or none. *)
LEMMA InitAtomic == Init => Atomic!TableInit
<1> SUFFICES ASSUME Init PROVE Atomic!TableInit
  OBVIOUS
<1>1. Answer = [t \in Threads |-> Pending]
  BY Zenon DEF Init, Answer
<1> QED
  BY <1>1, Zenon DEF Init, Atomic!TableInit

(* The answers after a step that concerns thread t only. *)
Alone(t) == \A u \in Threads : u # t => pc'[u] = pc[u] /\ result'[u] = result[u]

LEMMA AnswerStep ==
  ASSUME NEW t \in Threads, Alone(t)
  PROVE  /\ Answer' = [Answer EXCEPT ![t] = IF pc'[t] = "done" THEN result'[t] ELSE Pending]
         /\ pc'[t] # "done" /\ pc[t] # "done" => Answer' = Answer
<1>1. Answer' = [u \in Threads |-> IF pc'[u] = "done" THEN result'[u] ELSE Pending]
  BY Zenon DEF Answer
<1>2. Answer = [u \in Threads |-> IF pc[u] = "done" THEN result[u] ELSE Pending]
  BY Zenon DEF Answer
<1>3. Answer' = [Answer EXCEPT ![t] = IF pc'[t] = "done" THEN result'[t] ELSE Pending]
  BY <1>1, <1>2, Zenon DEF Alone
<1>4. pc'[t] # "done" /\ pc[t] # "done" => Answer' = Answer
  BY <1>1, <1>2, Zenon DEF Alone
<1> QED
  BY <1>3, <1>4, Zenon

LEMMA InnerStep ==
  ASSUME Inv, NEW t \in Threads,
         \/ LockShared(t) \/ LockExclusive(t) \/ LockWaits(t) \/ FindProbes(t) \/ FindSearches(t)
         \/ FindFills(t) \/ Counts(t) \/ Inserts(t) \/ Removes(t) \/ RemoveEvicts(t)
         \/ ScanVisits(t) \/ ScanEnds(t) \/ DeletesOne(t) \/ UpdatesOne(t) \/ ApplyEnds(t)
  PROVE  UNCHANGED <<published, call, Answer>>
<1>1. Types
  BY Zenon DEF Inv
<1>2. UNCHANGED <<published, call>>
  BY Zenon
     DEF LockShared, LockExclusive, LockWaits, FindProbes, FindSearches, FindFills, Counts,
         Inserts, Removes, RemoveEvicts, ScanVisits, ScanEnds, DeletesOne, UpdatesOne, ApplyEnds
<1>3. Alone(t) /\ pc[t] # "done" /\ pc'[t] # "done"
  <2>1. CASE LockShared(t) \/ LockExclusive(t)
    <3>1. pc[t] = "lock" /\ pc' = [pc EXCEPT ![t] = Entry(call[t])] /\ result' = result
      BY <2>1, Zenon DEF LockShared, LockExclusive, GoTo, local
    <3>2. Entry(call[t]) # "done"
      BY Zenon DEF Entry
    <3> QED
      BY <1>1, <3>1, <3>2 DEF Alone, Types
  <2>2. CASE LockWaits(t) \/ ScanVisits(t) \/ DeletesOne(t) \/ UpdatesOne(t)
    <3>1. pc[t] # "done" /\ pc' = pc /\ result' = result
      BY <2>2, Zenon DEF LockWaits, ScanVisits, DeletesOne, UpdatesOne, local
    <3> QED
      BY <3>1, Zenon DEF Alone
  <2>3. CASE \/ FindProbes(t) \/ FindSearches(t) \/ FindFills(t) \/ Counts(t) \/ Inserts(t)
             \/ Removes(t) \/ RemoveEvicts(t) \/ ScanEnds(t) \/ ApplyEnds(t)
    <3>1. /\ pc[t] # "done"
          /\ \/ pc' = [pc EXCEPT ![t] = "unlock"] /\ \E v : result' = [result EXCEPT ![t] = v]
             \/ \E loc \in {"search", "fill", "evict", "apply"} :
                    pc' = [pc EXCEPT ![t] = loc] /\ result' = result
      BY <2>3, Zenon
         DEF FindProbes, FindSearches, FindFills, Counts, Inserts, Removes, RemoveEvicts,
                  ScanEnds, ApplyEnds, Yield, GoTo
    <3>2. ASSUME NEW v, pc' = [pc EXCEPT ![t] = "unlock"], result' = [result EXCEPT ![t] = v]
          PROVE  Alone(t) /\ pc'[t] # "done"
      BY <1>1, <3>2, Zenon DEF Alone, Types
    <3>3. ASSUME NEW loc \in {"search", "fill", "evict", "apply"},
                 pc' = [pc EXCEPT ![t] = loc], result' = result
          PROVE  Alone(t) /\ pc'[t] # "done"
      BY <1>1, <3>3, Zenon DEF Alone, Types
    <3> QED
      BY <3>1, <3>2, <3>3
  <2> QED
    BY <2>1, <2>2, <2>3, Zenon
<1>4. Answer' = Answer
  BY <1>3, AnswerStep, Zenon
<1> QED
  BY <1>2, <1>4, Zenon

LEMMA InvokeAtomic ==
  ASSUME Inv, NEW t \in Threads, Invoke(t) PROVE Atomic!Invoke(t)
<1>1. Types /\ Outside(t) /\ pc[t] = "idle"
  BY Whereabouts, Zenon DEF Inv, Invoke
<1>2. Answer' = Answer
  <2>1. pc' = [pc EXCEPT ![t] = "validate"] /\ result' = result
    BY Zenon DEF Invoke, GoTo, local
  <2>2. Alone(t) /\ pc'[t] = "validate"
    BY <1>1, <2>1, Zenon DEF Alone, Types
  <2> QED
    BY <1>1, <2>2, AnswerStep, Zenon
<1> QED
  BY <1>1, <1>2, Zenon DEF Invoke, Atomic!Invoke, Outside

LEMMA ValidateAtomic ==
  ASSUME Inv, NEW t \in Threads, Validate(t)
  PROVE  Atomic!TakeEffect(t) \/ UNCHANGED <<published, call, Answer>>
<1>1. Types /\ Outside(t) /\ pc[t] = "validate" /\ UNCHANGED <<published, call>>
  BY Whereabouts, Zenon DEF Inv, Validate
<1>2. CASE IsValid(call[t])
  <2>1. pc' = [pc EXCEPT ![t] = "lock"] /\ result' = result
    BY <1>2, Zenon DEF Validate, GoTo
  <2>2. Alone(t) /\ pc'[t] = "lock"
    BY <1>1, <2>1, Zenon DEF Alone, Types
  <2> QED
    BY <1>1, <2>2, AnswerStep, Zenon
<1>3. CASE ~IsValid(call[t])
  <2>1. pc' = [pc EXCEPT ![t] = "done"] /\ result' = [result EXCEPT ![t] = Threw]
    BY <1>3, Zenon DEF Validate, GoTo
  <2>2. Alone(t) /\ pc'[t] = "done" /\ result'[t] = Threw
    BY <1>1, <2>1, Zenon DEF Alone, Types
  <2>3. Answer' = [Answer EXCEPT ![t] = Threw]
    BY <2>2, AnswerStep
  <2>4. Result(call[t], published) = Threw /\ Effect(call[t], published) = published
    BY <1>3, Zenon DEF Result, Effect
  <2>5. call[t] # Idle /\ Answer[t] = Pending
    BY <1>1, Zenon DEF Outside, Answer
  <2> QED
    BY <1>1, <2>3, <2>4, <2>5 DEF Atomic!TakeEffect
<1> QED
  BY <1>2, <1>3, Zenon

LEMMA UnlockAtomic ==
  ASSUME Inv, NEW t \in Threads, Unlock(t) PROVE Atomic!TakeEffect(t)
<1>1. /\ Types /\ Exclusive /\ pc[t] = "unlock" /\ pc' = [pc EXCEPT ![t] = "done"]
      /\ result' = result /\ call' = call /\ rows' = rows
  BY Zenon DEF Inv, Unlock, GoTo, local
<1>2. /\ call[t] \in Ops /\ call[t] # Idle /\ result[t] = Result(call[t], published)
      /\ published' = Effect(call[t], published)
  <2>1. CASE Lock!LeaveRead(t) /\ UNCHANGED published
    <3>1. t \in readers /\ Reading(t) /\ writers = {}
      BY <2>1, Whereabouts, Zenon DEF Inv, Located, Lock!LeaveRead
    <3>2. /\ rows = published /\ call[t] \in Ops /\ call[t] # Idle /\ IsValid(call[t])
          /\ call[t].kind \in ReadKinds /\ result[t] = Result(call[t], rows)
      BY <1>1, <3>1, Zenon DEF Exclusive, Reading, Types
    <3>3. Effect(call[t], published) = published
      BY <1>1, <3>2, Effects DEF Types
    <3> QED
      BY <2>1, <3>2, <3>3, Zenon
  <2>2. CASE Lock!LeaveWrite(t) /\ published' = rows
    <3>1. Writing(t)
      BY <2>2, Zenon DEF Inv, Located, Lock!LeaveWrite
    <3> QED
      BY <1>1, <2>2, <3>1, Zenon DEF Writing, Types
  <2> QED
    BY <2>1, <2>2, Zenon DEF Unlock
<1>3. Answer' = [Answer EXCEPT ![t] = Result(call[t], published)]
  <2>1. Alone(t) /\ pc'[t] = "done" /\ result'[t] = Result(call[t], published)
    BY <1>1, <1>2 DEF Alone, Types
  <2> QED
    BY <2>1, AnswerStep, Zenon
<1>4. Answer[t] = Pending
  BY <1>1, Zenon DEF Answer
<1> QED
  BY <1>1, <1>2, <1>3, <1>4, Zenon DEF Atomic!TakeEffect

LEMMA ReturnAtomic ==
  ASSUME Inv, NEW t \in Threads, Return(t) PROVE Atomic!Return(t)
<1>1. Types /\ Outside(t) /\ pc[t] = "done"
  BY Whereabouts, Zenon DEF Inv, Return
<1>2. /\ pc' = [pc EXCEPT ![t] = "idle"] /\ result' = [result EXCEPT ![t] = Pending]
      /\ call' = [call EXCEPT ![t] = Idle] /\ published' = published
  BY Zenon DEF Return, GoTo
<1>3. Alone(t) /\ pc'[t] # "done"
  BY <1>1, <1>2, Zenon DEF Alone, Types
<1>4. Answer' = [Answer EXCEPT ![t] = Pending]
  BY <1>3, AnswerStep, Zenon
<1>5. call[t] # Idle /\ Answer[t] # Pending
  BY <1>1, Zenon DEF Outside, Answer
<1> QED
  BY <1>2, <1>4, <1>5 DEF Atomic!Return

LEMMA NextAtomic == Inv /\ [Next]_vars => [Atomic!TableNext]_(Atomic!tableVars)
<1> SUFFICES ASSUME Inv, [Next]_vars
             PROVE  Atomic!TableNext \/ UNCHANGED <<published, call, Answer>>
  BY Zenon DEF Atomic!tableVars
<1>1. ASSUME NEW t \in Threads, Step(t)
      PROVE  Atomic!TableNext \/ UNCHANGED <<published, call, Answer>>
  <2>1. CASE Invoke(t)
    BY <2>1, InvokeAtomic, Zenon DEF Atomic!TableNext
  <2>2. CASE Validate(t)
    BY <2>2, ValidateAtomic DEF Atomic!TableNext
  <2>3. CASE Unlock(t)
    BY <2>3, UnlockAtomic, Zenon DEF Atomic!TableNext
  <2>4. CASE Return(t)
    BY <2>4, ReturnAtomic, Zenon DEF Atomic!TableNext
  <2> QED
    BY <1>1, <2>1, <2>2, <2>3, <2>4, InnerStep DEF Step
<1>2. CASE UNCHANGED vars
  BY <1>2, Zenon DEF vars, local, Answer
<1> QED
  BY <1>1, <1>2, Zenon DEF Next

-----------------------------------------------------------------------------
(* Where each thread is, what it has collected and what is stale are as Inv *)
(* says, in every reachable state.                                          *)
THEOREM TableInvariant == Spec => []Inv
  BY InitInv, NextInv, PTL DEF Spec

(* No reader is ever served a row that the table no longer has: a cache     *)
(* entry differs from its row only while the writer that changed the row    *)
(* still holds the lock (deleteById and updateWhere erase before they       *)
(* release it).                                                             *)
THEOREM TableCacheCoherent == Spec => []CacheCoherent
<1>1. Inv => CacheCoherent
  BY Zenon DEF Inv, Fresh, CacheCoherent, Cached
<1> QED
  BY <1>1, TableInvariant, PTL

(* Calls on a table are linearizable, for any number of threads: findById   *)
(* through the cache, scans, counts, inserts, deletes and the bulk writes   *)
(* all take effect at one instant between call and return.                  *)
THEOREM TableLinearizable == Spec => Linearizable
<1>1. Spec => []Inv
  BY TableInvariant, Zenon
<1> QED
  BY <1>1, InitAtomic, NextAtomic, PTL DEF Spec, Linearizable, Atomic!TableSpec
=============================================================================
