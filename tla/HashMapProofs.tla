--------------------------- MODULE HashMapProofs ---------------------------
(***************************************************************************)
(* The open-addressing map is a map: for any keys, values, hash function   *)
(* and minimal capacity, each operation keeps IsMap and does to the pairs  *)
(* the map holds what its name says, through tombstones, wrap-around and   *)
(* rehashes.                                                               *)
(***************************************************************************)
EXTENDS HashMap, FiniteSetTheorems, WellFoundedInduction, TLAPS

Slot(K, V) == {EMPTY, DELETED} \cup (K \X V)

Shape(m, K, V) ==
    /\ m \in [slots : Seq(Slot(K, V)), size : Nat, used : Nat]
    /\ Len(m.slots) # 0

Maps(m, k, v) == \E i \in DOMAIN m.slots : m.slots[i] = <<k, v>>

NoTwin(m) == \A i, j \in OccupiedSlots(m) : m.slots[i][1] = m.slots[j][1] => i = j

(* Probing for the key gets to the slot. *)
Reaches(m, k, i) ==
    \E n \in 0..Capacity(m) - 1 :
        /\ Probe(m, k, n) = i
        /\ \A p \in 0..n - 1 : m.slots[Probe(m, k, p)] # EMPTY

Counted(m) ==
    /\ m.size = Cardinality(OccupiedSlots(m))
    /\ m.used = Cardinality(UsedSlots(m))

Placed(m, K, V) ==
    /\ Shape(m, K, V)
    /\ NoTwin(m)
    /\ \A i \in OccupiedSlots(m) : Reaches(m, m.slots[i][1], i)

IsMap(m, K, V) == Placed(m, K, V) /\ Counted(m) /\ m.used < Capacity(m)

Hashes(K) == \A k \in K : Hash(k) \in Nat

-----------------------------------------------------------------------------
LEMMA LeastOf ==
  ASSUME NEW C \in SUBSET Nat, C # {} PROVE \E n \in C : \A m \in C : n <= m
<1> DEFINE R == {ss \in Nat \X Nat : ss[1] < ss[2]}
<1>1. IsWellFoundedOn(R, Nat)
  BY NatLessThanWellFounded, Zenon DEF OpToRel
<1> HIDE DEF R
<1>2. PICK n \in C : \A m \in C : ~(<<m, n>> \in R)
  BY <1>1, WFMin, Zenon
<1>3. \A m \in C : m \in Nat /\ n \in Nat /\ ~(m < n)
  BY <1>2, Zenon DEF R
<1> QED
  BY <1>3

LEMMA FirstIsLeast ==
  ASSUME NEW C \in SUBSET Nat, C # {}
  PROVE  First(C) \in C /\ \A m \in C : First(C) <= m
BY LeastOf, Zenon DEF First

LEMMA SlotKinds ==
  ASSUME NEW K, NEW V, NEW s \in Slot(K, V)
  PROVE  /\ Occupied(s) <=> s \in K \X V
         /\ Occupied(s) => s = <<s[1], s[2]>> /\ s[1] \in K /\ s[2] \in V
         /\ ~Occupied(s) => s = EMPTY \/ s = DELETED
<1>1. ASSUME s \in K \X V PROVE s = <<s[1], s[2]>> /\ s[1] \in K /\ s[2] \in V /\ Len(s) = 2
  BY <1>1
<1>2. Len(EMPTY) # 2 /\ Len(DELETED) # 2
  BY DEF EMPTY, DELETED
<1> QED
  BY <1>1, <1>2, Zenon DEF Slot, Occupied

LEMMA Tuples ==
  /\ EMPTY # DELETED /\ ~Occupied(EMPTY) /\ ~Occupied(DELETED)
  /\ \A k, v : Occupied(<<k, v>>) /\ <<k, v>> # EMPTY /\ <<k, v>> # DELETED
  /\ \A k, v, a, w : <<k, v>> = <<a, w>> => k = a /\ v = w
  /\ \A k, v : <<k, v>>[1] = k /\ <<k, v>>[2] = v
BY DEF EMPTY, DELETED, Occupied

(* What Shape says of the array of slots. *)
LEMMA Array ==
  ASSUME NEW K, NEW V, NEW m, Shape(m, K, V)
  PROVE  /\ Capacity(m) \in Nat \ {0}
         /\ DOMAIN m.slots = 1..Capacity(m)
         /\ \A i \in 1..Capacity(m) : m.slots[i] \in Slot(K, V)
         /\ m.size \in Nat /\ m.used \in Nat
<1> DEFINE S == Slot(K, V)
<1>1. m.slots \in Seq(S) /\ Len(m.slots) # 0 /\ m.size \in Nat /\ m.used \in Nat
  BY Zenon DEF Shape
<1> HIDE DEF S
<1>2. /\ Len(m.slots) \in Nat /\ DOMAIN m.slots = 1..Len(m.slots)
      /\ \A i \in 1..Len(m.slots) : m.slots[i] \in S
  BY <1>1
<1> QED
  BY <1>1, <1>2, Zenon DEF Capacity, S

LEMMA Remainder ==
  ASSUME NEW c \in Nat, NEW q \in Nat, NEW r \in 0..c - 1 PROVE (q * c + r) % c = r
OBVIOUS

LEMMA Probing ==
  ASSUME NEW K, NEW V, NEW m, Shape(m, K, V), NEW k, Hash(k) \in Nat
  PROVE  /\ \A n \in Nat : Probe(m, k, n) \in 1..Capacity(m)
         /\ \A i \in 1..Capacity(m) : \E n \in 0..Capacity(m) - 1 : Probe(m, k, n) = i
<1> DEFINE c == Capacity(m)  h == Hash(k)
<1>1. c \in Nat /\ c > 0 /\ h \in Nat
  BY Array
<1> HIDE DEF c, h
<1>2. ASSUME NEW n \in Nat PROVE 1 + ((h + n) % c) \in 1..c
  <2>1. (h + n) % c \in 0..c - 1
    BY <1>1
  <2> QED
    BY <1>1, <2>1
<1>3. ASSUME NEW i \in 1..c PROVE \E n \in 0..c - 1 : 1 + ((h + n) % c) = i
  <2> DEFINE r == h % c  q == h \div c
  <2>1. r \in 0..c - 1 /\ q \in Nat /\ h = q * c + r
    BY <1>1
  <2> HIDE DEF r, q
  <2>2. CASE i - 1 >= r
    <3> DEFINE n == i - 1 - r
    <3>1. n \in 0..c - 1 /\ h + n = q * c + (i - 1) /\ i - 1 \in 0..c - 1
      BY <1>1, <1>3, <2>1, <2>2
    <3>2. (q * c + (i - 1)) % c = i - 1
      BY <1>1, <2>1, <3>1, Remainder, Zenon
    <3> QED
      BY <3>1, <3>2
  <2>3. CASE i - 1 < r
    <3> DEFINE n == c + i - 1 - r
    <3>1. n \in 0..c - 1 /\ h + n = (q + 1) * c + (i - 1) /\ i - 1 \in 0..c - 1 /\ q + 1 \in Nat
      BY <1>1, <1>3, <2>1, <2>3
    <3>2. ((q + 1) * c + (i - 1)) % c = i - 1
      BY <1>1, <3>1, Remainder, Zenon
    <3> QED
      BY <3>1, <3>2
  <2> QED
    BY <1>3, <2>1, <2>2, <2>3
<1> QED
  BY <1>2, <1>3, Zenon DEF Probe, c, h
-----------------------------------------------------------------------------
(* Where probing stops, if it does. *)
LEMMA Stopping ==
  ASSUME NEW K, NEW V, NEW m, Shape(m, K, V), NEW k, Hash(k) \in Nat,
         Stops(m, k) # {}, NEW last, last = First(Stops(m, k))
  PROVE  /\ last \in 0..Capacity(m) - 1
         /\ Probe(m, k, last) \in 1..Capacity(m)
         /\ m.slots[Probe(m, k, last)] = EMPTY \/ HoldsKey(m, Probe(m, k, last), k)
         /\ \A p \in 0..last - 1 : /\ m.slots[Probe(m, k, p)] # EMPTY
                                   /\ ~HoldsKey(m, Probe(m, k, p), k)
<1>1. Stops(m, k) \subseteq 0..Capacity(m) - 1 /\ Capacity(m) \in Nat
  BY Array, Zenon DEF Stops
<1>2. Stops(m, k) \in SUBSET Nat
  BY <1>1
<1>3. last \in Stops(m, k) /\ \A n \in Stops(m, k) : last <= n
  BY <1>2, FirstIsLeast, Zenon
<1>4. last \in 0..Capacity(m) - 1 /\ last \in Nat
  BY <1>1, <1>3
<1>5. ASSUME NEW p \in 0..last - 1 PROVE p \notin Stops(m, k) /\ p \in 0..Capacity(m) - 1
  BY <1>1, <1>3, <1>4
<1> QED
  BY <1>3, <1>4, <1>5, Probing, Zenon DEF Stops

(* A slot with the key, or an empty one, on the way makes probing stop. *)
LEMMA StopsSomewhere ==
  ASSUME NEW m, NEW k, NEW n \in 0..Capacity(m) - 1,
         m.slots[Probe(m, k, n)] = EMPTY \/ HoldsKey(m, Probe(m, k, n), k)
  PROVE  Stops(m, k) # {}
BY Zenon DEF Stops

LEMMA Holding ==
  ASSUME NEW K, NEW V, NEW m, Shape(m, K, V), NEW i \in 1..Capacity(m), NEW k
  PROVE  /\ HoldsKey(m, i, k) <=> i \in OccupiedSlots(m) /\ m.slots[i][1] = k
         /\ HoldsKey(m, i, k) => m.slots[i] # EMPTY
         /\ HoldsKey(m, i, k) => /\ k \in K /\ m.slots[i][2] \in V
                                 /\ m.slots[i] = <<k, m.slots[i][2]>>
         /\ \A v : m.slots[i] = <<k, v>> => HoldsKey(m, i, k) /\ m.slots[i][2] = v
<1>1. m.slots[i] \in Slot(K, V) /\ DOMAIN m.slots = 1..Capacity(m)
  BY Array, Zenon
<1>2. /\ HoldsKey(m, i, k) <=> i \in OccupiedSlots(m) /\ m.slots[i][1] = k
      /\ HoldsKey(m, i, k) => m.slots[i] # EMPTY
  BY <1>1, Tuples, Zenon DEF HoldsKey, OccupiedSlots
<1>3. ASSUME HoldsKey(m, i, k)
      PROVE  k \in K /\ m.slots[i][2] \in V /\ m.slots[i] = <<k, m.slots[i][2]>>
  BY <1>1, <1>3, SlotKinds, Zenon DEF HoldsKey
<1>4. ASSUME NEW v, m.slots[i] = <<k, v>> PROVE HoldsKey(m, i, k) /\ m.slots[i][2] = v
  BY <1>4, Tuples DEF HoldsKey
<1> QED
  BY <1>2, <1>3, <1>4, Zenon

(* findSlot finds the key wherever it is. *)
LEMMA Finding ==
  ASSUME NEW K, NEW V, NEW m, Placed(m, K, V), NEW k, Hash(k) \in Nat
  PROVE  /\ \A i \in 1..Capacity(m) : HoldsKey(m, i, k) => FindSlot(m, k) = i /\ HasKey(m, k)
         /\ HasKey(m, k) => FindSlot(m, k) \in 1..Capacity(m) /\ HoldsKey(m, FindSlot(m, k), k)
<1>0. Shape(m, K, V) /\ 0 \notin 1..Capacity(m)
  BY DEF Placed
<1>1. ASSUME NEW i \in 1..Capacity(m), HoldsKey(m, i, k)
      PROVE  FindSlot(m, k) = i /\ HasKey(m, k)
  <2>1. i \in OccupiedSlots(m) /\ m.slots[i][1] = k /\ m.slots[i] # EMPTY
    BY <1>0, <1>1, Holding
  <2>2. PICK n \in 0..Capacity(m) - 1 :
             Probe(m, k, n) = i /\ \A p \in 0..n - 1 : m.slots[Probe(m, k, p)] # EMPTY
    BY <2>1, Zenon DEF Placed, Reaches
  <2>3. Stops(m, k) # {}
    BY <1>1, <2>2, StopsSomewhere, Zenon
  <2> DEFINE last == First(Stops(m, k))
  <2>4. /\ last \in 0..Capacity(m) - 1 /\ Probe(m, k, last) \in 1..Capacity(m)
        /\ m.slots[Probe(m, k, last)] = EMPTY \/ HoldsKey(m, Probe(m, k, last), k)
        /\ \A p \in 0..last - 1 : ~HoldsKey(m, Probe(m, k, p), k)
    BY <1>0, <2>3, Stopping, Zenon
  <2>5. n \in Nat /\ last \in Nat /\ ~(n \in 0..last - 1)
    BY <1>1, <2>2, <2>4
  <2>6. last \in 0..n - 1 \/ last = n
    BY <2>5
  <2>7. m.slots[Probe(m, k, last)] # EMPTY
    BY <2>1, <2>2, <2>6, Zenon
  <2>8. Probe(m, k, last) \in OccupiedSlots(m) /\ m.slots[Probe(m, k, last)][1] = k
    BY <1>0, <2>4, <2>7, Holding
  <2>9. Probe(m, k, last) = i
    BY <2>1, <2>8, Zenon DEF Placed, NoTwin
  <2> QED
    BY <1>0, <2>3, <2>7, <2>9, Zenon DEF FindSlot, HasKey
<1>2. ASSUME HasKey(m, k)
      PROVE  FindSlot(m, k) \in 1..Capacity(m) /\ HoldsKey(m, FindSlot(m, k), k)
  <2>1. Stops(m, k) # {} /\ FindSlot(m, k) = Probe(m, k, First(Stops(m, k)))
        /\ m.slots[Probe(m, k, First(Stops(m, k)))] # EMPTY
    BY <1>2, Zenon DEF HasKey, FindSlot
  <2> QED
    BY <1>0, <2>1, Stopping, Zenon
<1> QED
  BY <1>1, <1>2, Zenon

-----------------------------------------------------------------------------
(* A slot is filled, or becomes a tombstone. *)
Fits(m, i, s) ==
    Occupied(s) => /\ \A j \in OccupiedSlots(m) : m.slots[j][1] = s[1] => j = i
                   /\ Reaches(m, s[1], i)

Sets(m, i, s, m2, K, V) ==
    /\ Placed(m2, K, V)
    /\ Capacity(m2) = Capacity(m)
    /\ OccupiedSlots(m2) = IF Occupied(s) THEN OccupiedSlots(m) \cup {i}
                                          ELSE OccupiedSlots(m) \ {i}
    /\ UsedSlots(m2) = UsedSlots(m) \cup {i}
    /\ \A j \in 1..Capacity(m) : m2.slots[j] = IF j = i THEN s ELSE m.slots[j]

LEMMA Change ==
  ASSUME NEW K, NEW V, Hashes(K), NEW m, Placed(m, K, V), NEW i \in 1..Capacity(m),
         NEW s \in Slot(K, V), s # EMPTY, Fits(m, i, s), NEW size \in Nat, NEW used \in Nat
  PROVE  Sets(m, i, s, WithSlot(m, i, s, size, used), K, V)
<1> DEFINE m2 == WithSlot(m, i, s, size, used)
<1>1. /\ Shape(m, K, V) /\ Shape(m2, K, V) /\ Capacity(m2) = Capacity(m)
      /\ m2.size = size /\ m2.used = used
      /\ \A j \in 1..Capacity(m) : m2.slots[j] = IF j = i THEN s ELSE m.slots[j]
      /\ \A k, n : Probe(m2, k, n) = Probe(m, k, n)
  <2> DEFINE S == Slot(K, V)
  <2>1. m.slots \in Seq(S) /\ Len(m.slots) # 0 /\ s \in S /\ i \in 1..Len(m.slots)
    BY Zenon DEF Placed, Shape, Capacity
  <2>2. m2.slots = [m.slots EXCEPT ![i] = s] /\ m2.size = size /\ m2.used = used
    BY Zenon DEF WithSlot
  <2> HIDE DEF S, m2
  <2>3. /\ m2.slots \in Seq(S) /\ Len(m2.slots) = Len(m.slots)
        /\ \A j \in 1..Len(m.slots) : m2.slots[j] = IF j = i THEN s ELSE m.slots[j]
    BY <2>1, <2>2
  <2>4. m2 \in [slots : Seq(S), size : Nat, used : Nat]
    BY <2>2, <2>3, Zenon DEF WithSlot, m2
  <2> QED
    BY <2>1, <2>2, <2>3, <2>4, Zenon DEF Placed, Shape, Capacity, Probe, S
<1> HIDE DEF m2
<1>2. DOMAIN m.slots = 1..Capacity(m) /\ DOMAIN m2.slots = 1..Capacity(m)
  BY <1>1, Array, Zenon
<1>3. OccupiedSlots(m2) = IF Occupied(s) THEN OccupiedSlots(m) \cup {i}
                                         ELSE OccupiedSlots(m) \ {i}
  <2>1. \A j \in 1..Capacity(m) :
            Occupied(m2.slots[j]) <=> IF j = i THEN Occupied(s) ELSE Occupied(m.slots[j])
    BY <1>1, Zenon
  <2> QED
    BY <1>2, <2>1, Zenon DEF OccupiedSlots
<1>4. UsedSlots(m2) = UsedSlots(m) \cup {i}
  BY <1>1, <1>2, Zenon DEF UsedSlots
<1>5. NoTwin(m2)
  <2> SUFFICES ASSUME NEW a \in OccupiedSlots(m2), NEW b \in OccupiedSlots(m2),
                      m2.slots[a][1] = m2.slots[b][1]
               PROVE  a = b
    BY Zenon DEF NoTwin
  <2>1. /\ a \in 1..Capacity(m) /\ b \in 1..Capacity(m)
        /\ a # i => a \in OccupiedSlots(m) /\ m2.slots[a] = m.slots[a]
        /\ b # i => b \in OccupiedSlots(m) /\ m2.slots[b] = m.slots[b]
        /\ a = i \/ b = i => Occupied(s) /\ m2.slots[i] = s
    BY <1>1, <1>2, <1>3, Zenon DEF OccupiedSlots
  <2> QED
    BY <2>1, Zenon DEF Placed, NoTwin, Fits
<1>6. ASSUME NEW k \in K, NEW j, Reaches(m, k, j) PROVE Reaches(m2, k, j)
  <2>1. PICK n \in 0..Capacity(m) - 1 :
             Probe(m, k, n) = j /\ \A p \in 0..n - 1 : m.slots[Probe(m, k, p)] # EMPTY
    BY <1>6, Zenon DEF Reaches
  <2>2. ASSUME NEW p \in 0..n - 1 PROVE m2.slots[Probe(m, k, p)] # EMPTY
    <3>1. p \in Nat /\ Hash(k) \in Nat
      BY <2>1, <2>2 DEF Hashes
    <3>2. Probe(m, k, p) \in 1..Capacity(m)
      BY <1>1, <3>1, Probing, Zenon
    <3> QED
      BY <1>1, <2>1, <3>2, Zenon
  <2> QED
    BY <1>1, <2>1, <2>2, Zenon DEF Reaches
<1>7. ASSUME NEW j \in OccupiedSlots(m2) PROVE Reaches(m2, m2.slots[j][1], j)
  <2>1. /\ j \in 1..Capacity(m)
        /\ j # i => j \in OccupiedSlots(m) /\ m2.slots[j] = m.slots[j]
        /\ j = i => Occupied(s) /\ m2.slots[j] = s
    BY <1>1, <1>2, <1>3, Zenon DEF OccupiedSlots
  <2>2. m2.slots[j] \in Slot(K, V) /\ Occupied(m2.slots[j])
    BY <1>1, <2>1, Array, Zenon DEF OccupiedSlots
  <2>3. m2.slots[j][1] \in K
    BY <2>2, SlotKinds, Zenon
  <2> QED
    BY <1>6, <2>1, <2>3, Zenon DEF Placed, Fits
<1> QED
  BY <1>1, <1>3, <1>4, <1>5, <1>7, Zenon DEF Placed, Sets, m2
-----------------------------------------------------------------------------
LEMMA FiniteSlots ==
  ASSUME NEW K, NEW V, NEW m, Shape(m, K, V)
  PROVE  /\ IsFiniteSet(OccupiedSlots(m)) /\ IsFiniteSet(UsedSlots(m))
         /\ OccupiedSlots(m) \subseteq 1..Capacity(m) /\ UsedSlots(m) \subseteq 1..Capacity(m)
         /\ Cardinality(OccupiedSlots(m)) \in Nat /\ Cardinality(UsedSlots(m)) \in Nat
         /\ Cardinality(OccupiedSlots(m)) <= Cardinality(UsedSlots(m))
<1>1. Capacity(m) \in Nat /\ DOMAIN m.slots = 1..Capacity(m)
  BY Array, Zenon
<1>2. OccupiedSlots(m) \subseteq 1..Capacity(m) /\ UsedSlots(m) \subseteq 1..Capacity(m)
  BY <1>1, Zenon DEF OccupiedSlots, UsedSlots
<1>3. OccupiedSlots(m) \subseteq UsedSlots(m)
  BY Tuples, Zenon DEF OccupiedSlots, UsedSlots
<1>4. 1 \in Int /\ Capacity(m) \in Int
  BY <1>1
<1>5. IsFiniteSet(1..Capacity(m))
  BY <1>4, FS_Interval, Zenon
<1>6. IsFiniteSet(OccupiedSlots(m)) /\ IsFiniteSet(UsedSlots(m))
  BY <1>2, <1>5, FS_Subset, Zenon
<1> QED
  BY <1>2, <1>3, <1>6, FS_Subset, FS_CardinalityType, Zenon

(* As long as not all slots are used, probing for any key meets an empty    *)
(* one: the loops of findSlot and place end.                                *)
THEOREM EmptySlotAhead ==
  ASSUME NEW K, NEW V, NEW m, Shape(m, K, V), Cardinality(UsedSlots(m)) < Capacity(m),
         NEW k, Hash(k) \in Nat
  PROVE  \E n \in 0..Capacity(m) - 1 : m.slots[Probe(m, k, n)] = EMPTY
<1>1. Capacity(m) \in Nat \ {0} /\ DOMAIN m.slots = 1..Capacity(m)
  BY Array, Zenon
<1>2. 1 \in Int /\ Capacity(m) \in Int /\ ~(1 > Capacity(m)) /\ Capacity(m) - 1 + 1 = Capacity(m)
  BY <1>1
<1>3. Cardinality(1..Capacity(m)) = Capacity(m)
  BY <1>2, FS_Interval, Zenon
<1>4. Cardinality(UsedSlots(m)) # Cardinality(1..Capacity(m))
  BY <1>1, <1>3
<1>5. UsedSlots(m) # 1..Capacity(m)
  BY <1>4, Zenon
<1>6. PICK i \in 1..Capacity(m) : m.slots[i] = EMPTY
  BY <1>1, <1>5, Zenon DEF UsedSlots
<1>7. \E n \in 0..Capacity(m) - 1 : Probe(m, k, n) = i
  BY <1>6, Probing
<1> QED
  BY <1>6, <1>7, Zenon

(* find: a key is found if and only if some slot holds it, wherever         *)
(* collisions have moved it, and what is found is what the slot holds.      *)
THEOREM Lookups ==
  ASSUME NEW K, NEW V, NEW m, Placed(m, K, V), NEW k, Hash(k) \in Nat
  PROVE  /\ HasKey(m, k) => /\ k \in K /\ ValueOf(m, k) \in V
                            /\ Maps(m, k, ValueOf(m, k))
                            /\ FindSlot(m, k) \in OccupiedSlots(m)
                            /\ m.slots[FindSlot(m, k)] = <<k, ValueOf(m, k)>>
         /\ \A v : Maps(m, k, v) => HasKey(m, k) /\ v = ValueOf(m, k)
<1>1. Shape(m, K, V) /\ DOMAIN m.slots = 1..Capacity(m)
  BY Array, Zenon DEF Placed
<1>2. ASSUME HasKey(m, k)
      PROVE  /\ k \in K /\ ValueOf(m, k) \in V
             /\ Maps(m, k, ValueOf(m, k))
             /\ FindSlot(m, k) \in OccupiedSlots(m)
             /\ m.slots[FindSlot(m, k)] = <<k, ValueOf(m, k)>>
  <2>1. FindSlot(m, k) \in 1..Capacity(m) /\ HoldsKey(m, FindSlot(m, k), k)
    BY <1>2, Finding, Zenon
  <2>2. /\ k \in K /\ m.slots[FindSlot(m, k)][2] \in V /\ FindSlot(m, k) \in OccupiedSlots(m)
        /\ m.slots[FindSlot(m, k)] = <<k, m.slots[FindSlot(m, k)][2]>>
    BY <1>1, <2>1, Holding
  <2> QED
    BY <1>1, <2>1, <2>2, Zenon DEF ValueOf, Maps
<1>3. ASSUME NEW v, Maps(m, k, v) PROVE HasKey(m, k) /\ v = ValueOf(m, k)
  <2>1. PICK i \in 1..Capacity(m) : m.slots[i] = <<k, v>>
    BY <1>1, <1>3, Zenon DEF Maps
  <2>2. HoldsKey(m, i, k) /\ m.slots[i][2] = v
    BY <1>1, <2>1, Holding
  <2>3. FindSlot(m, k) = i /\ HasKey(m, k)
    BY <2>2, Finding, Zenon
  <2> QED
    BY <2>2, <2>3, Zenon DEF ValueOf
<1> QED
  BY <1>2, <1>3, Zenon

Loses(m, k, m2, K, V) ==
    /\ IsMap(m2, K, V) /\ Capacity(m2) = Capacity(m) /\ m2.used = m.used
    /\ m2.size = IF HasKey(m, k) THEN m.size - 1 ELSE m.size
    /\ \A a, v : Maps(m2, a, v) <=> Maps(m, a, v) /\ a # k

(* erase: the pairs of this key are gone and no other is, and the tombstone *)
(* leaves every other key within reach of its probes.                       *)
THEOREM Erasing ==
  ASSUME NEW K, NEW V, Hashes(K), NEW m, IsMap(m, K, V), NEW k \in K
  PROVE  Loses(m, k, Erase(m, k), K, V)
<1> DEFINE m2 == Erase(m, k)
<1> SUFFICES Loses(m, k, m2, K, V)
  OBVIOUS
<1>0. Placed(m, K, V) /\ Shape(m, K, V) /\ Hash(k) \in Nat
  BY Zenon DEF IsMap, Placed, Hashes
<1>1. CASE ~HasKey(m, k)
  <2>1. m2 = m
    BY <1>1, Zenon DEF Erase
  <2>2. \A v : ~Maps(m, k, v)
    BY <1>0, <1>1, Lookups, Zenon
  <2> QED
    BY <1>1, <2>1, <2>2, Zenon DEF Loses
<1>2. CASE HasKey(m, k)
  <2> DEFINE i == FindSlot(m, k)
  <2>1. /\ i \in OccupiedSlots(m) /\ m.slots[i] = <<k, ValueOf(m, k)>>
        /\ i \in UsedSlots(m) /\ i \in 1..Capacity(m) /\ m.slots[i][1] = k
    BY <1>0, <1>2, Lookups, Finding, Tuples DEF OccupiedSlots, UsedSlots
  <2>2. m2 = WithSlot(m, i, DELETED, m.size - 1, m.used)
    BY <1>2, Zenon DEF Erase
  <2> HIDE DEF i, m2
  <2>3. /\ m.size = Cardinality(OccupiedSlots(m)) /\ m.used = Cardinality(UsedSlots(m))
        /\ m.used < Capacity(m) /\ IsFiniteSet(OccupiedSlots(m)) /\ m.size \in Nat /\ m.used \in Nat
    BY <1>0, FiniteSlots, Array, Zenon DEF IsMap, Counted
  <2>4. Cardinality(OccupiedSlots(m) \ {i}) = m.size - 1
    BY <2>1, <2>3, FS_RemoveElement, Zenon
  <2>5. m.size - 1 \in Nat
    <3>1. IsFiniteSet(OccupiedSlots(m) \ {i})
      BY <2>3, FS_RemoveElement, Zenon
    <3> QED
      BY <2>4, <3>1, FS_CardinalityType, Zenon
  <2>6. DELETED \in Slot(K, V) /\ DELETED # EMPTY /\ ~Occupied(DELETED)
    BY Tuples, Zenon DEF Slot
  <2>7. /\ Sets(m, i, DELETED, m2, K, V) /\ m2.size = m.size - 1 /\ m2.used = m.used
    <3>1. Fits(m, i, DELETED)
      BY <2>6, Zenon DEF Fits
    <3>2. Sets(m, i, DELETED, WithSlot(m, i, DELETED, m.size - 1, m.used), K, V)
      BY <1>0, <2>1, <2>3, <2>5, <2>6, <3>1, Change, Zenon
    <3> QED
      BY <2>2, <3>2, Zenon DEF WithSlot
  <2>8. UsedSlots(m2) = UsedSlots(m)
    BY <2>1, <2>7, Zenon DEF Sets
  <2>9. IsMap(m2, K, V)
    BY <2>3, <2>4, <2>6, <2>7, <2>8, Zenon DEF IsMap, Counted, Sets
  <2>10. ASSUME NEW a, NEW v PROVE Maps(m2, a, v) <=> Maps(m, a, v) /\ a # k
    <3>1. DOMAIN m.slots = 1..Capacity(m) /\ DOMAIN m2.slots = 1..Capacity(m)
      BY <1>0, <2>7, Array, Zenon DEF Placed, Sets
    <3>3. <<a, v>> # DELETED
      BY Tuples, Zenon
    <3>2. \A j \in 1..Capacity(m) : m.slots[j] = <<a, v>> => (a = k <=> j = i)
      BY <1>0, <2>1, Holding DEF Placed, NoTwin
    <3> QED
      BY <2>7, <3>1, <3>2, <3>3, Zenon DEF Maps, Sets
  <2> QED
    BY <1>2, <2>7, <2>9, <2>10, Zenon DEF Sets, Loses
<1> QED
  BY <1>1, <1>2, Zenon

(* place() of a key that is not there: in the first tombstone on the way,   *)
(* or in the empty slot at its end.                                         *)
NoGraves(m) == \A i \in DOMAIN m.slots : m.slots[i] # DELETED

LEMMA PlaceIsSlot ==
  ASSUME NEW K, NEW V, Hashes(K), NEW m, IsMap(m, K, V), NEW k \in K, NEW v \in V, NEW b,
         ~HasKey(m, k)
  PROVE  \E t \in 1..Capacity(m) :
            /\ Place(m, k, v, b) = WithSlot(m, t, <<k, v>>, m.size + 1, UsedAfter(m, t))
            /\ m.slots[t] = EMPTY \/ m.slots[t] = DELETED
            /\ NoGraves(m) => m.slots[t] = EMPTY
            /\ Reaches(m, k, t)
<1>0. Placed(m, K, V) /\ Shape(m, K, V) /\ Hash(k) \in Nat /\ Cardinality(UsedSlots(m)) < Capacity(m)
  BY Zenon DEF IsMap, Placed, Hashes, Counted
<1>1. Stops(m, k) # {}
  BY <1>0, EmptySlotAhead, StopsSomewhere, Zenon
<1> DEFINE last == First(Stops(m, k))
           i == Probe(m, k, last)
           graves == {n \in 0..last : m.slots[Probe(m, k, n)] = DELETED}
           g == IF graves = {} THEN last ELSE First(graves)
           t == Probe(m, k, g)
<1>2. /\ last \in 0..Capacity(m) - 1 /\ i \in 1..Capacity(m)
      /\ m.slots[i] = EMPTY \/ HoldsKey(m, i, k)
      /\ \A p \in 0..last - 1 : m.slots[Probe(m, k, p)] # EMPTY
  <2>1. last = First(Stops(m, k))
    OBVIOUS
  <2> HIDE DEF last
  <2> QED
    BY <1>0, <1>1, <2>1, Stopping, Zenon
<1>3. ~HoldsKey(m, i, k) /\ m.slots[i] = EMPTY
  BY <1>0, <1>2, Finding, Zenon
<1>4. Place(m, k, v, b) = WithSlot(m, t, <<k, v>>, m.size + 1, UsedAfter(m, t))
  BY <1>3, Zenon DEF Place
<1> HIDE DEF last
<1>5. g \in 0..last /\ (graves # {} => g \in graves)
  <2>1. graves \in SUBSET Nat /\ last \in 0..last
    BY <1>2
  <2>2. CASE graves # {}
    BY <2>1, <2>2, FirstIsLeast, Zenon
  <2> QED
    BY <2>1, <2>2, Zenon
<1>6. m.slots[t] = IF graves = {} THEN EMPTY ELSE DELETED
  BY <1>3, <1>5, Zenon
<1>7. g \in Nat /\ g \in 0..Capacity(m) - 1 /\ \A p \in 0..g - 1 : p \in 0..last - 1
  <2> HIDE DEF g
  <2>1. Capacity(m) \in Nat
    BY <1>0, Array, Zenon
  <2> QED
    BY <1>2, <1>5, <2>1
<1>8. t \in 1..Capacity(m)
  BY <1>0, <1>7, Probing, Zenon
<1>9. Reaches(m, k, t)
  BY <1>2, <1>7, Zenon DEF Reaches
<1>10. NoGraves(m) => m.slots[t] = EMPTY
  BY <1>0, <1>6, <1>8, Array, Zenon DEF NoGraves
<1> QED
  BY <1>4, <1>6, <1>8, <1>9, <1>10, Zenon
Adds(m, k, v, m2, K, V) ==
    /\ Placed(m2, K, V) /\ Counted(m2) /\ Capacity(m2) = Capacity(m)
    /\ m2.size = m.size + 1 /\ m2.used \in {m.used, m.used + 1}
    /\ NoGraves(m) => NoGraves(m2) /\ m2.used = m.used + 1
    /\ \A a, w : Maps(m2, a, w) <=> Maps(m, a, w) \/ (a = k /\ w = v)

LEMMA PlacingNew ==
  ASSUME NEW K, NEW V, Hashes(K), NEW m, IsMap(m, K, V), NEW k \in K, NEW v \in V, NEW b,
         ~HasKey(m, k)
  PROVE  Adds(m, k, v, Place(m, k, v, b), K, V)
<1>0. Placed(m, K, V) /\ Shape(m, K, V) /\ Hash(k) \in Nat
  BY Zenon DEF IsMap, Placed, Hashes
<1>1. PICK t \in 1..Capacity(m) :
            /\ Place(m, k, v, b) = WithSlot(m, t, <<k, v>>, m.size + 1, UsedAfter(m, t))
            /\ m.slots[t] = EMPTY \/ m.slots[t] = DELETED
            /\ NoGraves(m) => m.slots[t] = EMPTY
            /\ Reaches(m, k, t)
  BY PlaceIsSlot, Zenon
<1> DEFINE s == <<k, v>>
           m2 == WithSlot(m, t, s, m.size + 1, UsedAfter(m, t))
<1>2. /\ m.size = Cardinality(OccupiedSlots(m)) /\ m.used = Cardinality(UsedSlots(m))
      /\ IsFiniteSet(OccupiedSlots(m)) /\ IsFiniteSet(UsedSlots(m))
      /\ m.size \in Nat /\ m.used \in Nat
  BY <1>0, FiniteSlots, Array, Zenon DEF IsMap, Counted
<1>3. s \in Slot(K, V) /\ s # EMPTY /\ s # DELETED /\ Occupied(s) /\ s[1] = k
  BY Tuples, Zenon DEF Slot
<1>4. m.size + 1 \in Nat /\ UsedAfter(m, t) \in {m.used, m.used + 1} /\ UsedAfter(m, t) \in Nat
  BY <1>2 DEF UsedAfter
<1>5. m2.size = m.size + 1 /\ m2.used = UsedAfter(m, t)
  BY Zenon DEF WithSlot
<1>6. DOMAIN m.slots = 1..Capacity(m) /\ t \notin OccupiedSlots(m)
  BY <1>0, <1>1, Array, Tuples, Zenon DEF OccupiedSlots
<1>7. \A j \in OccupiedSlots(m) : m.slots[j][1] # k
  BY <1>0, <1>6, Finding, Zenon DEF HoldsKey, OccupiedSlots
<1>8. Fits(m, t, s)
  BY <1>1, <1>3, <1>7, Zenon DEF Fits
<1> HIDE DEF s
<1>9. Sets(m, t, s, m2, K, V)
  BY <1>0, <1>3, <1>4, <1>8, Change, Zenon
<1> HIDE DEF m2
<1>10. Counted(m2)
  <2>1. Cardinality(OccupiedSlots(m) \cup {t}) = m.size + 1
    BY <1>2, <1>6, FS_AddElement, Zenon
  <2>2. Cardinality(UsedSlots(m) \cup {t}) = IF t \in UsedSlots(m) THEN m.used ELSE m.used + 1
    BY <1>2, FS_AddElement, Zenon
  <2>3. t \in UsedSlots(m) <=> m.slots[t] # EMPTY
    BY <1>6, Zenon DEF UsedSlots
  <2> QED
    BY <1>3, <1>5, <1>9, <2>1, <2>2, <2>3, Zenon DEF Counted, Sets, UsedAfter
<1>11. DOMAIN m2.slots = 1..Capacity(m)
  BY <1>9, Array, Zenon DEF Sets, Placed
<1>12. NoGraves(m) => NoGraves(m2) /\ m2.used = m.used + 1
  <2>1. NoGraves(m) => NoGraves(m2)
    BY <1>3, <1>6, <1>9, <1>11, Zenon DEF Sets, NoGraves
  <2> QED
    BY <1>1, <1>5, <2>1, Zenon DEF UsedAfter
<1>13. ASSUME NEW a, NEW w PROVE Maps(m2, a, w) <=> Maps(m, a, w) \/ (a = k /\ w = v)
  <2>1. <<a, w>> = s <=> a = k /\ w = v
    BY Zenon DEF s
  <2>2. m.slots[t] # <<a, w>>
    BY <1>1, Tuples, Zenon
  <2> QED
    BY <1>6, <1>9, <1>11, <2>1, <2>2, Zenon DEF Maps, Sets
<1>14. Adds(m, k, v, m2, K, V)
  BY <1>4, <1>5, <1>9, <1>10, <1>12, <1>13, Zenon DEF Adds, Sets
<1> QED
  BY <1>1, <1>14, Zenon DEF m2, s

(* place() of a key that is there. *)
LEMMA PlaceKeepsOld ==
  ASSUME NEW K, NEW V, Hashes(K), NEW m, IsMap(m, K, V), NEW k \in K, NEW v, HasKey(m, k)
  PROVE  /\ Place(m, k, v, FALSE) = m
         /\ Place(m, k, v, TRUE) = WithSlot(m, FindSlot(m, k), <<k, v>>, m.size, m.used)
<1>0. Placed(m, K, V) /\ Hash(k) \in Nat
  BY Zenon DEF IsMap, Hashes
<1>2. HoldsKey(m, FindSlot(m, k), k) /\ FindSlot(m, k) = Probe(m, k, First(Stops(m, k)))
  BY <1>0, Finding, Zenon DEF HasKey, FindSlot
<1> QED
  BY <1>2, Zenon DEF Place

Assigns(m, k, v, r, K, V) ==
    /\ IsMap(r, K, V) /\ r.size = m.size
    /\ \A a, w : Maps(r, a, w) <=> IF a = k THEN w = v ELSE Maps(m, a, w)

LEMMA PlacingOld ==
  ASSUME NEW K, NEW V, Hashes(K), NEW m, IsMap(m, K, V), NEW k \in K, NEW v \in V,
         HasKey(m, k)
  PROVE  Assigns(m, k, v, Place(m, k, v, TRUE), K, V)
<1>0. Placed(m, K, V) /\ Shape(m, K, V) /\ Hash(k) \in Nat
  BY Zenon DEF IsMap, Placed, Hashes
<1> DEFINE i == FindSlot(m, k)
           s == <<k, v>>
           m2 == Place(m, k, v, TRUE)
<1>1. /\ i \in OccupiedSlots(m) /\ m.slots[i] = <<k, ValueOf(m, k)>>
      /\ i \in UsedSlots(m) /\ i \in 1..Capacity(m) /\ m.slots[i][1] = k
  BY <1>0, Lookups, Finding, Tuples DEF OccupiedSlots, UsedSlots
<1>3. m2 = WithSlot(m, i, s, m.size, m.used)
  BY PlaceKeepsOld, Zenon
<1> HIDE DEF i, m2
<1>4. s \in Slot(K, V) /\ s # EMPTY /\ Occupied(s) /\ s[1] = k
  BY Tuples, Zenon DEF Slot
<1>5. m.size \in Nat /\ m.used \in Nat /\ DOMAIN m.slots = 1..Capacity(m)
  BY <1>0, Array, Zenon
<1>6. Fits(m, i, s)
  BY <1>0, <1>1, <1>4, Zenon DEF Fits, Placed, NoTwin
<1> HIDE DEF s
<1>7. Sets(m, i, s, m2, K, V)
  BY <1>0, <1>1, <1>3, <1>4, <1>5, <1>6, Change, Zenon
<1>8. m2.size = m.size /\ m2.used = m.used
  BY <1>3, Zenon DEF WithSlot
<1>9. OccupiedSlots(m2) = OccupiedSlots(m) /\ UsedSlots(m2) = UsedSlots(m)
  BY <1>1, <1>4, <1>7, Zenon DEF Sets
<1>10. IsMap(m2, K, V)
  BY <1>7, <1>8, <1>9, Zenon DEF IsMap, Counted, Sets
<1>11. DOMAIN m2.slots = 1..Capacity(m)
  BY <1>7, Array, Zenon DEF Sets, Placed
<1>12. ASSUME NEW a, NEW w
       PROVE  Maps(m2, a, w) <=> IF a = k THEN w = v ELSE Maps(m, a, w)
  <2>1. <<a, w>> = s <=> a = k /\ w = v
    BY Zenon DEF s
  <2>2. \A j \in 1..Capacity(m) : m.slots[j] = <<a, w>> => (a = k <=> j = i)
    BY <1>0, <1>1, Holding DEF Placed, NoTwin
  <2> QED
    BY <1>1, <1>5, <1>7, <1>11, <2>1, <2>2, Zenon DEF Maps, Sets
<1> QED
  BY <1>8, <1>10, <1>12, Zenon DEF Assigns, m2
-----------------------------------------------------------------------------
LEMMA Blanks ==
  ASSUME NEW K, NEW V, NEW cap \in Nat \ {0}
  PROVE  /\ IsMap(Blank(cap), K, V) /\ Capacity(Blank(cap)) = cap /\ NoGraves(Blank(cap))
         /\ Blank(cap).size = 0 /\ Blank(cap).used = 0
         /\ \A a, w : ~Maps(Blank(cap), a, w)
<1> DEFINE m == Blank(cap)
           S == Slot(K, V)
<1>1. EMPTY \in S
  BY Zenon DEF Slot
<1> HIDE DEF S
<1>2. [i \in 1..cap |-> EMPTY] \in Seq(S) /\ Len([i \in 1..cap |-> EMPTY]) = cap
  BY <1>1
<1>3. /\ m.slots = [i \in 1..cap |-> EMPTY] \o <<>> /\ m.size = 0 /\ m.used = 0
      /\ m = [slots |-> m.slots, size |-> 0, used |-> 0]
  BY Zenon DEF Blank
<1>4. m.slots \in Seq(S) /\ Len(m.slots) = cap /\ \A i \in 1..cap : m.slots[i] = EMPTY
  BY <1>1, <1>2, <1>3
<1> HIDE DEF m
<1>5. Shape(m, K, V) /\ Capacity(m) = cap
  <2>1. m \in [slots : Seq(S), size : Nat, used : Nat]
    BY <1>3, <1>4
  <2> QED
    BY <1>4, <2>1, Zenon DEF Shape, Capacity, S
<1>6. DOMAIN m.slots = 1..cap
  BY <1>5, Array, Zenon
<1>7. OccupiedSlots(m) = {} /\ UsedSlots(m) = {}
  <2>1. ~Occupied(EMPTY)
    BY Tuples, Zenon
  <2> QED
    BY <1>4, <1>6, <2>1, Zenon DEF OccupiedSlots, UsedSlots
<1>8. Placed(m, K, V) /\ Counted(m)
  BY <1>3, <1>5, <1>7, FS_EmptySet, Zenon DEF Placed, NoTwin, Counted
<1>9. IsMap(m, K, V)
  BY <1>3, <1>5, <1>8 DEF IsMap
<1>10. NoGraves(m) /\ \A a, w : ~Maps(m, a, w)
  BY <1>4, <1>6, Tuples, Zenon DEF NoGraves, Maps
<1> QED
  BY <1>3, <1>5, <1>9, <1>10, Zenon DEF m

(* The recursion of rehash is well defined. *)
IsRun(f, n, m, cap) ==
    f = [i \in 0..n |-> IF i = 0 THEN Blank(cap) ELSE MoveSlot(m.slots[i], f[i - 1])]

LEMMA RunExists ==
  ASSUME NEW m, NEW cap, NEW n \in Nat PROVE \E f : IsRun(f, n, m, cap)
<1> DEFINE Bad == {x \in Nat : ~\E f : IsRun(f, x, m, cap)}
<1> SUFFICES ASSUME Bad # {} PROVE FALSE
  BY Zenon
<1>1. PICK b \in Bad : \A x \in Bad : b <= x
  BY LeastOf, Zenon
<1>2. b # 0
  <2> DEFINE f == [i \in 0..0 |-> Blank(cap)]
  <2>1. IsRun(f, 0, m, cap)
    BY DEF IsRun
  <2> QED
    BY <1>1, <2>1, Zenon
<1>3. b \in Nat /\ b - 1 \in Nat /\ b - 1 \notin Bad /\ b - 1 \in 0..b - 1
  BY <1>1, <1>2
<1>4. PICK g : IsRun(g, b - 1, m, cap)
  BY <1>3, Zenon
<1> DEFINE f == [i \in 0..b |-> IF i = b THEN MoveSlot(m.slots[b], g[b - 1]) ELSE g[i]]
<1>5. ASSUME NEW i \in 0..b
      PROVE  f[i] = IF i = 0 THEN Blank(cap) ELSE MoveSlot(m.slots[i], f[i - 1])
  <2>1. CASE i = b
    <3>1. b - 1 \in 0..b /\ b - 1 # b
      BY <1>3
    <3> QED
      BY <1>2, <2>1, <3>1, Zenon
  <2>2. CASE i # b
    <3>1. i \in 0..b - 1 /\ (i # 0 => i - 1 \in 0..b /\ i - 1 # b)
      BY <1>3, <1>5, <2>2
    <3>2. g[i] = IF i = 0 THEN Blank(cap) ELSE MoveSlot(m.slots[i], g[i - 1])
      BY <1>4, <3>1, Zenon DEF IsRun
    <3> QED
      BY <2>2, <3>1, <3>2, Zenon
  <2> QED
    BY <2>1, <2>2, Zenon
<1>6. f = [i \in 0..b |-> f[i]]
  OBVIOUS
<1> HIDE DEF f
<1>7. IsRun(f, b, m, cap)
  BY <1>5, <1>6, Zenon DEF IsRun
<1> QED
  BY <1>1, <1>7, Zenon

LEMMA MovedRuns ==
  ASSUME NEW m, NEW cap, Capacity(m) \in Nat PROVE IsRun(Moved(m, cap), Capacity(m), m, cap)
<1>1. PICK f : IsRun(f, Capacity(m), m, cap)
  BY RunExists, Zenon
<1> QED
  BY <1>1, Zenon DEF Moved, IsRun

(* What has been moved after n slots. *)
Upto(m, n) == {i \in OccupiedSlots(m) : i <= n}

MovedUpto(r, m, n, cap, K, V) ==
    /\ IsMap(r, K, V) /\ Capacity(r) = cap /\ NoGraves(r)
    /\ r.size = Cardinality(Upto(m, n)) /\ r.used = r.size
    /\ \A a, w : Maps(r, a, w) <=> \E i \in Upto(m, n) : m.slots[i] = <<a, w>>

LEMMA MoveSlotStep ==
  ASSUME NEW K, NEW V, Hashes(K), NEW m, IsMap(m, K, V), NEW cap \in Nat, m.size < cap,
         NEW n \in 1..Capacity(m), NEW r, MovedUpto(r, m, n - 1, cap, K, V)
  PROVE  MovedUpto(MoveSlot(m.slots[n], r), m, n, cap, K, V)
<1>0. /\ Shape(m, K, V) /\ NoTwin(m) /\ IsMap(r, K, V) /\ Placed(r, K, V)
      /\ m.size = Cardinality(OccupiedSlots(m)) /\ IsFiniteSet(OccupiedSlots(m))
  BY FiniteSlots, Zenon DEF IsMap, Placed, Counted, MovedUpto
<1>1. DOMAIN m.slots = 1..Capacity(m) /\ Capacity(m) \in Nat /\ OccupiedSlots(m) \subseteq 1..Capacity(m)
  BY <1>0, Array, FiniteSlots, Zenon
<1>2. CASE ~Occupied(m.slots[n])
  <2>1. n \notin OccupiedSlots(m)
    BY <1>2, Zenon DEF OccupiedSlots
  <2>2. Upto(m, n) = Upto(m, n - 1)
    BY <1>1, <2>1 DEF Upto
  <2> QED
    BY <1>2, <2>2, Zenon DEF MoveSlot, MovedUpto
<1>3. CASE Occupied(m.slots[n])
  <2> DEFINE k == m.slots[n][1]
             v == m.slots[n][2]
             r2 == Place(r, k, v, FALSE)
  <2>1. m.slots[n] \in Slot(K, V) /\ n \in OccupiedSlots(m)
    BY <1>0, <1>1, <1>3, Array, Zenon DEF OccupiedSlots
  <2>2. k \in K /\ v \in V /\ m.slots[n] = <<k, v>>
    BY <1>3, <2>1, SlotKinds, Zenon
  <2>3. Upto(m, n) = Upto(m, n - 1) \cup {n} /\ n \notin Upto(m, n - 1)
    BY <1>1, <2>1 DEF Upto
  <2>4. MoveSlot(m.slots[n], r) = r2
    BY <1>3, Zenon DEF MoveSlot
  <2> HIDE DEF k, v
  <2>5. Hash(k) \in Nat
    BY <2>2, Zenon DEF Hashes
  <2>6. ~HasKey(r, k)
    <3> SUFFICES ASSUME HasKey(r, k) PROVE FALSE
      OBVIOUS
    <3>1. Maps(r, k, ValueOf(r, k))
      BY <1>0, <2>5, Lookups, Zenon
    <3>2. PICK i \in Upto(m, n - 1) : m.slots[i] = <<k, ValueOf(r, k)>>
      BY <3>1, Zenon DEF MovedUpto
    <3>3. m.slots[i][1] = k /\ m.slots[n][1] = k /\ i \in OccupiedSlots(m)
      BY <2>2, <3>2 DEF Upto
    <3>4. i = n
      BY <1>0, <2>1, <3>3, Zenon DEF NoTwin
    <3> QED
      BY <2>3, <3>2, <3>4, Zenon
  <2>7. Adds(r, k, v, r2, K, V)
    BY <1>0, <2>2, <2>6, PlacingNew, Zenon
  <2> HIDE DEF r2
  <2>8. IsFiniteSet(Upto(m, n - 1)) /\ Upto(m, n) \subseteq OccupiedSlots(m)
    <3>1. Upto(m, n - 1) \subseteq OccupiedSlots(m) /\ Upto(m, n) \subseteq OccupiedSlots(m)
      BY Zenon DEF Upto
    <3> QED
      BY <1>0, <3>1, FS_Subset, Zenon
  <2>9. Cardinality(Upto(m, n)) = Cardinality(Upto(m, n - 1)) + 1
    BY <2>3, <2>8, FS_AddElement, Zenon
  <2>10. /\ r2.size = Cardinality(Upto(m, n)) /\ r2.used = r2.size
         /\ Placed(r2, K, V) /\ Counted(r2) /\ Capacity(r2) = cap /\ NoGraves(r2)
    BY <2>7, <2>9, Zenon DEF Adds, MovedUpto
  <2>11. Cardinality(Upto(m, n)) <= m.size /\ Cardinality(Upto(m, n)) \in Nat
    BY <1>0, <2>8, FS_Subset, FS_CardinalityType, Zenon
  <2>12. r2.used < Capacity(r2)
    <3>1. m.size \in Nat
      BY <1>0, Array, Zenon
    <3> QED
      BY <2>10, <2>11, <3>1
  <2>13. ASSUME NEW a, NEW w
         PROVE  Maps(r2, a, w) <=> \E i \in Upto(m, n) : m.slots[i] = <<a, w>>
    <3>1. m.slots[n] = <<a, w>> <=> a = k /\ w = v
      BY <2>2
    <3>2. Maps(r2, a, w) <=> Maps(r, a, w) \/ (a = k /\ w = v)
      BY <2>7, Zenon DEF Adds
    <3>3. Maps(r, a, w) <=> \E i \in Upto(m, n - 1) : m.slots[i] = <<a, w>>
      BY Zenon DEF MovedUpto
    <3> QED
      BY <2>3, <3>1, <3>2, <3>3, Zenon
  <2>14. MovedUpto(r2, m, n, cap, K, V)
    BY <2>10, <2>12, <2>13, Zenon DEF MovedUpto, IsMap
  <2> QED
    BY <2>4, <2>14, Zenon
<1> QED
  BY <1>2, <1>3, Zenon

Same(m, r, K, V) == IsMap(r, K, V) /\ r.size = m.size /\ \A a, w : Maps(r, a, w) <=> Maps(m, a, w)

(* rehash: the new table holds the same pairs, and no tombstones, if it has *)
(* room for one pair more.                                                  *)
THEOREM Rehashing ==
  ASSUME NEW K, NEW V, Hashes(K), NEW m, IsMap(m, K, V), NEW cap \in Nat, m.size < cap
  PROVE  /\ Same(m, Rehash(m, cap), K, V)
         /\ Capacity(Rehash(m, cap)) = cap /\ Rehash(m, cap).used = m.size
<1>0. /\ Shape(m, K, V) /\ m.size = Cardinality(OccupiedSlots(m))
      /\ Capacity(m) \in Nat /\ m.size \in Nat /\ DOMAIN m.slots = 1..Capacity(m)
      /\ OccupiedSlots(m) \subseteq 1..Capacity(m)
  BY FiniteSlots, Array, Zenon DEF IsMap, Placed, Counted
<1> DEFINE c == Capacity(m)
           f == Moved(m, cap)
           Bad == {n \in 0..c : ~MovedUpto(f[n], m, n, cap, K, V)}
<1>1. \A n \in 0..c : f[n] = IF n = 0 THEN Blank(cap) ELSE MoveSlot(m.slots[n], f[n - 1])
  <2>1. IsRun(f, c, m, cap)
    BY <1>0, MovedRuns, Zenon
  <2> HIDE DEF f, c
  <2> QED
    BY <2>1, Zenon DEF IsRun
<1>2. MovedUpto(f[0], m, 0, cap, K, V)
  <2>1. cap \in Nat \ {0} /\ 0 \in 0..c
    BY <1>0
  <2>2. f[0] = Blank(cap)
    BY <1>1, <2>1, Zenon
  <2>3. Upto(m, 0) = {}
    BY <1>0 DEF Upto
  <2> DEFINE b == Blank(cap)
  <2>4. /\ IsMap(b, K, V) /\ Capacity(b) = cap /\ NoGraves(b) /\ b.size = 0 /\ b.used = 0
        /\ \A a, w : ~Maps(b, a, w)
    BY <2>1, Blanks, Zenon
  <2>5. Cardinality(Upto(m, 0)) = 0
    BY <2>3, FS_EmptySet, Zenon
  <2> HIDE DEF b
  <2>6. MovedUpto(b, m, 0, cap, K, V)
    BY <2>3, <2>4, <2>5, Zenon DEF MovedUpto
  <2> QED
    BY <2>2, <2>6, Zenon DEF b
<1> HIDE DEF f
<1>3. ASSUME Bad # {} PROVE FALSE
  <2>1. Bad \in SUBSET Nat
    BY <1>0
  <2>2. PICK n \in Bad : \A p \in Bad : n <= p
    BY <1>3, <2>1, LeastOf, Zenon
  <2>3. n # 0
    BY <1>2, <2>2, Zenon
  <2>4. n \in 1..c /\ n - 1 \in 0..c /\ n - 1 \notin Bad
    BY <1>0, <2>2, <2>3
  <2>5. MovedUpto(f[n - 1], m, n - 1, cap, K, V)
    BY <2>4, Zenon
  <2>6. MovedUpto(MoveSlot(m.slots[n], f[n - 1]), m, n, cap, K, V)
    BY <2>4, <2>5, MoveSlotStep, Zenon
  <2> QED
    BY <1>1, <2>2, <2>3, <2>6, Zenon
<1>4. c \in 0..c /\ Upto(m, c) = OccupiedSlots(m)
  BY <1>0 DEF Upto
<1>5. MovedUpto(Rehash(m, cap), m, c, cap, K, V)
  BY <1>3, <1>4, Zenon DEF Rehash, f
<1>6. ASSUME NEW a, NEW w
      PROVE  Maps(m, a, w) <=> \E i \in OccupiedSlots(m) : m.slots[i] = <<a, w>>
  <2>1. Occupied(<<a, w>>)
    BY Tuples, Zenon
  <2> QED
    BY <2>1, Zenon DEF Maps, OccupiedSlots
<1> QED
  BY <1>0, <1>4, <1>5, <1>6, Zenon DEF MovedUpto, Same

LEMMA SameLookups ==
  ASSUME NEW K, NEW V, NEW m, IsMap(m, K, V), NEW r, Same(m, r, K, V), NEW k, Hash(k) \in Nat
  PROVE  (HasKey(r, k) <=> HasKey(m, k)) /\ (HasKey(m, k) => ValueOf(r, k) = ValueOf(m, k))
<1>1. Placed(m, K, V) /\ Placed(r, K, V) /\ \A w : Maps(r, k, w) <=> Maps(m, k, w)
  BY Zenon DEF Same, IsMap
<1>2. HasKey(m, k) => Maps(m, k, ValueOf(m, k))
  BY <1>1, Lookups, Zenon
<1>3. HasKey(r, k) => Maps(r, k, ValueOf(r, k))
  BY <1>1, Lookups, Zenon
<1>4. \A w : Maps(m, k, w) => HasKey(m, k) /\ w = ValueOf(m, k)
  BY <1>1, Lookups, Zenon
<1>5. \A w : Maps(r, k, w) => HasKey(r, k) /\ w = ValueOf(r, k)
  BY <1>1, Lookups, Zenon
<1> QED
  BY <1>1, <1>2, <1>3, <1>4, <1>5, Zenon

(* When an insertion may change the number of slots, and to what. *)
Grows(m, r) ==
    \/ Capacity(r) = Capacity(m)
    \/ Capacity(r) = 2 * Capacity(m) /\ (m.size + 1) * 10 > Capacity(m) * 4

(* reserveForOneMore: the same pairs, a slot to spare, and a larger table   *)
(* only if more than four tenths of the slots would be live.                *)
THEOREM Reserving ==
  ASSUME NEW K, NEW V, Hashes(K), NEW m, IsMap(m, K, V)
  PROVE  /\ Same(m, ReserveForOneMore(m), K, V) /\ Grows(m, ReserveForOneMore(m))
         /\ ReserveForOneMore(m).used + 1 < Capacity(ReserveForOneMore(m))
<1> DEFINE c == Capacity(m)
<1>1. c \in Nat \ {0} /\ m.size \in Nat /\ m.used \in Nat /\ m.size <= m.used /\ m.used < c
  <2>1. Shape(m, K, V) /\ m.size = Cardinality(OccupiedSlots(m)) /\ m.used = Cardinality(UsedSlots(m))
    BY Zenon DEF IsMap, Placed, Counted
  <2> QED
    BY <2>1, Array, FiniteSlots, Zenon DEF IsMap
<1>2. CASE (m.used + 1) * 10 <= c * 7
  <2>1. ReserveForOneMore(m) = m
    BY <1>2, Zenon DEF ReserveForOneMore
  <2>2. Same(m, m, K, V) /\ Grows(m, m)
    BY Zenon DEF Same, Grows
  <2>3. m.used + 1 < c
    <3> HIDE DEF c
    <3> QED
      BY <1>1, <1>2
  <2> QED
    BY <2>1, <2>2, <2>3, Zenon
<1>3. CASE ~((m.used + 1) * 10 <= c * 7)
  <2> DEFINE cap == IF MostlyLive(m) THEN c * 2 ELSE c
             r == Rehash(m, cap)
  <2>1. ReserveForOneMore(m) = r
    BY <1>3, Zenon DEF ReserveForOneMore
  <2>2. cap \in Nat /\ m.size + 1 < cap /\ m.size < cap
    <3>1. MostlyLive(m) <=> (m.size + 1) * 10 > c * 4
      BY Zenon DEF MostlyLive
    <3> HIDE DEF c
    <3> QED
      BY <1>1, <3>1
  <2>5. cap = c \/ (cap = 2 * c /\ (m.size + 1) * 10 > c * 4)
    <3>1. MostlyLive(m) => (m.size + 1) * 10 > c * 4
      BY Zenon DEF MostlyLive
    <3>2. c * 2 = 2 * c
      BY <1>1
    <3> QED
      BY <3>1, <3>2, Zenon
  <2> HIDE DEF cap
  <2>3. Same(m, r, K, V) /\ Capacity(r) = cap /\ r.used = m.size
    <3>1. cap \in Nat /\ m.size < cap
      BY <2>2, Zenon
    <3> HIDE DEF c, r
    <3>2. /\ Same(m, Rehash(m, cap), K, V)
          /\ Capacity(Rehash(m, cap)) = cap /\ Rehash(m, cap).used = m.size
      BY <3>1, Rehashing, Zenon
    <3> QED
      BY <3>2, Zenon DEF r
  <2> HIDE DEF r
  <2>4. Grows(m, r) /\ r.used + 1 < Capacity(r)
    BY <2>2, <2>5, <2>3, Zenon DEF Grows
  <2> QED
    BY <2>1, <2>3, <2>4, Zenon
<1> QED
  BY <1>2, <1>3, Zenon

Gains(m, k, v, r, K, V) ==
    /\ IsMap(r, K, V) /\ Grows(m, r) /\ r.size = m.size + 1
    /\ \A a, w : Maps(r, a, w) <=> Maps(m, a, w) \/ (a = k /\ w = v)

(* insert and insertOrAssign of a key that is not there: this pair is added *)
(* and the others stay, across a rehash or in the place of a tombstone.     *)
THEOREM InsertingNew ==
  ASSUME NEW K, NEW V, Hashes(K), NEW m, IsMap(m, K, V), NEW k \in K, NEW v \in V,
         ~HasKey(m, k)
  PROVE  Gains(m, k, v, Insert(m, k, v), K, V) /\ Gains(m, k, v, InsertOrAssign(m, k, v), K, V)
<1> DEFINE r == ReserveForOneMore(m)
<1>1. Same(m, r, K, V) /\ Grows(m, r) /\ r.used + 1 < Capacity(r) /\ Hash(k) \in Nat
  BY Reserving, Zenon DEF Hashes
<1>2. Insert(m, k, v) = Place(r, k, v, FALSE) /\ InsertOrAssign(m, k, v) = Place(r, k, v, TRUE)
  BY Zenon DEF Insert, InsertOrAssign
<1> HIDE DEF r
<1>3. IsMap(r, K, V) /\ ~HasKey(r, k) /\ r.used \in Nat /\ Capacity(r) \in Nat
  <2>1. IsMap(r, K, V) /\ Shape(r, K, V)
    BY <1>1, Zenon DEF Same, IsMap, Placed
  <2> QED
    BY <1>1, <2>1, SameLookups, Array, Zenon
<1>4. ASSUME NEW b PROVE Gains(m, k, v, Place(r, k, v, b), K, V)
  <2> DEFINE p == Place(r, k, v, b)
  <2>1. Adds(r, k, v, p, K, V)
    BY <1>3, PlacingNew, Zenon
  <2> HIDE DEF p
  <2>2. p.used < Capacity(p)
    <3>1. Capacity(p) = Capacity(r) /\ (p.used = r.used \/ p.used = r.used + 1)
      BY <2>1, Zenon DEF Adds
    <3> QED
      BY <1>1, <1>3, <3>1
  <2>3. IsMap(p, K, V) /\ p.size = m.size + 1 /\ Grows(m, p)
    BY <1>1, <2>1, <2>2, Zenon DEF Adds, IsMap, Same, Grows
  <2>4. \A a, w : Maps(p, a, w) <=> Maps(m, a, w) \/ (a = k /\ w = v)
    BY <1>1, <2>1, Zenon DEF Adds, Same
  <2> QED
    BY <2>3, <2>4, Zenon DEF Gains, p
<1> QED
  BY <1>2, <1>4, Zenon

(* insert and insertOrAssign of a key that is there: the first changes      *)
(* nothing, the second the value of this key only.                          *)
THEOREM InsertingOld ==
  ASSUME NEW K, NEW V, Hashes(K), NEW m, IsMap(m, K, V), NEW k \in K, NEW v \in V, HasKey(m, k)
  PROVE  Same(m, Insert(m, k, v), K, V) /\ Assigns(m, k, v, InsertOrAssign(m, k, v), K, V)
<1> DEFINE r == ReserveForOneMore(m)
<1>1. Same(m, r, K, V) /\ Hash(k) \in Nat
  BY Reserving, Zenon DEF Hashes
<1>2. Insert(m, k, v) = Place(r, k, v, FALSE) /\ InsertOrAssign(m, k, v) = Place(r, k, v, TRUE)
  BY Zenon DEF Insert, InsertOrAssign
<1> HIDE DEF r
<1>3. IsMap(r, K, V) /\ HasKey(r, k)
  BY <1>1, SameLookups, Zenon DEF Same
<1>4. Place(r, k, v, FALSE) = r
  BY <1>3, PlaceKeepsOld, Zenon
<1>5. Assigns(r, k, v, Place(r, k, v, TRUE), K, V)
  BY <1>3, PlacingOld, Zenon
<1>6. Assigns(m, k, v, Place(r, k, v, TRUE), K, V)
  BY <1>1, <1>5, Zenon DEF Same, Assigns
<1> QED
  BY <1>1, <1>2, <1>4, <1>6, Zenon
=============================================================================
