--------------------------- MODULE LRUCacheProofs ---------------------------
(***************************************************************************)
(* The cache is a LRU cache, for any keys, values, nodes, capacities and   *)
(* hash function.                                                          *)
(*                                                                         *)
(* The invariant: the index is a map, from the key in each node of the     *)
(* list to this node and from nothing else, with as many entries as the    *)
(* list has nodes.                                                         *)
(***************************************************************************)
EXTENDS LRUCache, HashMapProofs

Elems(s) == {s[i] : i \in 1..Len(s)}

Inj(s) == \A i, j \in 1..Len(s) : s[i] = s[j] => i = j

Entries == Keys \X Values

(* The list s, with what is in its nodes, and the index m are in step. *)
Cache(s, e, m) ==
    /\ s \in Seq(Nodes) /\ Inj(s)
    /\ \A n \in Elems(s) : e[n] \in Entries
    /\ IsMap(m, Keys, Nodes) /\ m.size = Len(s)
    /\ \A k \in Keys, n \in Nodes : Maps(m, k, n) <=> n \in Elems(s) /\ e[n][1] = k

View(s, e) == [i \in 1..Len(s) |-> e[s[i]]]

Bounded(m, most) ==
    /\ most \in Nat /\ m.size <= most
    /\ Capacity(m) = MinCapacity \/ Capacity(m) < 5 * (most + 1)

CacheInv ==
    /\ entry \in [Nodes -> {<<>>} \cup Entries]
    /\ Cache(items, entry, index) /\ Len(items) <= CacheCapacity
    /\ recency = View(items, entry)
    /\ Bounded(index, peak)

-----------------------------------------------------------------------------
(* The list operations, element by element. *)
Lacks(s, i, w) ==
    Len(w) = Len(s) - 1 /\ \A j \in 1..Len(s) - 1 : w[j] = s[IF j < i THEN j ELSE j + 1]

Leads(s, x, w) ==
    Len(w) = Len(s) + 1 /\ w[1] = x /\ \A j \in 2..Len(s) + 1 : w[j] = s[j - 1]

LEMMA WithoutIs ==
  ASSUME NEW S, NEW s \in Seq(S), NEW i \in 1..Len(s)
  PROVE  Without(s, i) \in Seq(S) /\ Lacks(s, i, Without(s, i))
BY DEF Without, Lacks

LEMMA ConsIs ==
  ASSUME NEW S, NEW s \in Seq(S), NEW x \in S
  PROVE  <<x>> \o s \in Seq(S) /\ Leads(s, x, <<x>> \o s)
BY DEF Leads

LEMMA SeqEqual ==
  ASSUME NEW S, NEW T, NEW s \in Seq(S), NEW t \in Seq(T), Len(s) = Len(t),
         \A i \in 1..Len(s) : s[i] = t[i]
  PROVE  s = t
OBVIOUS

Removed(s, i, w) == Inj(w) /\ Elems(w) = Elems(s) \ {s[i]}

LEMMA Removal ==
  ASSUME NEW S, NEW s \in Seq(S), Inj(s), NEW i \in 1..Len(s)
  PROVE  Removed(s, i, Without(s, i))
<1>a. PICK w : w = Without(s, i)
  OBVIOUS
<1>1. /\ Len(w) = Len(s) - 1 /\ Len(s) \in Nat
      /\ \A j \in 1..Len(s) - 1 : w[j] = s[IF j < i THEN j ELSE j + 1]
  BY <1>a, WithoutIs DEF Lacks
<1>2. ASSUME NEW j \in 1..Len(w), NEW p \in 1..Len(w), w[j] = w[p] PROVE j = p
  <2>1. PICK a \in 1..Len(s) : a = IF j < i THEN j ELSE j + 1
    BY <1>1
  <2>2. PICK b \in 1..Len(s) : b = IF p < i THEN p ELSE p + 1
    BY <1>1
  <2>3. s[a] = s[b]
    BY <1>1, <1>2, <2>1, <2>2, Zenon
  <2>4. a = b
    BY <2>3, Zenon DEF Inj
  <2> QED
    BY <1>1, <2>1, <2>2, <2>4
<1>3. ASSUME NEW j \in 1..Len(w) PROVE w[j] \in Elems(s) \ {s[i]}
  <2>1. PICK a \in 1..Len(s) : a = IF j < i THEN j ELSE j + 1
    BY <1>1
  <2>2. w[j] = s[a] /\ a # i
    BY <1>1, <2>1
  <2> QED
    BY <2>2, Zenon DEF Elems, Inj
<1>4. ASSUME NEW a \in 1..Len(s), s[a] # s[i] PROVE s[a] \in Elems(w)
  <2>1. PICK j \in 1..Len(w) : a = IF j < i THEN j ELSE j + 1
    <3>1. CASE a < i
      <4>1. a \in 1..Len(w)
        BY <1>1, <3>1
      <4> QED
        BY <3>1, <4>1, Zenon
    <3>2. CASE a > i
      <4>1. a - 1 \in 1..Len(w) /\ ~(a - 1 < i) /\ a = a - 1 + 1
        BY <1>1, <3>2
      <4> QED
        BY <4>1, Zenon
    <3>3. a # i
      BY <1>4, Zenon
    <3> QED
      BY <3>1, <3>2, <3>3
  <2>2. w[j] = s[a]
    BY <1>1, <2>1, Zenon
  <2> QED
    BY <2>2, Zenon DEF Elems
<1> QED
  <2>1. Inj(w)
    BY <1>2, Zenon DEF Inj
  <2>2. Elems(w) \subseteq Elems(s) \ {s[i]}
    BY <1>3, Zenon DEF Elems
  <2>3. Elems(s) \ {s[i]} \subseteq Elems(w)
    <3> SUFFICES ASSUME NEW y \in Elems(s), y # s[i] PROVE y \in Elems(w)
      BY Zenon
    <3>1. PICK a \in 1..Len(s) : y = s[a]
      BY Zenon DEF Elems
    <3> QED
      BY <1>4, <3>1, Zenon
  <2> QED
    BY <1>a, <2>1, <2>2, <2>3, Zenon DEF Removed

Pushed(s, x, w) == Inj(w) /\ Elems(w) = Elems(s) \cup {x}

LEMMA Pushing ==
  ASSUME NEW S, NEW s \in Seq(S), Inj(s), NEW x \in S, x \notin Elems(s)
  PROVE  Pushed(s, x, <<x>> \o s)
<1>a. PICK w : w = <<x>> \o s
  BY Zenon
<1>1. /\ Len(w) = Len(s) + 1 /\ Len(s) \in Nat
      /\ w[1] = x /\ \A j \in 2..Len(s) + 1 : w[j] = s[j - 1]
  BY <1>a, ConsIs DEF Leads
<1>2. \A j \in 1..Len(w) : j = 1 \/ (j - 1 \in 1..Len(s) /\ w[j] = s[j - 1])
  BY <1>1
<1>3. ASSUME NEW j \in 1..Len(w), NEW p \in 1..Len(w), w[j] = w[p] PROVE j = p
  <2>1. \A q \in 1..Len(s) : s[q] # x
    BY Zenon DEF Elems
  <2>2. CASE j = 1 \/ p = 1
    BY <1>1, <1>2, <1>3, <2>1, <2>2, Zenon
  <2>3. CASE j # 1 /\ p # 1
    <3>1. j - 1 = p - 1
      BY <1>2, <1>3, <2>3, Zenon DEF Inj
    <3> QED
      BY <3>1, <1>1
  <2> QED
    BY <2>2, <2>3, Zenon
<1>4. \A j \in 1..Len(w) : w[j] \in Elems(s) \cup {x}
  BY <1>1, <1>2, Zenon DEF Elems
<1>5. ASSUME NEW q \in 1..Len(s) PROVE s[q] \in Elems(w)
  <2>1. q + 1 \in 1..Len(w) /\ w[q + 1] = s[q]
    BY <1>1
  <2> QED
    BY <2>1, Zenon DEF Elems
<1>6. x \in Elems(w)
  <2>1. 1 \in 1..Len(w)
    BY <1>1
  <2> QED
    BY <1>1, <2>1, Zenon DEF Elems
<1> QED
  <2>1. Inj(w)
    BY <1>3, Zenon DEF Inj
  <2>2. Elems(w) \subseteq Elems(s) \cup {x}
    BY <1>4, Zenon DEF Elems
  <2>3. Elems(s) \subseteq Elems(w)
    BY <1>5, Zenon DEF Elems
  <2> QED
    BY <1>a, <1>6, <2>1, <2>2, <2>3, Zenon DEF Pushed
-----------------------------------------------------------------------------
Fills(e, s, V) == \A n \in Elems(s) : e[n] \in V

Shows(s, e, v) == Len(v) = Len(s) /\ \A i \in 1..Len(s) : v[i] = e[s[i]]

LEMMA ViewIs ==
  ASSUME NEW S, NEW V, NEW s \in Seq(S), NEW e, Fills(e, s, V)
  PROVE  View(s, e) \in Seq(V) /\ Shows(s, e, View(s, e))
<1>1. \A i \in 1..Len(s) : e[s[i]] \in V
  BY Zenon DEF Fills, Elems
<1>2. Len(s) \in Nat
  OBVIOUS
<1> QED
  BY <1>1, <1>2 DEF View, Shows

LEMMA ViewWithout ==
  ASSUME NEW S, NEW V, NEW s \in Seq(S), NEW e, Fills(e, s, V), NEW i \in 1..Len(s), Inj(s)
  PROVE  View(Without(s, i), e) = Without(View(s, e), i)
<1>a. PICK w, v : w = Without(s, i) /\ v = View(s, e)
  OBVIOUS
<1>1. w \in Seq(S) /\ Lacks(s, i, w) /\ Len(w) = Len(s) - 1 /\ Len(s) \in Nat
  BY <1>a, WithoutIs DEF Lacks
<1>2. v \in Seq(V) /\ Shows(s, e, v) /\ Len(v) = Len(s)
  <2>1. v \in Seq(V) /\ Shows(s, e, v)
    BY <1>a, ViewIs, Zenon
  <2> QED
    BY <2>1, Zenon DEF Shows
<1>3. Fills(e, w, V)
  BY <1>a, Removal, Zenon DEF Removed, Fills
<1>4. Without(v, i) \in Seq(V) /\ Lacks(v, i, Without(v, i)) /\ Len(Without(v, i)) = Len(v) - 1
  BY <1>2, WithoutIs, Zenon DEF Lacks
<1>5. View(w, e) \in Seq(V) /\ Shows(w, e, View(w, e)) /\ Len(View(w, e)) = Len(w)
  <2>1. View(w, e) \in Seq(V) /\ Shows(w, e, View(w, e))
    BY <1>1, <1>3, ViewIs, Zenon
  <2> QED
    BY <2>1, Zenon DEF Shows
<1>6. ASSUME NEW j \in 1..Len(s) - 1 PROVE View(w, e)[j] = Without(v, i)[j]
  <2>1. PICK a \in 1..Len(s) : a = IF j < i THEN j ELSE j + 1
    BY <1>1
  <2>2. w[j] = s[a] /\ Without(v, i)[j] = v[a] /\ j \in 1..Len(w)
    BY <1>1, <1>2, <1>4, <2>1, Zenon DEF Lacks
  <2> QED
    BY <1>2, <1>5, <2>2, Zenon DEF Shows
<1>7. View(w, e) = Without(v, i)
  BY <1>1, <1>2, <1>4, <1>5, <1>6, SeqEqual, Zenon
<1> QED
  BY <1>a, <1>7, Zenon

ViewsFront(s, x, e) == View(<<x>> \o s, e) = <<e[x]>> \o View(s, e)

LEMMA ViewLeads ==
  ASSUME NEW S, NEW V, NEW s \in Seq(S), NEW e, Fills(e, s, V), NEW x \in S, e[x] \in V
  PROVE  ViewsFront(s, x, e)
<1>a. PICK w, y, v, u : /\ w = <<x>> \o s /\ y = e[x] /\ v = View(s, e) /\ u = <<y>> \o v
  BY Zenon
<1>1. /\ w \in Seq(S) /\ Len(w) = Len(s) + 1 /\ Len(s) \in Nat
      /\ w[1] = x /\ \A j \in 2..Len(s) + 1 : w[j] = s[j - 1]
  BY <1>a, ConsIs DEF Leads
<1>2. v \in Seq(V) /\ Len(v) = Len(s) /\ \A j \in 1..Len(s) : v[j] = e[s[j]]
  <2>1. v \in Seq(V) /\ Shows(s, e, v)
    BY <1>a, ViewIs, Zenon
  <2> QED
    BY <2>1, Zenon DEF Shows
<1>3. u \in Seq(V) /\ Leads(v, y, u)
  BY <1>a, <1>2, ConsIs, Zenon
<1>4. /\ Len(u) = Len(s) + 1
      /\ u[1] = y /\ \A j \in 2..Len(s) + 1 : u[j] = v[j - 1]
  BY <1>2, <1>3, Zenon DEF Leads
<1>5. \A j \in 1..Len(w) : j = 1 \/ (j \in 2..Len(s) + 1 /\ j - 1 \in 1..Len(s))
  BY <1>1
<1>6. \A j \in 1..Len(w) : e[w[j]] = u[j]
  BY <1>a, <1>1, <1>2, <1>4, <1>5, Zenon
<1>7. View(w, e) = [j \in 1..Len(w) |-> u[j]]
  BY <1>6, Zenon DEF View
<1>8. View(w, e) = u
  BY <1>1, <1>3, <1>4, <1>7
<1> QED
  BY <1>a, <1>8, Zenon DEF ViewsFront

LEMMA ViewSame ==
  ASSUME NEW s, NEW e, NEW f, \A n \in Elems(s) : f[n] = e[n] PROVE View(s, f) = View(s, e)
BY Zenon DEF View, Elems

-----------------------------------------------------------------------------
LEMMA HashesKeys == Hashes(Keys)
BY CacheAssumption, Zenon DEF Hashes

LEMMA Pairs ==
  ASSUME NEW p \in Entries
  PROVE  p = <<p[1], p[2]>> /\ p[1] \in Keys /\ p[2] \in Values
BY DEF Entries

(* No two nodes have the same key. *)
LEMMA CacheKeys ==
  ASSUME NEW s, NEW e, NEW m, Cache(s, e, m), NEW n \in Elems(s), NEW p \in Elems(s)
  PROVE  /\ n \in Nodes /\ e[n] = <<e[n][1], e[n][2]>> /\ e[n][1] \in Keys /\ e[n][2] \in Values
         /\ Maps(m, e[n][1], n) /\ HasKey(m, e[n][1]) /\ ValueOf(m, e[n][1]) = n
         /\ e[n][1] = e[p][1] => n = p
<1>1. ASSUME NEW x \in Elems(s)
      PROVE  x \in Nodes /\ e[x] = <<e[x][1], e[x][2]>> /\ e[x][1] \in Keys /\ e[x][2] \in Values
  <2>1. x \in Nodes
    BY DEF Cache, Elems
  <2>2. e[x] \in Entries
    BY Zenon DEF Cache
  <2> QED
    BY <2>1, <2>2, Pairs, Zenon
<1>2. \A x \in Elems(s) : Maps(m, e[x][1], x)
  BY <1>1, Zenon DEF Cache
<1>3. \A k \in Keys : \A v : Maps(m, k, v) => HasKey(m, k) /\ v = ValueOf(m, k)
  <2>1. Placed(m, Keys, Nodes) /\ \A k \in Keys : Hash(k) \in Nat
    BY HashesKeys, Zenon DEF Cache, IsMap, Hashes
  <2> QED
    BY <2>1, Lookups, Zenon
<1>4. \A x \in Elems(s) : HasKey(m, e[x][1]) /\ ValueOf(m, e[x][1]) = x
  BY <1>1, <1>2, <1>3, Zenon
<1>5. e[n][1] = e[p][1] => n = p
  BY <1>4, Zenon
<1> QED
  BY <1>1, <1>2, <1>4, <1>5, Zenon
Agree(s, e, f) == \A n \in Elems(s) : f[n] = e[n]

(* A node leaves list and index. *)
LEMMA CacheDrop ==
  ASSUME NEW s, NEW e, NEW m, Cache(s, e, m), NEW i \in 1..Len(s), NEW f,
         Agree(Without(s, i), e, f)
  PROVE  /\ Cache(Without(s, i), f, Erase(m, e[s[i]][1]))
         /\ View(Without(s, i), f) = Without(View(s, e), i)
         /\ Capacity(Erase(m, e[s[i]][1])) = Capacity(m)
<1>a. PICK w, x, k, r : w = Without(s, i) /\ x = s[i] /\ k = e[s[i]][1] /\ r = Erase(m, e[s[i]][1])
  BY Zenon
<1>0. s \in Seq(Nodes) /\ Inj(s) /\ IsMap(m, Keys, Nodes) /\ m.size = Len(s) /\ Len(s) \in Nat
  BY DEF Cache
<1>1. w \in Seq(Nodes) /\ Lacks(s, i, w) /\ Removed(s, i, w)
  BY <1>a, <1>0, WithoutIs, Removal, Zenon
<1>2. Len(w) = Len(s) - 1 /\ Inj(w) /\ Elems(w) = Elems(s) \ {x} /\ x \in Elems(s)
  BY <1>a, <1>1, Zenon DEF Lacks, Removed, Elems
<1>3. k \in Keys /\ x \in Nodes /\ HasKey(m, k)
  BY <1>a, <1>2, CacheKeys, Zenon
<1>4. Loses(m, k, r, Keys, Nodes)
  BY <1>a, <1>0, <1>3, HashesKeys, Erasing, Zenon
<1>5. /\ IsMap(r, Keys, Nodes) /\ Capacity(r) = Capacity(m) /\ r.size = m.size - 1
      /\ \A a, v : Maps(r, a, v) <=> Maps(m, a, v) /\ a # k
  BY <1>3, <1>4, Zenon DEF Loses
<1>6. \A n \in Elems(w) : f[n] = e[n]
  BY <1>a, Zenon DEF Agree
<1>7. \A n \in Elems(w) : f[n] \in Entries
  BY <1>2, <1>6, Zenon DEF Cache
<1>8. ASSUME NEW a \in Keys, NEW n \in Nodes
      PROVE  Maps(r, a, n) <=> n \in Elems(w) /\ f[n][1] = a
  <2>1. Maps(m, a, n) <=> n \in Elems(s) /\ e[n][1] = a
    BY Zenon DEF Cache
  <2>2. n \in Elems(s) => (e[n][1] = k => n = x)
    BY <1>a, <1>2, CacheKeys
  <2>3. e[x][1] = k
    BY <1>a, Zenon
  <2> QED
    BY <1>2, <1>5, <1>6, <2>1, <2>2, <2>3, Zenon
<1>9. Cache(w, f, r)
  BY <1>0, <1>1, <1>2, <1>5, <1>7, <1>8, Zenon DEF Cache
<1>10. View(w, f) = Without(View(s, e), i)
  <2>1. View(w, f) = View(w, e)
    BY <1>6, ViewSame, Zenon
  <2>2. Fills(e, s, Entries)
    BY Zenon DEF Cache, Fills
  <2>3. View(Without(s, i), e) = Without(View(s, e), i)
    BY <1>0, <2>2, ViewWithout
  <2> QED
    BY <1>a, <2>1, <2>3, Zenon
<1> QED
  BY <1>a, <1>5, <1>9, <1>10, Zenon

(* A new node enters list and index. *)
LEMMA CacheAdd ==
  ASSUME NEW s, NEW e, NEW m, Cache(s, e, m), NEW x \in Nodes, x \notin Elems(s),
         NEW k \in Keys, NEW v \in Values, ~HasKey(m, k), NEW f, Agree(s, e, f), f[x] = <<k, v>>
  PROVE  /\ Cache(<<x>> \o s, f, InsertOrAssign(m, k, x))
         /\ View(<<x>> \o s, f) = <<<<k, v>>>> \o View(s, e)
         /\ Grows(m, InsertOrAssign(m, k, x))
<1>a. PICK w, r : w = <<x>> \o s /\ r = InsertOrAssign(m, k, x)
  BY Zenon
<1>0. s \in Seq(Nodes) /\ Inj(s) /\ IsMap(m, Keys, Nodes) /\ m.size = Len(s) /\ Len(s) \in Nat
  BY DEF Cache
<1>1. w \in Seq(Nodes) /\ Leads(s, x, w) /\ Pushed(s, x, w)
  BY <1>a, <1>0, ConsIs, Pushing, Zenon
<1>2. Len(w) = Len(s) + 1 /\ Inj(w) /\ Elems(w) = Elems(s) \cup {x}
  BY <1>1, Zenon DEF Leads, Pushed
<1>4. Gains(m, k, x, r, Keys, Nodes)
  BY <1>a, <1>0, HashesKeys, InsertingNew, Zenon
<1>5. /\ IsMap(r, Keys, Nodes) /\ Grows(m, r) /\ r.size = m.size + 1
      /\ \A a, n : Maps(r, a, n) <=> Maps(m, a, n) \/ (a = k /\ n = x)
  BY <1>4, Zenon DEF Gains
<1>6. f[x] \in Entries /\ f[x][1] = k
  BY DEF Entries
<1>7. \A n \in Elems(w) : f[n] \in Entries
  BY <1>2, <1>6, Zenon DEF Cache, Agree
<1>8. ASSUME NEW a \in Keys, NEW n \in Nodes
      PROVE  Maps(r, a, n) <=> n \in Elems(w) /\ f[n][1] = a
  <2>1. Maps(m, a, n) <=> n \in Elems(s) /\ e[n][1] = a
    BY Zenon DEF Cache
  <2> QED
    BY <1>2, <1>5, <1>6, <2>1, Zenon DEF Agree
<1>9. Cache(w, f, r)
  BY <1>0, <1>1, <1>2, <1>5, <1>7, <1>8, Zenon DEF Cache
<1>10. View(w, f) = <<<<k, v>>>> \o View(s, e)
  <2>1. View(s, f) = View(s, e)
    BY ViewSame, Zenon DEF Agree
  <2>2. Fills(f, s, Entries)
    BY <1>2, <1>7, Zenon DEF Fills
  <2>3. ViewsFront(s, x, f)
    BY <1>0, <1>6, <2>2, ViewLeads, Zenon
  <2> QED
    BY <1>a, <2>1, <2>3, Zenon DEF ViewsFront
<1> QED
  BY <1>a, <1>5, <1>9, <1>10, Zenon

(* A node moves to the front, perhaps with another value. *)
LEMMA CacheTouch ==
  ASSUME NEW s, NEW e, NEW m, Cache(s, e, m), NEW i \in 1..Len(s), NEW v \in Values, NEW f,
         Agree(Without(s, i), e, f), f[s[i]] = <<e[s[i]][1], v>>
  PROVE  /\ Cache(<<s[i]>> \o Without(s, i), f, m)
         /\ View(<<s[i]>> \o Without(s, i), f) = <<f[s[i]]>> \o Without(View(s, e), i)
         /\ Len(<<s[i]>> \o Without(s, i)) = Len(s)
<1>a. PICK w, x, k, u : w = Without(s, i) /\ x = s[i] /\ k = e[s[i]][1] /\ u = <<s[i]>> \o Without(s, i)
  BY Zenon
<1>0. s \in Seq(Nodes) /\ Inj(s) /\ IsMap(m, Keys, Nodes) /\ m.size = Len(s) /\ Len(s) \in Nat
  BY DEF Cache
<1>1. w \in Seq(Nodes) /\ Lacks(s, i, w) /\ Removed(s, i, w)
  BY <1>a, <1>0, WithoutIs, Removal, Zenon
<1>2. Len(w) = Len(s) - 1 /\ Inj(w) /\ Elems(w) = Elems(s) \ {x} /\ x \in Elems(s) /\ x \notin Elems(w)
  BY <1>a, <1>1, Zenon DEF Lacks, Removed, Elems
<1>3. k \in Keys /\ x \in Nodes
  BY <1>a, <1>2, CacheKeys, Zenon
<1>4. u \in Seq(Nodes) /\ Leads(w, x, u) /\ Pushed(w, x, u)
  BY <1>a, <1>1, <1>2, <1>3, ConsIs, Pushing, Zenon
<1>5. Len(u) = Len(s) /\ Inj(u) /\ Elems(u) = Elems(s)
  <2>1. Len(u) = Len(w) + 1 /\ Inj(u) /\ Elems(u) = Elems(w) \cup {x}
    BY <1>4, Zenon DEF Leads, Pushed
  <2> QED
    BY <1>0, <1>2, <2>1
<1>6. f[x] \in Entries /\ f[x][1] = k /\ f[x] = <<k, v>>
  <2>1. f[x] = <<k, v>>
    BY <1>a, Zenon
  <2> QED
    BY <1>3, <2>1 DEF Entries
<1>7. \A n \in Elems(w) : f[n] = e[n]
  BY <1>a, Zenon DEF Agree
<1>8. \A n \in Elems(u) : f[n] \in Entries /\ f[n][1] = e[n][1]
  BY <1>a, <1>2, <1>5, <1>6, <1>7, Zenon DEF Cache
<1>9. Cache(u, f, m)
  BY <1>0, <1>4, <1>5, <1>8, Zenon DEF Cache
<1>10. View(u, f) = <<f[x]>> \o Without(View(s, e), i)
  <2>1. View(w, f) = View(w, e)
    BY <1>7, ViewSame, Zenon
  <2>2. Fills(e, s, Entries)
    BY Zenon DEF Cache, Fills
  <2>3. View(w, e) = Without(View(s, e), i)
    <3>1. View(Without(s, i), e) = Without(View(s, e), i)
      BY <1>0, <2>2, ViewWithout
    <3> QED
      BY <1>a, <3>1, Zenon
  <2>4. Fills(f, w, Entries)
    BY <1>2, <1>5, <1>8, Zenon DEF Fills
  <2>5. ViewsFront(w, x, f)
    BY <1>1, <1>3, <1>6, <2>4, ViewLeads, Zenon
  <2> QED
    BY <1>a, <2>1, <2>3, <2>5, Zenon DEF ViewsFront
<1> QED
  BY <1>a, <1>5, <1>9, <1>10, Zenon
-----------------------------------------------------------------------------
(* What the invariant says of the history. *)
LEMMA RecencyIs ==
  ASSUME CacheInv
  PROVE  /\ items \in Seq(Nodes) /\ Len(items) \in Nat /\ DOMAIN items = 1..Len(items)
         /\ recency \in Seq(Entries) /\ Len(recency) = Len(items)
         /\ DOMAIN recency = 1..Len(items)
         /\ \A j \in 1..Len(items) : recency[j] = entry[items[j]] /\ items[j] \in Elems(items)
<1>1. items \in Seq(Nodes) /\ Fills(entry, items, Entries) /\ recency = View(items, entry)
  BY Zenon DEF CacheInv, Cache, Fills
<1>2. recency \in Seq(Entries) /\ Shows(items, entry, recency)
  BY <1>1, ViewIs, Zenon
<1>3. Len(recency) = Len(items) /\ \A j \in 1..Len(items) : recency[j] = entry[items[j]]
  BY <1>2, Zenon DEF Shows
<1>4. \A j \in 1..Len(items) : items[j] \in Elems(items)
  BY Zenon DEF Elems
<1>5. Len(items) \in Nat /\ DOMAIN items = 1..Len(items)
  BY <1>1
<1>6. DOMAIN recency = 1..Len(items)
  BY <1>2, <1>3
<1> QED
  BY <1>1, <1>2, <1>3, <1>4, <1>5, <1>6, Zenon

Hit(key, n, i) ==
    /\ i \in 1..Len(items) /\ items[i] = n /\ n \in Nodes /\ entry[n][1] = key
    /\ At(n) = i /\ Forget(key) = Without(recency, i)

LEMMA Hits ==
  ASSUME CacheInv, NEW key \in Keys, HasKey(index, key)
  PROVE  Hit(key, ValueOf(index, key), At(ValueOf(index, key)))
<1>a. PICK n, i : n = ValueOf(index, key) /\ i = At(n)
  BY Zenon
<1>0. /\ Cache(items, entry, index) /\ Placed(index, Keys, Nodes) /\ Hash(key) \in Nat
      /\ DOMAIN items = 1..Len(items)
  BY HashesKeys, RecencyIs, Zenon DEF CacheInv, Cache, IsMap, Hashes
<1>1. n \in Nodes /\ Maps(index, key, n)
  BY <1>a, <1>0, Lookups, Zenon
<1>2. n \in Elems(items) /\ entry[n][1] = key
  BY <1>0, <1>1, Zenon DEF Cache
<1>3. i \in 1..Len(items) /\ items[i] = n
  <2>1. \E j \in DOMAIN items : items[j] = n
    BY <1>0, <1>2, Zenon DEF Elems
  <2> QED
    BY <1>a, <1>0, <2>1, Zenon DEF At
<1>4. ASSUME NEW j \in 1..Len(items) PROVE recency[j][1] = key <=> j = i
  <2>1. recency[j] = entry[items[j]] /\ items[j] \in Elems(items)
    BY RecencyIs, Zenon
  <2>2. entry[items[j]][1] = key => items[j] = n
    BY <1>0, <1>2, <2>1, CacheKeys
  <2>3. items[j] = n => j = i
    BY <1>0, <1>3, Zenon DEF Cache, Inj
  <2> QED
    BY <1>2, <1>3, <2>1, <2>2, <2>3, Zenon
<1>5. Forget(key) = Without(recency, i)
  <2>1. DOMAIN recency = 1..Len(items)
    BY RecencyIs, Zenon
  <2>2. i \in DOMAIN recency /\ recency[i][1] = key
    BY <1>3, <1>4, <2>1, Zenon
  <2>3. (CHOOSE j \in DOMAIN recency : recency[j][1] = key) = i
    BY <1>4, <2>1, <2>2, Zenon
  <2> QED
    BY <2>2, <2>3, Zenon DEF Forget
<1> QED
  BY <1>a, <1>1, <1>2, <1>3, <1>5, Zenon DEF Hit

LEMMA RecallHit ==
  ASSUME CacheInv, NEW key \in Keys, NEW value \in Values, NEW n, NEW i, Hit(key, n, i)
  PROVE  Recall(key, value) = <<<<key, value>>>> \o Without(recency, i)
<1>a. PICK e, w, all : e = <<key, value>> /\ w = Without(recency, i) /\ all = <<e>> \o w
  BY Zenon
<1>1. recency \in Seq(Entries) /\ Len(recency) = Len(items) /\ Len(items) \in Nat
  BY RecencyIs, Zenon
<1>2. w \in Seq(Entries) /\ Len(w) = Len(items) - 1
  BY <1>a, <1>1, WithoutIs, Zenon DEF Hit, Lacks
<1>3. e \in Entries
  BY <1>a, Zenon DEF Entries
<1>4. Len(all) = Len(w) + 1
  BY <1>a, <1>2, <1>3, ConsIs, Zenon DEF Leads
<1>5. Len(all) <= CacheCapacity
  BY <1>1, <1>2, <1>4 DEF CacheInv
<1>6. Forget(key) = w
  BY <1>a, Zenon DEF Hit
<1> QED
  BY <1>a, <1>5, <1>6, Zenon DEF Recall

LEMMA RecallMiss ==
  ASSUME CacheInv, NEW key \in Keys, NEW value \in Values, ~HasKey(index, key)
  PROVE  /\ Len(items) < CacheCapacity => Recall(key, value) = <<<<key, value>>>> \o recency
         /\ Len(items) = CacheCapacity =>
               Recall(key, value) = <<<<key, value>>>> \o Without(recency, Len(items))
<1>a. PICK e, w, all : e = <<key, value>> /\ w = Without(recency, Len(items)) /\ all = <<e>> \o recency
  BY Zenon
<1>1. /\ recency \in Seq(Entries) /\ Len(recency) = Len(items) /\ Len(items) \in Nat
      /\ DOMAIN recency = 1..Len(items)
  BY RecencyIs, Zenon
<1>2. Forget(key) = recency
  <2>1. ASSUME NEW j \in 1..Len(items) PROVE recency[j][1] # key
    <3>1. recency[j] = entry[items[j]] /\ items[j] \in Elems(items) /\ Cache(items, entry, index)
      BY RecencyIs, Zenon DEF CacheInv
    <3>2. HasKey(index, entry[items[j]][1])
      BY <3>1, CacheKeys, Zenon
    <3> QED
      BY <3>1, <3>2, Zenon
  <2> QED
    BY <1>1, <2>1, Zenon DEF Forget
<1>3. e \in Entries
  BY <1>a, Zenon DEF Entries
<1>4. all \in Seq(Entries) /\ Leads(recency, e, all)
  BY <1>a, <1>1, <1>3, ConsIs, Zenon
<1>5. Recall(key, value) = IF Len(all) <= CacheCapacity THEN all ELSE SubSeq(all, 1, CacheCapacity)
  BY <1>a, <1>2, Zenon DEF Recall
<1>6. Len(all) = Len(items) + 1
  BY <1>1, <1>4, Zenon DEF Leads
<1>c. CacheCapacity \in Nat \ {0}
  BY CacheAssumption, Zenon
<1>7. CASE Len(items) < CacheCapacity
  <2>1. Len(all) <= CacheCapacity /\ Len(items) # CacheCapacity
    <3>1. PICK a, b : a = Len(items) /\ b = Len(all)
      BY Zenon
    <3>2. a \in Nat /\ b = a + 1 /\ a < CacheCapacity
      BY <1>1, <1>6, <1>7, <3>1, Zenon
    <3>3. b <= CacheCapacity /\ a # CacheCapacity
      BY <1>c, <3>2
    <3> QED
      BY <3>1, <3>3, Zenon
  <2> QED
    BY <1>a, <1>5, <2>1, Zenon
<1>8. CASE Len(items) = CacheCapacity
  <2>1. ~(Len(all) <= CacheCapacity) /\ ~(Len(items) < CacheCapacity)
    BY <1>1, <1>6, <1>8, <1>c
  <2>2. Len(items) \in 1..Len(recency)
    BY <1>1, <1>8, <1>c
  <2>3. w \in Seq(Entries) /\ Lacks(recency, Len(items), w)
    BY <1>a, <1>1, <2>2, WithoutIs, Zenon
  <2>4. PICK u : u = <<e>> \o w
    BY Zenon
  <2>5. u \in Seq(Entries) /\ Leads(w, e, u)
    BY <1>3, <2>3, <2>4, ConsIs, Zenon
  <2>6. PICK p : p = SubSeq(all, 1, CacheCapacity)
    BY Zenon
  <2>7. p \in Seq(Entries) /\ Len(p) = CacheCapacity /\ \A j \in 1..CacheCapacity : p[j] = all[j]
    BY <1>1, <1>4, <1>6, <1>8, <2>6, <1>c
  <2>8. Len(u) = CacheCapacity /\ \A j \in 1..CacheCapacity : u[j] = all[j]
    <3>1. Len(u) = CacheCapacity /\ u[1] = e /\ all[1] = e
      BY <1>c, <1>1, <1>4, <1>8, <2>3, <2>5 DEF Leads, Lacks
    <3>2. ASSUME NEW j \in 2..CacheCapacity PROVE u[j] = all[j]
      <4>1. j - 1 \in 1..Len(recency) - 1 /\ j \in 2..Len(recency) + 1 /\ j - 1 < Len(items)
        BY <1>c, <1>1, <1>8
      <4>2. j \in 2..Len(w) + 1
        BY <1>c, <1>1, <1>8, <2>3 DEF Lacks
      <4> QED
        BY <1>4, <2>3, <2>5, <4>1, <4>2, Zenon DEF Leads, Lacks
    <3>3. \A j \in 1..CacheCapacity : j = 1 \/ j \in 2..CacheCapacity
      BY <1>c
    <3> QED
      BY <3>1, <3>2, <3>3, Zenon
  <2>9. p = u
    BY <2>5, <2>7, <2>8, SeqEqual, Zenon
  <2> QED
    BY <1>a, <1>5, <2>1, <2>4, <2>6, <2>9, Zenon
<1> QED
  BY <1>7, <1>8, Zenon
-----------------------------------------------------------------------------
Typed(e) == e \in [Nodes -> {<<>>} \cup Entries]

(* put() of a key that is there, and get(). *)
LEMMA TouchStep ==
  ASSUME CacheInv, NEW key \in Keys, NEW value \in Values, NEW n, NEW i, Hit(key, n, i),
         items' = Touched(n), Typed(entry'), Agree(Without(items, i), entry, entry'),
         entry'[n] = <<key, value>>, recency' = Recall(key, value), index' = index, peak' = peak
  PROVE  CacheInv'
<1>1. Cache(items, entry, index) /\ Len(items) <= CacheCapacity /\ recency = View(items, entry)
  BY Zenon DEF CacheInv
<1>2. i \in 1..Len(items) /\ items[i] = n /\ entry[n][1] = key /\ At(n) = i
  BY Zenon DEF Hit
<1>3. items' = <<items[i]>> \o Without(items, i)
  BY <1>2, Zenon DEF Touched
<1>4. entry'[items[i]] = <<entry[items[i]][1], value>>
  BY <1>2, Zenon
<1>5. /\ Cache(items', entry', index) /\ Len(items') = Len(items)
      /\ View(items', entry') = <<entry'[items[i]]>> \o Without(View(items, entry), i)
  <2>1. PICK s, e, m, f : s = items /\ e = entry /\ m = index /\ f = entry'
    BY Zenon
  <2>2. /\ Cache(s, e, m) /\ i \in 1..Len(s)
        /\ Agree(Without(s, i), e, f) /\ f[s[i]] = <<e[s[i]][1], value>>
    BY <1>1, <1>2, <1>4, <2>1, Zenon
  <2>3. /\ Cache(<<s[i]>> \o Without(s, i), f, m)
        /\ View(<<s[i]>> \o Without(s, i), f) = <<f[s[i]]>> \o Without(View(s, e), i)
        /\ Len(<<s[i]>> \o Without(s, i)) = Len(s)
    BY <2>2, CacheTouch, Zenon
  <2> QED
    BY <1>3, <2>1, <2>3, Zenon
<1>6. recency' = View(items', entry')
  <2>1. recency' = <<<<key, value>>>> \o Without(recency, i)
    BY RecallHit, Zenon
  <2>2. <<key, value>> = entry'[items[i]] /\ recency = View(items, entry)
    BY <1>1, <1>2, Zenon
  <2> QED
    BY <1>5, <2>1, <2>2, Zenon
<1> QED
  BY <1>1, <1>5, <1>6, Zenon DEF CacheInv, Typed

LEMMA GetStep ==
  ASSUME CacheInv, NEW key \in Keys, Get(key) PROVE CacheInv'
<1>a. PICK n, i : n = ValueOf(index, key) /\ i = At(n)
  BY Zenon
<1>0. HasKey(index, key) /\ Hit(key, n, i)
  BY <1>a, Hits, Zenon DEF Get
<1>1. /\ items' = Touched(n) /\ entry' = entry /\ index' = index /\ peak' = peak
      /\ recency' = Recall(key, entry[n][2])
  BY <1>a, Zenon DEF Get
<1>2. n \in Elems(items) /\ Cache(items, entry, index) /\ Typed(entry)
  <2>1. i \in 1..Len(items) /\ items[i] = n
    BY <1>0, Zenon DEF Hit
  <2> QED
    BY <2>1, Zenon DEF Elems, CacheInv, Typed
<1>3. entry[n][2] \in Values /\ entry[n] = <<key, entry[n][2]>>
  <2>1. entry[n][2] \in Values /\ entry[n] = <<entry[n][1], entry[n][2]>>
    BY <1>2, CacheKeys
  <2> QED
    BY <1>0, <2>1, Zenon DEF Hit
<1>4. Agree(Without(items, i), entry, entry')
  BY <1>1, Zenon DEF Agree
<1> QED
  BY <1>0, <1>1, <1>2, <1>3, <1>4, TouchStep, Zenon

LEMMA OverwriteStep ==
  ASSUME CacheInv, NEW key \in Keys, NEW value \in Values, PutOverwrites(key, value)
  PROVE  CacheInv'
<1>a. PICK n, i : n = ValueOf(index, key) /\ i = At(n)
  BY Zenon
<1>0. HasKey(index, key) /\ Hit(key, n, i)
  BY <1>a, Hits, Zenon DEF PutOverwrites
<1>1. /\ items' = Touched(n) /\ index' = index /\ peak' = peak
      /\ recency' = Recall(key, value) /\ entry' = [entry EXCEPT ![n] = <<entry[n][1], value>>]
  BY <1>a, Zenon DEF PutOverwrites
<1>2. /\ Typed(entry) /\ n \in Nodes /\ <<key, value>> \in Entries /\ entry[n][1] = key
      /\ items \in Seq(Nodes) /\ Inj(items) /\ i \in 1..Len(items) /\ items[i] = n
  BY <1>0, Zenon DEF Hit, CacheInv, Typed, Cache, Entries
<1>3. Typed(entry') /\ entry'[n] = <<key, value>> /\ \A p \in Nodes : p # n => entry'[p] = entry[p]
  BY <1>1, <1>2, Zenon DEF Typed
<1>4. Agree(Without(items, i), entry, entry')
  <2>1. Removed(items, i, Without(items, i)) /\ Elems(items) \subseteq Nodes
    <3>1. Elems(items) \subseteq Nodes
      BY <1>2 DEF Elems
    <3> QED
      BY <1>2, <3>1, Removal, Zenon
  <2> QED
    BY <1>2, <1>3, <2>1, Zenon DEF Agree, Removed
<1> QED
  BY <1>0, <1>1, <1>3, <1>4, TouchStep, Zenon

LEMMA CacheEraseStep ==
  ASSUME CacheInv, NEW key \in Keys, EraseKey(key) PROVE CacheInv'
<1>a. PICK n, i : n = ValueOf(index, key) /\ i = At(n)
  BY Zenon
<1>0. HasKey(index, key) /\ Hit(key, n, i)
  BY <1>a, Hits, Zenon DEF EraseKey
<1>1. /\ items' = Without(items, i) /\ index' = Erase(index, key) /\ peak' = peak
      /\ recency' = Forget(key) /\ entry' = [entry EXCEPT ![n] = <<>>]
  BY <1>a, Zenon DEF EraseKey
<1>2. /\ Typed(entry) /\ n \in Nodes /\ entry[n][1] = key
      /\ items \in Seq(Nodes) /\ Inj(items) /\ i \in 1..Len(items) /\ items[i] = n
      /\ Forget(key) = Without(recency, i)
  BY <1>0, Zenon DEF Hit, CacheInv, Typed, Cache
<1>3. Typed(entry') /\ \A p \in Nodes : p # n => entry'[p] = entry[p]
  BY <1>1, <1>2, Zenon DEF Typed
<1>4. Agree(Without(items, i), entry, entry')
  <2>1. Removed(items, i, Without(items, i)) /\ Elems(items) \subseteq Nodes
    <3>1. Elems(items) \subseteq Nodes
      BY <1>2 DEF Elems
    <3> QED
      BY <1>2, <3>1, Removal, Zenon
  <2> QED
    BY <1>2, <1>3, <2>1, Zenon DEF Agree, Removed
<1>5. /\ Cache(items, entry, index) /\ Len(items) <= CacheCapacity /\ recency = View(items, entry)
      /\ Bounded(index, peak)
  BY Zenon DEF CacheInv
<1>6. /\ Cache(items', entry', index') /\ recency' = View(items', entry')
      /\ Capacity(index') = Capacity(index)
  <2>1. Erase(index, entry[items[i]][1]) = index'
    BY <1>1, <1>2, Zenon
  <2> QED
    <3>1. PICK s, e, m, f : s = items /\ e = entry /\ m = index /\ f = entry'
      BY Zenon
    <3>2. Cache(s, e, m) /\ i \in 1..Len(s) /\ Agree(Without(s, i), e, f)
      BY <1>2, <1>4, <1>5, <3>1, Zenon
    <3>3. /\ Cache(Without(s, i), f, Erase(m, e[s[i]][1]))
          /\ View(Without(s, i), f) = Without(View(s, e), i)
          /\ Capacity(Erase(m, e[s[i]][1])) = Capacity(m)
      BY <3>2, CacheDrop
    <3> QED
      BY <1>1, <1>2, <1>5, <2>1, <3>1, <3>3, Zenon
<1>7. Len(items') = Len(items) - 1
  BY <1>1, <1>2, WithoutIs, Zenon DEF Lacks
<1>8. index'.size = Len(items') /\ index.size = Len(items) /\ Len(items) \in Nat
  BY <1>5, <1>6, RecencyIs, Zenon DEF Cache
<1>9. Len(items') <= CacheCapacity /\ index'.size <= peak
  <2>1. PICK a : a = Len(items)
    BY Zenon
  <2>2. a \in Nat /\ a <= CacheCapacity /\ a <= peak /\ peak \in Nat /\ Len(items') = a - 1
        /\ index'.size = a - 1 /\ CacheCapacity \in Nat
    BY <1>5, <1>7, <1>8, <2>1, CacheAssumption, Zenon DEF Bounded
  <2> QED
    BY <2>2
<1>10. Bounded(index', peak')
  BY <1>1, <1>5, <1>6, <1>9, Zenon DEF Bounded
<1> QED
  BY <1>3, <1>6, <1>9, <1>10, Zenon DEF CacheInv, Typed
(* What put() inserts the new key into: the cache with room for it. *)
Room(key, value, kept, found) ==
    /\ Cache(kept, entry, found) /\ Len(kept) < CacheCapacity /\ ~HasKey(found, key)
    /\ Capacity(found) = Capacity(index) /\ found.size <= peak
    /\ Recall(key, value) = <<<<key, value>>>> \o View(kept, entry)

LEMMA Evicting ==
  ASSUME CacheInv, NEW key \in Keys, NEW value \in Values, ~HasKey(index, key)
  PROVE  IF Len(items) = CacheCapacity
         THEN Room(key, value, Without(items, Len(items)), IndexWithoutVictim)
         ELSE Room(key, value, items, index)
<1>1. /\ Cache(items, entry, index) /\ Len(items) <= CacheCapacity /\ recency = View(items, entry)
      /\ Bounded(index, peak)
  BY Zenon DEF CacheInv
<1>2. /\ items \in Seq(Nodes) /\ Len(items) \in Nat /\ CacheCapacity \in Nat \ {0}
      /\ index.size = Len(items) /\ index.size <= peak /\ peak \in Nat
  BY <1>1, CacheAssumption, RecencyIs, Zenon DEF Cache, Bounded
<1>3. CASE Len(items) # CacheCapacity
  <2>1. Len(items) < CacheCapacity
    BY <1>1, <1>2, <1>3
  <2>2. Recall(key, value) = <<<<key, value>>>> \o View(items, entry)
    BY <1>1, <2>1, RecallMiss, Zenon
  <2>3. Room(key, value, items, index)
    BY <1>1, <1>2, <2>1, <2>2, Zenon DEF Room
  <2> QED
    BY <1>3, <2>3, Zenon
<1>4. CASE Len(items) = CacheCapacity
  <2>a. PICK i, w, r : i = Len(items) /\ w = Without(items, i) /\ r = IndexWithoutVictim
    BY Zenon
  <2>1. i \in 1..Len(items)
    BY <1>2, <1>4, <2>a
  <2>2. Agree(w, entry, entry)
    BY Zenon DEF Agree
  <2>3. Cache(w, entry, r) /\ View(w, entry) = Without(recency, i) /\ Capacity(r) = Capacity(index)
    <3>1. PICK s, e, m : s = items /\ e = entry /\ m = index
      BY Zenon
    <3>2. Cache(s, e, m) /\ i \in 1..Len(s) /\ Agree(Without(s, i), e, e)
      BY <1>1, <2>a, <2>1, <2>2, <3>1, Zenon
    <3>3. /\ Cache(Without(s, i), e, Erase(m, e[s[i]][1]))
          /\ View(Without(s, i), e) = Without(View(s, e), i)
          /\ Capacity(Erase(m, e[s[i]][1])) = Capacity(m)
      BY <3>2, CacheDrop
    <3> QED
      BY <1>1, <2>a, <3>1, <3>3, Zenon DEF IndexWithoutVictim
  <2>4. Len(w) = Len(items) - 1
    BY <1>2, <2>a, <2>1, WithoutIs, Zenon DEF Lacks
  <2>5. r.size = Len(w)
    BY <2>3, Zenon DEF Cache
  <2>6. Len(w) < CacheCapacity /\ r.size <= peak
    <3>1. PICK a : a = Len(items)
      BY Zenon
    <3>2. a \in Nat /\ a = CacheCapacity /\ a <= peak /\ peak \in Nat /\ Len(w) = a - 1 /\ r.size = a - 1
      BY <1>2, <1>4, <2>4, <2>5, <3>1, Zenon
    <3> QED
      BY <3>2
  <2>7. ~HasKey(r, key)
    <3>1. SUFFICES ASSUME HasKey(r, key) PROVE FALSE
      BY Zenon
    <3>2. Placed(r, Keys, Nodes) /\ Placed(index, Keys, Nodes) /\ Hash(key) \in Nat
      BY <1>1, <2>3, HashesKeys, Zenon DEF Cache, IsMap, Hashes
    <3>3. PICK n : n \in Nodes /\ Maps(r, key, n)
      BY <3>1, <3>2, Lookups, Zenon
    <3>4. n \in Elems(w) /\ entry[n][1] = key
      BY <2>3, <3>3, Zenon DEF Cache
    <3>5. n \in Elems(items)
      <4>1. Inj(items)
        BY <1>1, Zenon DEF Cache
      <4>2. Removed(items, i, Without(items, i))
        BY <1>2, <2>1, <4>1, Removal, Zenon
      <4> QED
        BY <2>a, <3>4, <4>2, Zenon DEF Removed
    <3>6. Maps(index, key, n)
      BY <1>1, <3>3, <3>4, <3>5, Zenon DEF Cache
    <3> QED
      BY <3>2, <3>6, Lookups, Zenon
  <2>8. Recall(key, value) = <<<<key, value>>>> \o View(w, entry)
    BY <1>4, <2>a, <2>3, RecallMiss, Zenon
  <2>9. Room(key, value, w, r)
    BY <2>3, <2>6, <2>7, <2>8, Zenon DEF Room
  <2> QED
    BY <1>4, <2>a, <2>9, Zenon
<1> QED
  BY <1>3, <1>4, Zenon

(* put() of a new key, into the cache with room for it. *)
LEMMA FillStep ==
  ASSUME CacheInv, NEW key \in Keys, NEW value \in Values, NEW kept, NEW found,
         Room(key, value, kept, found), NEW n \in Nodes, n \notin Elems(kept),
         items' = <<n>> \o kept,
         entry' = [m \in Nodes |-> IF m = n THEN <<key, value>>
                                   ELSE IF m \in Elems(kept) THEN entry[m] ELSE <<>>],
         index' = InsertOrAssign(found, key, n),
         recency' = Recall(key, value), peak' = IF index'.size > peak THEN index'.size ELSE peak
  PROVE  CacheInv'
<1>0. /\ Cache(kept, entry, found) /\ Len(kept) < CacheCapacity /\ ~HasKey(found, key)
      /\ Capacity(found) = Capacity(index) /\ found.size <= peak
      /\ Recall(key, value) = <<<<key, value>>>> \o View(kept, entry)
  BY Zenon DEF Room
<1>1. /\ kept \in Seq(Nodes) /\ found.size = Len(kept) /\ \A m \in Elems(kept) : entry[m] \in Entries
  BY <1>0, Zenon DEF Cache
<1>2. Elems(kept) \subseteq Nodes /\ <<key, value>> \in Entries /\ Len(kept) \in Nat
  BY <1>1 DEF Elems, Entries
<1>3. Typed(entry') /\ entry'[n] = <<key, value>> /\ \A m \in Elems(kept) : entry'[m] = entry[m]
  <2>1. ASSUME NEW m \in Nodes PROVE entry'[m] \in {<<>>} \cup Entries
    BY <1>1, <1>2, Zenon
  <2>2. Typed(entry')
    BY <2>1, Zenon DEF Typed
  <2>3. ASSUME NEW m \in Elems(kept) PROVE entry'[m] = entry[m]
    BY <1>2, Zenon
  <2> QED
    BY <2>2, <2>3, Zenon
<1>4. /\ Cache(items', entry', index') /\ recency' = View(items', entry') /\ Grows(found, index')
  <2>1. PICK e, f : e = entry /\ f = entry'
    BY Zenon
  <2>2. Cache(kept, e, found) /\ Agree(kept, e, f) /\ f[n] = <<key, value>>
    BY <1>0, <1>3, <2>1, Zenon DEF Agree
  <2>3. /\ Cache(<<n>> \o kept, f, InsertOrAssign(found, key, n))
        /\ View(<<n>> \o kept, f) = <<<<key, value>>>> \o View(kept, e)
        /\ Grows(found, InsertOrAssign(found, key, n))
    BY <1>0, <2>2, CacheAdd, Zenon
  <2> QED
    BY <1>0, <2>1, <2>3, Zenon
<1>5. Len(items') = Len(kept) + 1
  BY <1>1, ConsIs, Zenon DEF Leads
<1>6. index'.size = Len(kept) + 1
  BY <1>4, <1>5, Zenon DEF Cache
<1>7. /\ Bounded(index, peak) /\ MinCapacity \in Nat /\ Capacity(index) \in Nat /\ CacheCapacity \in Nat
  <2>1. Bounded(index, peak) /\ IsMap(index, Keys, Nodes)
    BY Zenon DEF CacheInv, Cache
  <2>2. Capacity(index) \in Nat
    BY <2>1, Array, Zenon DEF IsMap, Placed
  <2> QED
    BY <2>1, <2>2, HashAssumption, CacheAssumption, Zenon
<1>8. Len(items') <= CacheCapacity /\ Bounded(index', peak')
  <2>1. PICK a, b, c, d, p : /\ a = Len(kept) /\ b = Capacity(index) /\ c = Capacity(index')
                             /\ d = peak /\ p = peak'
    BY Zenon
  <2>2. /\ a \in Nat /\ b \in Nat /\ d \in Nat /\ a <= d /\ index'.size = a + 1 /\ a < CacheCapacity
        /\ p = IF a + 1 > d THEN a + 1 ELSE d
        /\ b = MinCapacity \/ b < 5 * (d + 1)
        /\ c = b \/ (c = 2 * b /\ (a + 1) * 10 > b * 4)
    BY <1>0, <1>1, <1>2, <1>4, <1>6, <1>7, <2>1, Zenon DEF Bounded, Grows
  <2>3. /\ a + 1 <= CacheCapacity /\ p \in Nat /\ a + 1 <= p
        /\ c = MinCapacity \/ c < 5 * (p + 1)
    <3>1. p \in Nat /\ a + 1 <= p /\ d <= p /\ a + 1 <= CacheCapacity
      BY <1>7, <2>2
    <3>2. CASE c = b
      BY <2>2, <3>1, <3>2
    <3>3. CASE c = 2 * b /\ (a + 1) * 10 > b * 4
      BY <2>2, <3>1, <3>3
    <3> QED
      BY <2>2, <3>1, <3>2, <3>3, Zenon
  <2> QED
    BY <1>5, <2>1, <2>2, <2>3, Zenon DEF Bounded
<1> QED
  BY <1>3, <1>4, <1>8, Zenon DEF CacheInv, Typed
LEMMA CacheInsertStep ==
  ASSUME CacheInv, NEW key \in Keys, NEW value \in Values, PutInserts(key, value)
  PROVE  CacheInv'
<1>1. PICK kept, found : Room(key, value, kept, found) /\ PushFront(key, value, kept, found)
  BY Evicting, Zenon DEF PutInserts
<1>2. {kept[i] : i \in DOMAIN kept} = Elems(kept)
  <2>1. kept \in Seq(Nodes)
    BY <1>1, Zenon DEF Room, Cache
  <2>2. DOMAIN kept = 1..Len(kept)
    BY <2>1
  <2> QED
    BY <2>2, Zenon DEF Elems
<1>3. PICK n \in Nodes \ Elems(kept) :
        /\ items' = <<n>> \o kept
        /\ entry' = [m \in Nodes |-> IF m = n THEN <<key, value>>
                                     ELSE IF m \in Elems(kept) THEN entry[m] ELSE <<>>]
        /\ index' = InsertOrAssign(found, key, n)
  BY <1>1, <1>2, Zenon DEF PushFront
<1>4. recency' = Recall(key, value) /\ peak' = IF index'.size > peak THEN index'.size ELSE peak
  BY Zenon DEF PutInserts
<1> QED
  BY <1>1, <1>3, <1>4, FillStep, Zenon

(* The cache after its construction and after clear(). *)
LEMMA EmptyCache ==
  /\ Cache(<<>>, [n \in Nodes |-> <<>>], EmptyMap) /\ Bounded(EmptyMap, 0)
  /\ Typed([n \in Nodes |-> <<>>]) /\ View(<<>>, [n \in Nodes |-> <<>>]) = <<>>
  /\ Len(<<>>) <= CacheCapacity
<1>1. MinCapacity \in Nat \ {0} /\ CacheCapacity \in Nat
  BY HashAssumption, CacheAssumption, Zenon
<1>2. /\ IsMap(EmptyMap, Keys, Nodes) /\ Capacity(EmptyMap) = MinCapacity /\ EmptyMap.size = 0
      /\ \A k, n : ~Maps(EmptyMap, k, n)
  BY <1>1, Blanks, Zenon DEF EmptyMap
<1>3. <<>> \in Seq(Nodes) /\ Len(<<>>) = 0 /\ Inj(<<>>) /\ Elems(<<>>) = {}
  BY DEF Inj, Elems
<1>4. Cache(<<>>, [n \in Nodes |-> <<>>], EmptyMap)
  BY <1>2, <1>3, Zenon DEF Cache
<1>5. Bounded(EmptyMap, 0)
  BY <1>2 DEF Bounded
<1>6. Typed([n \in Nodes |-> <<>>])
  BY Zenon DEF Typed
<1>7. View(<<>>, [n \in Nodes |-> <<>>]) = <<>>
  BY DEF View
<1>8. Len(<<>>) <= CacheCapacity
  BY <1>1, <1>3
<1> QED
  BY <1>4, <1>5, <1>6, <1>7, <1>8, Zenon

LEMMA CacheStarts == Init => CacheInv
<1> SUFFICES ASSUME Init PROVE CacheInv
  OBVIOUS
<1>1. /\ items = <<>> /\ entry = [n \in Nodes |-> <<>>] /\ index = EmptyMap
      /\ recency = <<>> /\ peak = 0
  BY Zenon DEF Init
<1> QED
  BY <1>1, EmptyCache, Zenon DEF CacheInv, Typed

LEMMA ClearStep == Clear => CacheInv'
<1> SUFFICES ASSUME Clear PROVE CacheInv'
  OBVIOUS
<1>1. /\ items' = <<>> /\ entry' = [n \in Nodes |-> <<>>] /\ index' = EmptyMap
      /\ recency' = <<>> /\ peak' = 0
  BY Zenon DEF Clear
<1> QED
  BY <1>1, EmptyCache, Zenon DEF CacheInv, Typed

LEMMA CacheStep == CacheInv /\ [Next]_vars => CacheInv'
<1> SUFFICES ASSUME CacheInv, [Next]_vars PROVE CacheInv'
  OBVIOUS
<1>1. CASE \E key \in Keys, value \in Values : PutOverwrites(key, value) \/ PutInserts(key, value)
  BY <1>1, OverwriteStep, CacheInsertStep, Zenon
<1>2. CASE \E key \in Keys : Get(key) \/ EraseKey(key)
  BY <1>2, GetStep, CacheEraseStep, Zenon
<1>3. CASE Clear
  BY <1>3, ClearStep, Zenon
<1>4. CASE UNCHANGED vars
  <2>1. items' = items /\ entry' = entry /\ index' = index /\ recency' = recency /\ peak' = peak
    BY <1>4, Zenon DEF vars
  <2> QED
    BY <2>1, Zenon DEF CacheInv
<1> QED
  BY <1>1, <1>2, <1>3, <1>4, Zenon DEF Next

-----------------------------------------------------------------------------
(* The invariant holds: after any sequence of put(), get(), erase() and     *)
(* clear() the list and the index describe the same entries.                *)
THEOREM CacheInvariant == Spec => []CacheInv
<1>1. Init => CacheInv
  BY CacheStarts, Zenon
<1>2. CacheInv /\ [Next]_vars => CacheInv'
  BY CacheStep, Zenon
<1> QED
  BY <1>1, <1>2, PTL DEF Spec

(* List and index stay in step, for every capacity and every hash function: *)
(* no iterator in the index is stale, and size_ and used_ count the slots.  *)
THEOREM CacheIndex == Spec => []IndexIsInStep
<1>1. CacheInv => IndexIsInStep
  <2> SUFFICES ASSUME CacheInv PROVE IndexIsInStep
    OBVIOUS
  <2>1. Cache(items, entry, index) /\ DOMAIN items = 1..Len(items)
    BY RecencyIs, Zenon DEF CacheInv
  <2>2. /\ index.size = Cardinality(OccupiedSlots(index)) /\ index.size = Len(items)
        /\ index.used = Cardinality(UsedSlots(index))
    BY <2>1, Zenon DEF Cache, IsMap, Counted
  <2>3. ASSUME NEW key \in Keys, HasKey(index, key)
        PROVE  InList(ValueOf(index, key)) /\ entry[ValueOf(index, key)][1] = key
    <3>1. PICK n, i : n = ValueOf(index, key) /\ Hit(key, n, i)
      BY <2>3, Hits, Zenon
    <3> QED
      BY <2>1, <3>1, Zenon DEF Hit, InList
  <2>4. ASSUME NEW key \in Keys, NEW i \in DOMAIN items, entry[items[i]][1] = key
        PROVE  HasKey(index, key)
    <3>1. PICK n : n = items[i] /\ n \in Elems(items)
      BY <2>1, Zenon DEF Elems
    <3>2. HasKey(index, entry[n][1])
      BY <2>1, <3>1, CacheKeys, Zenon
    <3> QED
      BY <2>4, <3>1, <3>2, Zenon
  <2>5. ASSUME NEW key \in Keys, HasKey(index, key)
        PROVE  \E i \in DOMAIN items : entry[items[i]][1] = key
    BY <2>3, <2>5, Zenon DEF InList
  <2> QED
    BY <2>2, <2>3, <2>4, <2>5, Zenon DEF IndexIsInStep
<1> QED
  BY <1>1, CacheInvariant, PTL

(* It is a LRU cache, for every capacity: the history is kept by the        *)
(* definition of least recently used, the list by the code's splices.       *)
THEOREM CacheRecency == Spec => []HoldsTheMostRecent
<1>1. CacheInv => HoldsTheMostRecent
  <2> SUFFICES ASSUME CacheInv PROVE HoldsTheMostRecent
    OBVIOUS
  <2>1. DOMAIN items = 1..Len(items) /\ recency = View(items, entry)
    BY RecencyIs, Zenon DEF CacheInv
  <2> QED
    BY <2>1, Zenon DEF HoldsTheMostRecent, View
<1> QED
  BY <1>1, CacheInvariant, PTL

(* Every probe sequence ends, for every hash function and however many      *)
(* tombstones there are: place() keeps an EMPTY slot.                       *)
THEOREM CacheProbing == Spec => []ProbingEnds
<1>1. CacheInv => ProbingEnds
  <2> SUFFICES ASSUME CacheInv, NEW key \in Keys
               PROVE  \E n \in 0..Capacity(index) - 1 : index.slots[Probe(index, key, n)] = EMPTY
    BY Zenon DEF ProbingEnds
  <2>1. Shape(index, Keys, Nodes) /\ index.used < Capacity(index) /\ Hash(key) \in Nat
        /\ index.used = Cardinality(UsedSlots(index))
    BY HashesKeys, Zenon DEF CacheInv, Cache, IsMap, Placed, Counted, Hashes
  <2>2. Cardinality(UsedSlots(index)) < Capacity(index)
    BY <2>1, Zenon
  <2> QED
    BY <2>1, <2>2, EmptySlotAhead, Zenon
<1> QED
  BY <1>1, CacheInvariant, PTL

(* The index does not grow by churn: the bound is in the entries held at    *)
(* once, for any number of calls.                                           *)
THEOREM CacheGrowth == Spec => []ChurnDoesNotGrow
<1>1. CacheInv => ChurnDoesNotGrow
  BY Zenon DEF CacheInv, Bounded, ChurnDoesNotGrow
<1> QED
  BY <1>1, CacheInvariant, PTL
=============================================================================
