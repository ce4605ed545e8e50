------------------------- MODULE ConcurrencyProofs -------------------------
(***************************************************************************)
(* Two primitives of src/concurrency and include/concurrency, one built    *)
(* from atomics and one from a mutex: the lock-free queue and the readers- *)
(* writer lock.  The parts are independent of each other.                  *)
(***************************************************************************)
EXTENDS LockFreeQueue, RWLock, FiniteSetTheorems, TLAPS

(***************************************************************************)
(* The multi-producer single-consumer queue is a FIFO and follows no       *)
(* dangling pointer, for any number of producers, nodes and pushes.        *)
(*                                                                         *)
(* What pop() and the destructor walk is the list of next pointers, which  *)
(* has a gap wherever a producer is between its exchange and its link.     *)
(* The invariant therefore speaks about the nodes in the order of the      *)
(* exchanges (the history variable chain): each of them is linked to its   *)
(* successor, or the one producer that has exchanged the successor in is   *)
(* about to link it (Linked, Linking).  So a node in front of a gap has no *)
(* next pointer, pop() stops there, and the node that a producer is going  *)
(* to write to is not deleted although other nodes are, and their          *)
(* addresses reused (Separate).                                            *)
(***************************************************************************)
QueueTypeOK ==
    /\ heap \in SUBSET Nodes
    /\ next \in [Nodes -> Nodes \cup {Null}]
    /\ value \in [Nodes -> Nat]
    /\ head \in Nodes /\ tail \in Nodes
    /\ ppc \in [Producers -> {"idle", "exchange", "link"}]
    /\ node \in [Producers -> Nodes \cup {Null}]
    /\ prev \in [Producers -> Nodes \cup {Null}]
    /\ seen \in Nodes \cup {Null} /\ cursor \in Nodes \cup {Null}
    /\ life \in {"alive", "dying", "dead"}
    /\ pushes \in Nat
    /\ order \in Seq(Nat) /\ popped \in Seq(Nat)
    /\ chain \in Seq(Nodes)

(* The allocated nodes: those of the chain, each there once, and those that *)
(* a producer has not yet exchanged in.                                     *)
Distinct ==
    /\ \A i, j \in 1..Len(chain) : chain[i] = chain[j] => i = j
    /\ \A i \in 1..Len(chain) : chain[i] \in heap

Private ==
    \A p \in Producers : ppc[p] = "exchange" =>
        /\ node[p] \in heap /\ next[node[p]] = Null
        /\ \A i \in 1..Len(chain) : chain[i] # node[p]
        /\ \A q \in Producers : ppc[q] = "exchange" /\ node[q] = node[p] => p = q

NoneLeaks ==
    \A n \in heap : \/ \E i \in 1..Len(chain) : chain[i] = n
                    \/ \E p \in Producers : ppc[p] = "exchange" /\ node[p] = n

Separate == Distinct /\ Private /\ NoneLeaks

(* Producer p is to link the i-th node of the chain to its successor. *)
Links(p, i) == ppc[p] = "link" /\ prev[p] = chain[i] /\ node[p] = chain[i + 1]

Linked ==
    /\ \A i \in 1..(Len(chain) - 1) :
          \/ next[chain[i]] = chain[i + 1]
          \/ next[chain[i]] = Null /\ \E p \in Producers : Links(p, i)
    /\ chain # <<>> => next[chain[Len(chain)]] = Null

Linking ==
    /\ \A p \in Producers : ppc[p] = "link" =>
          \E i \in 1..(Len(chain) - 1) : Links(p, i) /\ next[chain[i]] = Null
    /\ \A p, q \in Producers : ppc[p] = "link" /\ ppc[q] = "link" /\ node[p] = node[q] => p = q

(* The pointers of the queue itself. *)
Ends ==
    /\ life = "alive" =>
          /\ Len(chain) > 0 /\ head = chain[1] /\ tail = chain[Len(chain)]
          /\ cursor = Null
          /\ seen # Null => Len(chain) > 1 /\ next[head] = seen
    /\ life # "alive" => seen = Null /\ \A p \in Producers : ppc[p] = "idle"
    /\ life = "dying" => cursor = IF chain = <<>> THEN Null ELSE chain[1]
    /\ life = "dead" => chain = <<>> /\ cursor = Null

(* What was popped, followed by what the chain holds, was exchanged in. *)
Items ==
    /\ Len(popped) <= Len(order)
    /\ \A k \in 1..Len(popped) : popped[k] = order[k]
    /\ life = "alive" =>
          /\ Len(order) + 1 = Len(popped) + Len(chain)
          /\ \A i \in 2..Len(chain) : value[chain[i]] = order[Len(popped) + i - 1]

QueueInv == QueueTypeOK /\ Separate /\ Linked /\ Linking /\ Ends /\ Items

-----------------------------------------------------------------------------
LEMMA QueueInitStep == QueueInit => QueueInv
<1> SUFFICES ASSUME QueueInit PROVE QueueInv
  OBVIOUS
<1>1. PICK stub \in Nodes :
        /\ heap = {stub} /\ head = stub /\ tail = stub /\ chain = <<stub>>
        /\ next = [n \in Nodes |-> Null] /\ value = [n \in Nodes |-> 0]
        /\ ppc = [p \in Producers |-> "idle"]
        /\ node = [p \in Producers |-> Null] /\ prev = [p \in Producers |-> Null]
        /\ seen = Null /\ cursor = Null /\ life = "alive" /\ pushes = 0
        /\ order = <<>> /\ popped = <<>>
  BY Zenon DEF QueueInit
<1>2. Len(chain) = 1 /\ chain[1] = stub /\ chain \in Seq(Nodes)
  BY <1>1
<1>3. order \in Seq(Nat) /\ popped \in Seq(Nat) /\ Len(order) = 0 /\ Len(popped) = 0
  BY <1>1
<1>4. QueueTypeOK
  BY <1>1, <1>2, <1>3, Zenon DEF QueueTypeOK
<1>5. Separate
  BY <1>1, <1>2 DEF Separate, Distinct, Private, NoneLeaks
<1>6. Linked /\ Linking
  BY <1>1, <1>2 DEF Linked, Linking
<1>7. Ends
  BY <1>1, <1>2 DEF Ends
<1>8. Items
  BY <1>1, <1>2, <1>3 DEF Items
<1> QED
  BY <1>4, <1>5, <1>6, <1>7, <1>8, Zenon DEF QueueInv

(* push() allocates a node nobody else knows. *)
LEMMA AllocatesStep ==
  ASSUME QueueInv, NEW p \in Producers, PushAllocates(p) PROVE QueueInv'
<1> USE QueueAssumption DEF QueueInv
<1>1. PICK n \in Nodes \ heap :
        /\ heap' = heap \cup {n}
        /\ value' = [value EXCEPT ![n] = pushes']
        /\ next' = [next EXCEPT ![n] = Null]
        /\ node' = [node EXCEPT ![p] = n]
  BY Zenon DEF PushAllocates
<1>2. /\ life = "alive" /\ ppc[p] = "idle" /\ pushes' = pushes + 1
      /\ ppc' = [ppc EXCEPT ![p] = "exchange"]
      /\ UNCHANGED <<head, tail, prev, seen, cursor, life, order, popped, chain>>
  BY Zenon DEF PushAllocates
<1>3. \A i \in 1..Len(chain) : /\ chain[i] \in Nodes /\ chain[i] # n
                               /\ next'[chain[i]] = next[chain[i]]
                               /\ value'[chain[i]] = value[chain[i]]
  BY <1>1 DEF QueueTypeOK, Separate, Distinct
<1>4. /\ \A q \in Producers : q # p => ppc'[q] = ppc[q] /\ node'[q] = node[q]
      /\ ppc'[p] = "exchange" /\ node'[p] = n
  BY <1>1, <1>2, Zenon DEF QueueTypeOK
<1>5. QueueTypeOK'
  BY <1>1, <1>2 DEF QueueTypeOK
<1>6. Separate'
  <2>1. \A q \in Producers : ppc[q] = "exchange" => node[q] # n /\ q # p /\ next'[node[q]] = next[node[q]]
    BY <1>1, <1>2, Zenon DEF Separate, Distinct, Private, QueueTypeOK
  <2>2. next'[n] = Null
    BY <1>1, Zenon DEF QueueTypeOK
  <2>3. \A m \in heap' : \/ \E i \in 1..Len(chain) : chain[i] = m
                         \/ \E q \in Producers : ppc'[q] = "exchange" /\ node'[q] = m
    BY <1>1, <1>4, <2>1 DEF Separate, NoneLeaks
  <2> QED
    BY <1>1, <1>2, <1>3, <1>4, <2>1, <2>2, <2>3 DEF Separate, Distinct, Private, NoneLeaks
<1>7. \A q \in Producers, i \in 1..(Len(chain) - 1) : Links(q, i)' <=> Links(q, i)
  BY <1>2, <1>4, Zenon DEF Links
<1>8. Linked' /\ Linking'
  <2>1. Len(chain) \in Nat
    BY DEF QueueTypeOK
  <2>2. Linked'
    <3>1. \A i \in 1..(Len(chain) - 1) : i \in 1..Len(chain)
      BY <2>1
    <3>2. chain # <<>> => Len(chain) \in 1..Len(chain)
      BY DEF QueueTypeOK
    <3> QED
      BY <1>2, <1>3, <1>7, <3>1, <3>2, Zenon DEF Linked
  <2>3. Linking'
    <3>1. \A i \in 1..(Len(chain) - 1) : i \in 1..Len(chain)
      BY <2>1
    <3> QED
      BY <1>2, <1>3, <1>4, <1>7, <3>1 DEF Linking
  <2> QED
    BY <2>2, <2>3, Zenon
<1>9. Ends'
  <2>1. Len(chain) > 0 => 1 \in 1..Len(chain)
    BY DEF QueueTypeOK
  <2> QED
    BY <1>2, <1>3, <2>1, Zenon DEF Ends
<1>10. Items'
  <2>1. \A i \in 2..Len(chain) : i \in 1..Len(chain)
    BY DEF QueueTypeOK
  <2> QED
    BY <1>2, <1>3, <2>1, Zenon DEF Items
<1> QED
  BY <1>5, <1>6, <1>8, <1>9, <1>10, Zenon

(* The exchange puts the node at the end of the chain and opens a gap in    *)
(* front of it.                                                             *)
LEMMA ExchangesStep ==
  ASSUME QueueInv, NEW p \in Producers, PushExchanges(p) PROVE QueueInv'
<1> USE QueueAssumption DEF QueueInv
<1>0. PICK L \in Nat : L = Len(chain)
  BY DEF QueueTypeOK
<1>1. /\ ppc[p] = "exchange" /\ life = "alive"
      /\ prev' = [prev EXCEPT ![p] = tail] /\ tail' = node[p]
      /\ order' = Append(order, value[node[p]]) /\ chain' = Append(chain, node[p])
      /\ ppc' = [ppc EXCEPT ![p] = "link"]
      /\ UNCHANGED <<heap, next, value, head, node, seen, cursor, life, pushes, popped>>
  BY Zenon DEF PushExchanges, Ends
<1>2. /\ node[p] \in Nodes /\ node[p] \in heap /\ next[node[p]] = Null
      /\ \A i \in 1..L : chain[i] # node[p]
  BY <1>0, <1>1, Zenon DEF Separate, Distinct, Private, QueueTypeOK
<1>3. /\ L \in Nat /\ L > 0 /\ Len(chain') = L + 1 /\ chain' \in Seq(Nodes)
      /\ chain'[L + 1] = node[p]
      /\ \A i \in 1..L : chain'[i] = chain[i] /\ chain[i] \in Nodes
  BY <1>0, <1>1, <1>2 DEF QueueTypeOK, Ends
<1>4. /\ \A q \in Producers : q # p => ppc'[q] = ppc[q] /\ prev'[q] = prev[q]
      /\ ppc'[p] = "link" /\ prev'[p] = chain[L]
  BY <1>0, <1>1, Zenon DEF QueueTypeOK, Ends
<1>5. QueueTypeOK'
  <2>1. value[node[p]] \in Nat
    BY <1>2, Zenon DEF QueueTypeOK
  <2>2. order' \in Seq(Nat)
    BY <1>1, <2>1 DEF QueueTypeOK
  <2> QED
    BY <1>1, <1>2, <1>3, <2>2, Zenon DEF QueueTypeOK
<1>6. Separate'
  <2>1. \A i, j \in 1..(L + 1) : chain'[i] = chain'[j] => i = j
    <3> SUFFICES ASSUME NEW i \in 1..(L + 1), NEW j \in 1..(L + 1), chain'[i] = chain'[j]
                 PROVE  i = j
      OBVIOUS
    <3>1. CASE i \in 1..L /\ j \in 1..L
      BY <1>0, <1>3, <3>1, Zenon DEF Separate, Distinct
    <3>2. CASE i = L + 1 \/ j = L + 1
      BY <1>2, <1>3, <3>2
    <3> QED
      BY <1>3, <3>1, <3>2
  <2>2. \A i \in 1..(L + 1) : chain'[i] \in heap
    BY <1>0, <1>2, <1>3 DEF Separate, Distinct
  <2>3. ASSUME NEW q \in Producers, ppc'[q] = "exchange"
        PROVE  /\ node[q] \in heap /\ next[node[q]] = Null
               /\ \A i \in 1..(L + 1) : chain'[i] # node[q]
               /\ \A r \in Producers : ppc'[r] = "exchange" /\ node[r] = node[q] => q = r
    <3>1. q # p /\ ppc[q] = "exchange"
      BY <1>4, <2>3, Zenon
    <3>2. node[q] # node[p]
      BY <1>1, <3>1, Zenon DEF Separate, Private
    <3>3. \A i \in 1..(L + 1) : chain'[i] # node[q]
      BY <1>0, <1>3, <3>1, <3>2 DEF Separate, Private
    <3>4. \A r \in Producers : ppc'[r] = "exchange" => ppc[r] = "exchange"
      BY <1>4, Zenon
    <3> QED
      BY <3>1, <3>3, <3>4, Zenon DEF Separate, Private
  <2>4. ASSUME NEW n \in heap
        PROVE  \/ \E i \in 1..(L + 1) : chain'[i] = n
               \/ \E q \in Producers : ppc'[q] = "exchange" /\ node[q] = n
    <3>1. CASE \E i \in 1..L : chain[i] = n
      BY <1>3, <3>1
    <3>2. CASE n = node[p]
      BY <1>3, <3>2
    <3>3. CASE \E q \in Producers : q # p /\ ppc[q] = "exchange" /\ node[q] = n
      BY <1>4, <3>3, Zenon
    <3> QED
      BY <1>0, <3>1, <3>2, <3>3, Zenon DEF Separate, NoneLeaks
  <2>5. Distinct'
    BY <1>1, <1>3, <2>1, <2>2, Zenon DEF Distinct
  <2>6. Private'
    BY <1>1, <1>3, <2>3, Zenon DEF Private
  <2>7. NoneLeaks'
    BY <1>1, <1>3, <2>4, Zenon DEF NoneLeaks
  <2> QED
    BY <2>5, <2>6, <2>7, Zenon DEF Separate
<1>7. \A q \in Producers, i \in 1..(L - 1) : Links(q, i) => Links(q, i)'
  BY <1>1, <1>3, <1>4 DEF Links
<1>8. Links(p, L)'
  BY <1>1, <1>3, <1>4 DEF Links
<1>9. next[chain[L]] = Null
  BY <1>0, <1>3 DEF Linked
<1>10. Linked'
  <2>1. ASSUME NEW i \in 1..L
        PROVE  \/ next'[chain'[i]] = chain'[i + 1]
               \/ next'[chain'[i]] = Null /\ \E q \in Producers : Links(q, i)'
    <3>1. CASE i = L
      BY <1>1, <1>3, <1>8, <1>9, <3>1, Zenon
    <3>2. CASE i # L
      <4>1. i \in 1..(L - 1) /\ i + 1 \in 1..L
        BY <1>3, <3>2
      <4> QED
        BY <1>0, <1>1, <1>3, <1>7, <4>1 DEF Linked
    <3> QED
      BY <3>1, <3>2, Zenon
  <2>2. Len(chain') - 1 = L /\ next'[chain'[Len(chain')]] = Null
    BY <1>1, <1>2, <1>3
  <2> QED
    BY <2>1, <2>2, Zenon DEF Linked
<1>11. Linking'
  <2>1. ASSUME NEW q \in Producers, ppc'[q] = "link"
        PROVE  \E i \in 1..L : Links(q, i)' /\ next'[chain'[i]] = Null
    <3>1. CASE q = p
      BY <1>1, <1>3, <1>8, <1>9, <3>1
    <3>2. CASE q # p
      <4>1. PICK i \in 1..(L - 1) : Links(q, i) /\ next[chain[i]] = Null
        BY <1>0, <1>4, <2>1, <3>2, Zenon DEF Linking
      <4>2. i \in 1..L
        BY <1>3
      <4> QED
        BY <1>1, <1>3, <1>7, <4>1, <4>2, Zenon
    <3> QED
      BY <3>1, <3>2, Zenon
  <2>2. ASSUME NEW q \in Producers, q # p, ppc'[q] = "link" PROVE node[q] # node[p]
    <3>1. PICK i \in 1..(L - 1) : node[q] = chain[i + 1]
      BY <1>0, <1>4, <2>2 DEF Linking, Links
    <3>2. i + 1 \in 1..L
      BY <1>3
    <3> QED
      BY <1>0, <1>2, <3>1, <3>2, Zenon
  <2>3. \A q, r \in Producers :
          ppc'[q] = "link" /\ ppc'[r] = "link" /\ node[q] = node[r] => q = r
    BY <1>4, <2>2 DEF Linking
  <2>4. Len(chain') - 1 = L /\ node' = node
    BY <1>1, <1>3
  <2> QED
    BY <2>1, <2>3, <2>4, Zenon DEF Linking
<1>12. Ends'
  BY <1>0, <1>1, <1>3 DEF Ends
<1>13. Items'
  <2>1. /\ Len(order) \in Nat /\ Len(popped) \in Nat /\ Len(order') = Len(order) + 1
        /\ Len(order) + 1 = Len(popped) + L
        /\ order'[Len(order) + 1] = value[node[p]]
        /\ \A k \in 1..Len(order) : order'[k] = order[k]
    BY <1>0, <1>1, <1>2 DEF QueueTypeOK, Items
  <2>2. \A k \in 1..Len(popped) : popped[k] = order'[k]
    <3> TAKE k \in 1..Len(popped)
    <3>1. k \in 1..Len(order) /\ popped[k] = order[k]
      BY <2>1 DEF Items
    <3> QED
      BY <2>1, <3>1, Zenon
  <2>3. ASSUME NEW i \in 2..(L + 1) PROVE value[chain'[i]] = order'[Len(popped) + i - 1]
    <3>1. CASE i = L + 1
      <4>1. Len(popped) + i - 1 = Len(order) + 1
        BY <1>3, <2>1, <3>1
      <4> QED
        BY <1>3, <2>1, <3>1, <4>1, Zenon
    <3>2. CASE i # L + 1
      <4>1. i \in 2..L /\ i \in 1..L /\ Len(popped) + i - 1 \in 1..Len(order)
        BY <1>3, <2>1, <3>2
      <4> QED
        BY <1>0, <1>1, <1>3, <2>1, <4>1, SMTT(20) DEF Items
    <3> QED
      BY <3>1, <3>2, Zenon
  <2> QED
    BY <1>1, <1>3, <2>1, <2>2, <2>3, SMTT(20) DEF Items
<1> QED
  BY <1>5, <1>6, <1>10, <1>11, <1>12, <1>13, Zenon

(* The link closes the producer's own gap and no other. *)
LEMMA LinksStep ==
  ASSUME QueueInv, NEW p \in Producers, PushLinks(p) PROVE QueueInv'
<1> USE QueueAssumption DEF QueueInv
<1>0. PICK L \in Nat : L = Len(chain)
  BY DEF QueueTypeOK
<1>1. PICK i \in 1..(L - 1) : Links(p, i) /\ next[chain[i]] = Null
  BY <1>0, Zenon DEF PushLinks, Linking
<1>2. /\ ppc[p] = "link" /\ life = "alive"
      /\ next' = [next EXCEPT ![chain[i]] = chain[i + 1]]
      /\ ppc' = [ppc EXCEPT ![p] = "idle"]
      /\ node' = [node EXCEPT ![p] = Null] /\ prev' = [prev EXCEPT ![p] = Null]
      /\ UNCHANGED <<heap, value, head, tail, seen, cursor, life, pushes, order, popped, chain>>
  BY <1>1, Zenon DEF PushLinks, Ends, Links
<1>3. i \in 1..L /\ i + 1 \in 1..L /\ i # L
  OBVIOUS
<1>4. /\ \A j \in 1..L : chain[j] \in Nodes
      /\ \A j, k \in 1..L : chain[j] = chain[k] => j = k
  BY <1>0, Zenon DEF QueueTypeOK, Separate, Distinct
<1>5. /\ next'[chain[i]] = chain[i + 1]
      /\ \A n \in Nodes : n # chain[i] => next'[n] = next[n]
      /\ \A j \in 1..L : j # i => next'[chain[j]] = next[chain[j]]
  <2>1. chain[i] \in Nodes /\ next \in [Nodes -> Nodes \cup {Null}]
    BY <1>3, <1>4, Zenon DEF QueueTypeOK
  <2>2. /\ next'[chain[i]] = chain[i + 1]
        /\ \A n \in Nodes : n # chain[i] => next'[n] = next[n]
    BY <1>2, <2>1, Zenon
  <2> QED
    BY <1>3, <1>4, <2>2, Zenon
<1>6. /\ ppc'[p] = "idle"
      /\ \A q \in Producers : q # p => /\ ppc'[q] = ppc[q] /\ node'[q] = node[q]
                                      /\ prev'[q] = prev[q]
  BY <1>2, Zenon DEF QueueTypeOK
<1>7. QueueTypeOK'
  <2>1. next' \in [Nodes -> Nodes \cup {Null}]
    BY <1>2, <1>3, <1>4, Zenon DEF QueueTypeOK
  <2> QED
    BY <1>2, <2>1, Zenon DEF QueueTypeOK
<1>8. Separate'
  <2>1. Distinct'
    BY <1>2, Zenon DEF Separate, Distinct
  <2>2. \A q \in Producers : ppc'[q] = "exchange" => q # p /\ ppc[q] = "exchange"
    BY <1>6, Zenon
  <2>3. \A q \in Producers : ppc[q] = "exchange" => node[q] \in Nodes /\ node[q] # chain[i]
    BY <1>0, <1>3, Zenon DEF Separate, Private, QueueTypeOK
  <2>4. Private'
    BY <1>2, <1>5, <1>6, <2>2, <2>3 DEF Separate, Private
  <2>5. \A q \in Producers : ppc[q] = "exchange" => q # p
    BY <1>2, Zenon
  <2>6. NoneLeaks'
    BY <1>2, <1>6, <2>5 DEF Separate, NoneLeaks
  <2> QED
    BY <2>1, <2>4, <2>6, Zenon DEF Separate
<1>9. \A q \in Producers, j \in 1..(L - 1) : Links(q, j) /\ j # i => q # p /\ Links(q, j)'
  <2> TAKE q \in Producers, j \in 1..(L - 1)
  <2> HAVE Links(q, j) /\ j # i
  <2>1. j + 1 \in 1..L /\ j + 1 # i + 1
    BY <1>3
  <2>2. q # p
    BY <1>1, <1>3, <1>4, <2>1, Zenon DEF Links
  <2> QED
    BY <1>2, <1>6, <2>2, Zenon DEF Links
<1>10. Linked'
  <2>1. ASSUME NEW j \in 1..(L - 1)
        PROVE  \/ next'[chain[j]] = chain[j + 1]
               \/ next'[chain[j]] = Null /\ \E q \in Producers : Links(q, j)'
    <3>1. CASE j = i
      BY <1>5, <3>1, Zenon
    <3>2. CASE j # i
      <4>1. j \in 1..L
        OBVIOUS
      <4> QED
        BY <1>0, <1>5, <1>9, <3>2, <4>1, Zenon DEF Linked
    <3> QED
      BY <3>1, <3>2, Zenon
  <2>2. next'[chain[L]] = Null
    <3>1. L \in 1..L /\ next[chain[L]] = Null
      BY <1>0, <1>3 DEF Linked
    <3> QED
      BY <1>3, <1>5, <3>1, Zenon
  <2> QED
    BY <1>0, <1>2, <2>1, <2>2 DEF Linked
<1>11. Linking'
  <2>1. ASSUME NEW q \in Producers, ppc'[q] = "link"
        PROVE  \E j \in 1..(L - 1) : Links(q, j)' /\ next'[chain[j]] = Null
    <3>1. q # p /\ ppc[q] = "link"
      BY <1>6, <2>1, Zenon
    <3>2. PICK j \in 1..(L - 1) : Links(q, j) /\ next[chain[j]] = Null
      BY <1>0, <3>1, Zenon DEF Linking
    <3>3. j # i
      BY <1>1, <1>2, <3>1, <3>2 DEF Links, Linking
    <3>4. j \in 1..L
      OBVIOUS
    <3> QED
      BY <1>5, <1>9, <3>2, <3>3, <3>4, Zenon
  <2>2. \A q, r \in Producers :
          ppc'[q] = "link" /\ ppc'[r] = "link" /\ node'[q] = node'[r] => q = r
    BY <1>6 DEF Linking
  <2> QED
    BY <1>0, <1>2, <2>1, <2>2 DEF Linking
<1>12. Ends'
  <2>1. seen # Null => next'[head] = next[head]
    BY <1>1, <1>2, <1>5, Zenon DEF Ends, QueueTypeOK
  <2> QED
    BY <1>2, <2>1, Zenon DEF Ends
<1>13. Items'
  BY <1>2, Zenon DEF Items
<1> QED
  BY <1>7, <1>8, <1>10, <1>11, <1>12, <1>13, Zenon

(* The first node of the chain is deleted, by pop() or by the destructor,   *)
(* while no producer is to link it.                                         *)
LEMMA TailStep ==
  ASSUME QueueInv, chain # <<>>,
         \A p \in Producers : ppc[p] = "link" => prev[p] # chain[1],
         chain' = Tail(chain), heap' = heap \ {chain[1]},
         UNCHANGED <<next, ppc, node, prev>>
  PROVE  Separate' /\ Linked' /\ Linking'
<1> USE DEF QueueInv
<1>0. PICK L \in Nat : L = Len(chain)
  BY DEF QueueTypeOK
<1>1. /\ L > 0 /\ Len(chain') = L - 1 /\ chain' \in Seq(Nodes)
      /\ \A i \in 1..(L - 1) : chain'[i] = chain[i + 1] /\ i + 1 \in 1..L
  BY <1>0 DEF QueueTypeOK
<1>2. 1 \in 1..L /\ \A i \in 1..(L - 1) : chain[i + 1] # chain[1]
  BY <1>0, <1>1 DEF Separate, Distinct
<1>3. Separate'
  <2>1. \A i, j \in 1..(L - 1) : chain'[i] = chain'[j] => i = j
    <3> TAKE i, j \in 1..(L - 1)
    <3>1. chain[i + 1] = chain[j + 1] => i + 1 = j + 1
      BY <1>0, <1>1, Zenon DEF Separate, Distinct
    <3> QED
      BY <1>1, <3>1
  <2>2. \A i \in 1..(L - 1) : chain'[i] \in heap'
    BY <1>0, <1>1, <1>2 DEF Separate, Distinct
  <2>3. Distinct'
    BY <1>1, <2>1, <2>2, Zenon DEF Distinct
  <2>4. \A p \in Producers : ppc[p] = "exchange" =>
           node[p] \in heap' /\ \A i \in 1..(L - 1) : chain'[i] # node[p]
    BY <1>0, <1>1, <1>2 DEF Separate, Private
  <2>5. Private'
    BY <1>1, <2>4, Zenon DEF Separate, Private
  <2>6. ASSUME NEW n \in heap'
        PROVE  \/ \E i \in 1..(L - 1) : chain'[i] = n
               \/ \E p \in Producers : ppc[p] = "exchange" /\ node[p] = n
    <3>1. ASSUME NEW k \in 1..L, chain[k] = n PROVE \E i \in 1..(L - 1) : chain'[i] = n
      <4>1. k # 1
        BY <2>6, <3>1, Zenon
      <4>2. k - 1 \in 1..(L - 1) /\ chain'[k - 1] = chain[k]
        BY <1>1, <4>1
      <4> QED
        BY <3>1, <4>2, Zenon
    <3> QED
      BY <1>0, <2>6, <3>1, Zenon DEF Separate, NoneLeaks
  <2>7. NoneLeaks'
    BY <1>1, <2>6, Zenon DEF NoneLeaks
  <2> QED
    BY <2>3, <2>5, <2>7, Zenon DEF Separate
<1>4. \A p \in Producers, i \in 1..(L - 2) : Links(p, i + 1) => Links(p, i)'
  <2> TAKE p \in Producers, i \in 1..(L - 2)
  <2>1. i \in 1..(L - 1) /\ i + 1 \in 1..(L - 1)
    BY <1>1
  <2> QED
    BY <1>1, <2>1, Zenon DEF Links
<1>5. Linked'
  <2>1. ASSUME NEW i \in 1..(L - 2)
        PROVE  \/ next[chain'[i]] = chain'[i + 1]
               \/ next[chain'[i]] = Null /\ \E p \in Producers : Links(p, i)'
    <3>1. i \in 1..(L - 1) /\ i + 1 \in 1..(L - 1)
      BY <1>1
    <3>2. \/ next[chain[i + 1]] = chain[(i + 1) + 1]
          \/ next[chain[i + 1]] = Null /\ \E p \in Producers : Links(p, i + 1)
      BY <1>0, <3>1, Zenon DEF Linked
    <3> QED
      BY <1>1, <1>4, <3>1, <3>2, Zenon
  <2>2. chain' # <<>> => next[chain'[L - 1]] = Null
    <3> HAVE chain' # <<>>
    <3>1. L - 1 \in 1..(L - 1)
      BY <1>1
    <3>2. chain'[L - 1] = chain[L]
      BY <1>1, <3>1
    <3> QED
      BY <1>0, <3>2, Zenon DEF Linked
  <2>3. (L - 1) - 1 = L - 2
    OBVIOUS
  <2> QED
    BY <1>1, <2>1, <2>2, <2>3, Zenon DEF Linked
<1>6. Linking'
  <2>1. ASSUME NEW p \in Producers, ppc[p] = "link"
        PROVE  \E i \in 1..(L - 2) : Links(p, i)' /\ next[chain'[i]] = Null
    <3>1. PICK k \in 1..(L - 1) : Links(p, k) /\ next[chain[k]] = Null
      BY <1>0, <2>1, Zenon DEF Linking
    <3>2. k # 1
      BY <2>1, <3>1, Zenon DEF Links
    <3>3. PICK i \in 1..(L - 2) : i + 1 = k
      <4>1. k - 1 \in 1..(L - 2) /\ (k - 1) + 1 = k
        BY <3>2
      <4> QED
        BY <4>1, Zenon
    <3>4. i \in 1..(L - 1)
      OBVIOUS
    <3>5. chain'[i] = chain[k]
      BY <1>1, <3>3, <3>4, Zenon
    <3> QED
      BY <1>4, <3>1, <3>3, <3>5, Zenon
  <2>2. (L - 1) - 1 = L - 2
    OBVIOUS
  <2> QED
    BY <1>1, <2>1, <2>2, Zenon DEF Linking
<1> QED
  BY <1>3, <1>5, <1>6, Zenon

(* pop() takes the item of the second node and deletes the first. *)
LEMMA TakesStep == ASSUME QueueInv, PopTakes PROVE QueueInv'
<1> USE QueueAssumption DEF QueueInv
<1>0. PICK L \in Nat : L = Len(chain)
  BY DEF QueueTypeOK
<1>1. /\ life = "alive" /\ L > 1 /\ head = chain[1] /\ tail = chain[L] /\ cursor = Null
      /\ next[chain[1]] = seen /\ seen # Null
  BY <1>0, Zenon DEF PopTakes, Ends
<1>2. seen = chain[2] /\ seen \in Nodes
  <2>1. 1 \in 1..(L - 1) /\ 2 \in 1..L
    BY <1>1
  <2> QED
    BY <1>0, <1>1, <2>1 DEF Linked, QueueTypeOK
<1>3. /\ popped' = Append(popped, value[seen]) /\ value' = [value EXCEPT ![seen] = 0]
      /\ heap' = heap \ {chain[1]} /\ head' = seen /\ seen' = Null /\ chain' = Tail(chain)
      /\ UNCHANGED <<next, tail, ppc, node, prev, pushes, order, cursor, life>>
  BY <1>1, Zenon DEF PopTakes, producer
<1>4. /\ Len(chain') = L - 1 /\ chain' \in Seq(Nodes)
      /\ \A i \in 1..(L - 1) : chain'[i] = chain[i + 1]
  BY <1>0, <1>1, <1>3 DEF QueueTypeOK
<1>5. Separate' /\ Linked' /\ Linking'
  <2>1. \A p \in Producers : ppc[p] = "link" => prev[p] # chain[1]
    BY <1>1 DEF Linking, Links
  <2>2. chain # <<>>
    BY <1>0, <1>1
  <2> QED
    BY <1>3, <2>1, <2>2, TailStep, Zenon
<1>6. QueueTypeOK'
  <2>1. value[seen] \in Nat
    BY <1>2, Zenon DEF QueueTypeOK
  <2>2. popped' \in Seq(Nat) /\ value' \in [Nodes -> Nat]
    BY <1>2, <1>3, <2>1 DEF QueueTypeOK
  <2> QED
    BY <1>2, <1>3, <1>4, <2>2, Zenon DEF QueueTypeOK
<1>7. Ends'
  <2>1. 1 \in 1..(L - 1) /\ L - 1 \in 1..(L - 1) /\ L - 1 > 0
    BY <1>1
  <2>2. chain'[1] = chain[2] /\ chain'[L - 1] = chain[L]
    BY <1>4, <2>1
  <2> QED
    BY <1>1, <1>2, <1>3, <1>4, <2>1, <2>2, Zenon DEF Ends
<1>8. Items'
  <2>1. PICK P \in Nat : P = Len(popped)
    BY DEF QueueTypeOK
  <2>2. /\ Len(popped') = P + 1 /\ popped'[P + 1] = value[seen]
        /\ \A k \in 1..P : popped'[k] = popped[k]
        /\ Len(order) \in Nat /\ Len(order) + 1 = P + L /\ P + 1 <= Len(order)
    <3>1. popped \in Seq(Nat) /\ value[seen] \in Nat /\ popped' = Append(popped, value[seen])
      BY <1>2, <1>3, Zenon DEF QueueTypeOK
    <3>2. /\ Len(popped') = P + 1 /\ popped'[P + 1] = value[seen]
          /\ \A k \in 1..P : popped'[k] = popped[k]
      BY <2>1, <3>1
    <3>3. Len(order) \in Nat /\ Len(order) + 1 = P + L
      BY <1>0, <1>1, <2>1 DEF QueueTypeOK, Items
    <3> QED
      BY <1>1, <3>2, <3>3
  <2>3. value[seen] = order[P + 1]
    <3>1. 2 \in 2..L /\ P + 2 - 1 = P + 1
      BY <1>1
    <3> QED
      BY <1>0, <1>1, <1>2, <2>1, <3>1, Zenon DEF Items
  <2>4. \A k \in 1..(P + 1) : popped'[k] = order[k]
    <3> TAKE k \in 1..(P + 1)
    <3>1. CASE k \in 1..P
      BY <2>1, <2>2, <3>1, Zenon DEF Items
    <3>2. CASE k = P + 1
      BY <2>2, <2>3, <3>2, Zenon
    <3> QED
      BY <3>1, <3>2
  <2>5. ASSUME NEW i \in 2..(L - 1) PROVE value'[chain'[i]] = order[(P + 1) + i - 1]
    <3>1. i \in 1..(L - 1) /\ i + 1 \in 2..L /\ i + 1 \in 1..L /\ 2 \in 1..L /\ i + 1 # 2
      OBVIOUS
    <3>2. chain[i + 1] # seen /\ chain[i + 1] \in Nodes
      BY <1>0, <1>2, <3>1, Zenon DEF Separate, Distinct, QueueTypeOK
    <3>3. value'[chain'[i]] = value[chain[i + 1]]
      BY <1>3, <1>4, <3>1, <3>2, Zenon DEF QueueTypeOK
    <3>4. P + (i + 1) - 1 = (P + 1) + i - 1
      OBVIOUS
    <3>5. value[chain[i + 1]] = order[P + (i + 1) - 1]
      BY <1>0, <1>1, <2>1, <3>1, Zenon DEF Items
    <3> QED
      BY <3>3, <3>4, <3>5, Zenon
  <2>6. Len(order) + 1 = (P + 1) + (L - 1)
    BY <2>2
  <2> QED
    BY <1>3, <1>4, <2>2, <2>4, <2>5, <2>6, Zenon DEF Items
<1> QED
  BY <1>5, <1>6, <1>7, <1>8, Zenon

(* The destructor walks the chain, which has no gap by then. *)
LEMMA DeletesStep == ASSUME QueueInv, DestroyDeletes PROVE QueueInv'
<1> USE QueueAssumption DEF QueueInv
<1>0. PICK L \in Nat : L = Len(chain)
  BY DEF QueueTypeOK
<1>1. /\ life = "dying" /\ chain # <<>> /\ cursor = chain[1] /\ seen = Null
      /\ \A p \in Producers : ppc[p] = "idle"
  BY Zenon DEF DestroyDeletes, Ends
<1>2. /\ heap' = heap \ {chain[1]} /\ cursor' = next[chain[1]] /\ chain' = Tail(chain)
      /\ UNCHANGED <<next, value, head, tail, ppc, node, prev, pushes, order, seen, life, popped>>
  BY <1>1, Zenon DEF DestroyDeletes, producer
<1>3. /\ L > 0 /\ Len(chain') = L - 1 /\ chain' \in Seq(Nodes) /\ chain[1] \in Nodes
      /\ \A i \in 1..(L - 1) : chain'[i] = chain[i + 1]
  BY <1>0, <1>1, <1>2 DEF QueueTypeOK
<1>4. Separate' /\ Linked' /\ Linking'
  BY <1>1, <1>2, TailStep, Zenon
<1>5. QueueTypeOK'
  BY <1>2, <1>3, Zenon DEF QueueTypeOK
<1>6. cursor' = IF chain' = <<>> THEN Null ELSE chain'[1]
  <2>1. CASE L = 1
    <3>1. chain' = <<>>
      BY <1>3, <2>1
    <3>2. next[chain[1]] = Null
      BY <1>0, <1>1, <2>1, Zenon DEF Linked
    <3> QED
      BY <1>2, <3>1, <3>2, Zenon
  <2>2. CASE L # 1
    <3>1. 1 \in 1..(L - 1) /\ chain' # <<>>
      BY <1>3, <2>2
    <3>2. next[chain[1]] = chain[1 + 1]
      BY <1>0, <1>1, <3>1, Zenon DEF Linked, Links
    <3>3. chain'[1] = chain[1 + 1]
      BY <1>3, <3>1, Zenon
    <3> QED
      BY <1>2, <3>1, <3>2, <3>3, Zenon
  <2> QED
    BY <2>1, <2>2, Zenon
<1>7. Ends'
  BY <1>1, <1>2, <1>6, Zenon DEF Ends
<1>8. Items'
  BY <1>1, <1>2, Zenon DEF Items
<1> QED
  BY <1>4, <1>5, <1>7, <1>8, Zenon

LEMMA QueueNextStep == QueueInv /\ [QueueNext]_queueVars => QueueInv'
<1> SUFFICES ASSUME QueueInv, [QueueNext]_queueVars PROVE QueueInv'
  OBVIOUS
<1> USE QueueAssumption DEF QueueInv
(* The steps that change neither the nodes nor the producers. *)
<1>1. ASSUME UNCHANGED <<heap, next, value, head, tail, ppc, node, prev, pushes, order, popped, chain>>
      PROVE  Separate' /\ Linked' /\ Linking'
  <2>1. Separate'
    <3>1. Distinct' /\ NoneLeaks'
      BY <1>1, SMTT(20) DEF Separate, Distinct, NoneLeaks
    <3>2. Private'
      BY <1>1, Zenon DEF Separate, Private
    <3> QED
      BY <3>1, <3>2, Zenon DEF Separate
  <2>2. \A p \in Producers, i \in 1..(Len(chain) - 1) : Links(p, i)' <=> Links(p, i)
    BY <1>1, Zenon DEF Links
  <2>3. Linked' /\ Linking'
    BY <1>1, <2>2, Zenon DEF Linked, Linking
  <2> QED
    BY <2>1, <2>3, Zenon
<1>2. CASE PopLoads
  <2>1. Separate' /\ Linked' /\ Linking'
    BY <1>1, <1>2, Zenon DEF PopLoads, producer
  <2>2. next[head] \in Nodes
    BY <1>2, Zenon DEF PopLoads, QueueTypeOK
  <2>3. QueueTypeOK' /\ Items'
    BY <1>2, <2>2, Zenon DEF PopLoads, producer, QueueTypeOK, Items
  <2>4. Len(chain) > 1
    <3>1. Len(chain) \in Nat /\ Len(chain) > 0
      BY <1>2 DEF PopLoads, Ends, QueueTypeOK
    <3>2. Len(chain) # 1
      BY <1>2 DEF PopLoads, Ends, Linked
    <3> QED
      BY <3>1, <3>2
  <2>5. Ends'
    BY <1>2, <2>4, Zenon DEF PopLoads, producer, Ends
  <2> QED
    BY <2>1, <2>3, <2>5, Zenon
<1>3. CASE DestroyBegins
  <2>1. Separate' /\ Linked' /\ Linking'
    BY <1>1, <1>3, Zenon DEF DestroyBegins, producer
  <2>2. QueueTypeOK' /\ Items'
    BY <1>3, Zenon DEF DestroyBegins, producer, QueueTypeOK, Items
  <2>3. chain # <<>>
    BY <1>3 DEF DestroyBegins, Ends
  <2>4. Ends'
    BY <1>3, <2>3, Zenon DEF DestroyBegins, producer, Ends
  <2> QED
    BY <2>1, <2>2, <2>4, Zenon
<1>4. CASE DestroyEnds
  <2>1. Separate' /\ Linked' /\ Linking'
    BY <1>1, <1>4, Zenon DEF DestroyEnds, producer
  <2>2. QueueTypeOK' /\ Items'
    BY <1>4, Zenon DEF DestroyEnds, producer, QueueTypeOK, Items
  <2>3. chain = <<>>
    <3>1. chain # <<>> => chain[1] \in Nodes
      BY DEF QueueTypeOK
    <3> QED
      BY <1>4, <3>1, Zenon DEF DestroyEnds, Ends
  <2>4. Ends'
    BY <1>4, <2>3, Zenon DEF DestroyEnds, producer, Ends
  <2> QED
    BY <2>1, <2>2, <2>4, Zenon
<1>5. CASE UNCHANGED queueVars
  <2>1. Separate' /\ Linked' /\ Linking'
    BY <1>1, <1>5, Zenon DEF queueVars
  <2>2. QueueTypeOK'
    BY <1>5, Zenon DEF queueVars, QueueTypeOK
  <2>3. Items' /\ Ends'
    BY <1>5, Zenon DEF queueVars, Items, Ends
  <2> QED
    BY <2>1, <2>2, <2>3, Zenon
<1> QED
  BY <1>2, <1>3, <1>4, <1>5, AllocatesStep, ExchangesStep, LinksStep, TakesStep,
     DeletesStep, Zenon
  DEF QueueNext, PopFindsNothing, Dead

-----------------------------------------------------------------------------
(* The bookkeeping of LockFreeQueue.hpp, chain and gaps included, is an     *)
(* invariant of every queue.                                                *)
THEOREM QueueInvariant == QueueSpec => []QueueInv
BY QueueInitStep, QueueNextStep, PTL DEF QueueSpec

(* pop() returns the items in the order of the exchanges of tail_, none     *)
(* lost, none twice, for any number of producers.                           *)
THEOREM QueueFIFO == QueueSpec => []PopsInExchangeOrder
<1>1. QueueInv => PopsInExchangeOrder
  <2> SUFFICES ASSUME QueueInv PROVE PopsInExchangeOrder
    OBVIOUS
  <2>1. PICK P \in Nat : P = Len(popped)
    BY DEF QueueInv, QueueTypeOK
  <2>2. /\ popped \in Seq(Nat) /\ order \in Seq(Nat) /\ P <= Len(order)
        /\ \A k \in 1..P : popped[k] = order[k]
    BY <2>1, Zenon DEF QueueInv, QueueTypeOK, Items
  <2>3. popped = SubSeq(order, 1, P)
    BY <2>1, <2>2
  <2> QED
    BY <2>1, <2>2, <2>3, Zenon DEF PopsInExchangeOrder
<1> QED
  BY QueueInvariant, <1>1, PTL

(* Every pointer that push(), pop() or the destructor is about to follow    *)
(* names an allocated node, and the destructor leaves none allocated.       *)
THEOREM QueueNoDanglingPointer == QueueSpec => []NodesAreOwned
<1>1. QueueInv => NodesAreOwned
  <2> SUFFICES ASSUME QueueInv PROVE NodesAreOwned
    OBVIOUS
  <2> USE QueueAssumption DEF QueueInv
  <2>0. PICK L \in Nat : L = Len(chain)
    BY DEF QueueTypeOK
  <2>1. \A i \in 1..L : chain[i] \in heap /\ chain[i] \in Nodes
    BY <2>0, Zenon DEF Separate, Distinct, QueueTypeOK
  <2>2. life = "dead" => heap = {}
    BY DEF Ends, Separate, NoneLeaks
  <2>3. life = "alive" => head \in heap /\ tail \in heap
    BY <2>0, <2>1 DEF Ends
  <2>4. \A p \in Producers : ppc[p] = "exchange" => node[p] \in heap
    BY Zenon DEF Separate, Private
  <2>5. \A p \in Producers : ppc[p] = "link" => {node[p], prev[p]} \subseteq heap
    <3> TAKE p \in Producers
    <3> HAVE ppc[p] = "link"
    <3>1. PICK i \in 1..(L - 1) : prev[p] = chain[i] /\ node[p] = chain[i + 1]
      BY <2>0, Zenon DEF Linking, Links
    <3>2. i \in 1..L /\ i + 1 \in 1..L
      OBVIOUS
    <3> QED
      BY <2>1, <3>1, <3>2, Zenon
  <2>6. seen # Null => seen \in heap
    <3> HAVE seen # Null
    <3>1. life = "alive" /\ L > 1 /\ next[chain[1]] = seen
      BY <2>0, Zenon DEF Ends, QueueTypeOK
    <3>2. 1 \in 1..(L - 1) /\ 1 + 1 \in 1..L
      BY <3>1
    <3> QED
      BY <2>0, <2>1, <3>1, <3>2, Zenon DEF Linked
  <2>7. cursor # Null => cursor \in heap
    <3>1. chain # <<>> => 1 \in 1..L
      BY <2>0 DEF QueueTypeOK
    <3> QED
      BY <2>1, <3>1 DEF Ends, QueueTypeOK
  <2> QED
    BY <2>2, <2>3, <2>4, <2>5, <2>6, <2>7, Zenon DEF NodesAreOwned
<1> QED
  BY QueueInvariant, <1>1, PTL

(* pop() and empty() find nothing in a queue that holds items only while    *)
(* the producer of the oldest one has still to link it.                     *)
THEOREM QueueNothingReady == QueueSpec => []NotReadyMeansUnlinked
<1>1. QueueInv => NotReadyMeansUnlinked
  <2> SUFFICES ASSUME QueueInv, life = "alive", next[head] = Null, Len(popped) < Len(order)
               PROVE  \E p \in Producers : /\ ppc[p] = "link" /\ prev[p] = head
                                           /\ value[node[p]] = order[Len(popped) + 1]
    BY Zenon DEF NotReadyMeansUnlinked
  <2> USE QueueAssumption DEF QueueInv
  <2>1. PICK L \in Nat, P \in Nat : L = Len(chain) /\ P = Len(popped)
    BY DEF QueueTypeOK
  <2>2. L > 1 /\ head = chain[1]
    BY <2>1 DEF Ends, Items, QueueTypeOK
  <2>3. 1 \in 1..(L - 1) /\ 1 + 1 \in 1..L /\ 2 \in 2..L /\ P + 2 - 1 = P + 1
    BY <2>2
  <2>4. chain[1 + 1] \in Nodes
    BY <2>1, <2>3 DEF QueueTypeOK
  <2>5. PICK p \in Producers : Links(p, 1)
    BY <2>1, <2>2, <2>3, <2>4, Zenon DEF Linked
  <2>6. value[chain[2]] = order[P + 1]
    BY <2>1, <2>3, Zenon DEF Items
  <2> QED
    BY <2>1, <2>2, <2>5, <2>6 DEF Links
<1> QED
  BY QueueInvariant, <1>1, PTL

-----------------------------------------------------------------------------
(***************************************************************************)
(* Safety of the readers-writer lock for any finite set of threads.  The   *)
(* argument: the counters are exact, hence the predicates of the two waits *)
(* speak about who is really inside; that gives exclusion.  That no        *)
(* wake-up is lost needs exclusion, exactness and itself.  Together with   *)
(* the types these are inductive.                                          *)
(***************************************************************************)

IInv == TypeOK /\ WriterIsAlone /\ CountersAreExact /\ NoLostWakeup

-----------------------------------------------------------------------------
(* A thread that changes its place leaves one location and joins another.   *)
LEMMA GoToMoves ==
    ASSUME pc \in [Threads -> PC], NEW t \in Threads, NEW loc \in PC, GoTo(t, loc)
    PROVE  /\ pc' \in [Threads -> PC]
           /\ At(loc)' = At(loc) \cup {t}
           /\ \A l \in PC : l # loc => At(l)' = At(l) \ {t}
  BY Zenon DEF At, GoTo

(* Locations are finite sets, so their cardinalities are natural numbers    *)
(* and zero exactly when nobody is there.                                   *)
LEMMA LocationsFinite ==
    \A l \in PC : /\ IsFiniteSet(At(l))
                  /\ Cardinality(At(l)) \in Nat
                  /\ Cardinality(At(l)) = 0 <=> At(l) = {}
<1> TAKE l \in PC
<1>1. IsFiniteSet(At(l))
  <2>1. At(l) \subseteq Threads  BY Zenon DEF At
  <2> QED  BY <2>1, ThreadsFinite, FS_Subset, Zenon
<1> QED  BY <1>1, FS_CardinalityType, FS_EmptySet, Zenon

(* The same, counted. *)
LEMMA GoToCounts ==
    ASSUME pc \in [Threads -> PC], NEW t \in Threads,
           NEW from \in PC, NEW loc \in PC, from # loc,
           pc[t] = from, GoTo(t, loc)
    PROVE  /\ Cardinality(At(loc)') = Cardinality(At(loc)) + 1
           /\ Cardinality(At(from)') = Cardinality(At(from)) - 1
           /\ \A l \in PC \ {loc, from} : At(l)' = At(l)
<1>1. t \notin At(loc) /\ t \in At(from)
  BY Zenon DEF At
<1>2. At(loc)' = At(loc) \cup {t}
  BY GoToMoves, Zenon
<1>3. \A l \in PC : l # loc => At(l)' = At(l) \ {t}
  BY GoToMoves, Zenon
<1>4. Cardinality(At(loc)') = Cardinality(At(loc)) + 1
  BY <1>1, <1>2, LocationsFinite, FS_AddElement, Zenon
<1>5. Cardinality(At(from)') = Cardinality(At(from)) - 1
  BY <1>1, <1>3, LocationsFinite, FS_RemoveElement
<1>6. \A l \in PC \ {loc, from} : At(l)' = At(l)
  BY <1>3, Zenon DEF At
<1> QED  BY <1>4, <1>5, <1>6, Zenon

-----------------------------------------------------------------------------
(* The invariant holds of a fresh lock. *)
LEMMA InitIInv == Init => IInv
<1> SUFFICES ASSUME Init PROVE IInv
  OBVIOUS
<1>1. \A l \in PC : l # "idle" => At(l) = {}
  BY Zenon DEF Init, At
<1>2. TypeOK
  BY <1>1, Zenon DEF Init, TypeOK, PC, At
<1>3. At("reading") = {} /\ At("writing") = {} /\ At("writeWait") = {}
  BY <1>1, Zenon DEF PC
<1>4. CountersAreExact
  BY <1>3, FS_EmptySet, Zenon DEF Init, CountersAreExact
<1>5. WriterIsAlone /\ NoLostWakeup
  BY <1>3, Zenon DEF Init, WriterIsAlone, NoLostWakeup
<1> QED  BY <1>2, <1>4, <1>5, Zenon DEF IInv

(* What the counters say about the sets, and the other way round. *)
LEMMA CountersMean ==
    ASSUME IInv
    PROVE  /\ activeReaders = 0 <=> At("reading") = {}
           /\ waitingWriters = 0 <=> At("writeWait") = {}
           /\ writerActive <=> At("writing") # {}
           /\ activeReaders \in Nat /\ waitingWriters \in Nat
  BY LocationsFinite, Zenon DEF IInv, TypeOK, CountersAreExact, PC

(* A reader's passage through the loop of its wait, from readLock or after  *)
(* a wake-up.                                                               *)
LEMMA ReadOrSleepPreserves ==
    ASSUME IInv, NEW t \in Threads, pc[t] \in {"idle", "readWait"},
           t \notin readersCv, ReadOrSleep(t)
    PROVE  IInv'
<1> USE DEF PC
<1>0. pc \in [Threads -> PC]
  BY Zenon DEF IInv, TypeOK
<1>1. CASE MayRead /\ GoTo(t, "reading") /\ activeReaders' = activeReaders + 1 /\ UNCHANGED readersCv
  <2>0. /\ At("reading")' = At("reading") \cup {t}
        /\ At("writing")' = At("writing")
        /\ At("writeWait")' = At("writeWait")
        /\ At("readWait")' = At("readWait") \ {t}
        /\ Cardinality(At("reading")') = Cardinality(At("reading")) + 1
        /\ pc' \in [Threads -> PC]
    <3>1. CASE pc[t] = "idle"
      BY <1>0, <1>1, <3>1, GoToMoves, GoToCounts
    <3>2. CASE pc[t] = "readWait"
      BY <1>0, <1>1, <3>2, GoToMoves, GoToCounts
    <3> QED  BY <3>1, <3>2, Zenon
  <2>1. readersCv = {} /\ At("writing") = {} /\ At("writeWait") = {}
    BY <1>1, CountersMean, Zenon DEF MayRead, IInv, NoLostWakeup
  <2>2. TypeOK'
    BY <1>1, <2>0, <2>1 DEF TypeOK, IInv, ReadOrSleep
  <2>3. CountersAreExact'
    BY <1>1, <2>0, Zenon DEF CountersAreExact, IInv, ReadOrSleep
  <2>4. WriterIsAlone' /\ NoLostWakeup'
    BY <1>1, <2>0, <2>1, CountersMean, Zenon
    DEF WriterIsAlone, NoLostWakeup, IInv, ReadOrSleep, MayRead, MayWrite
  <2> QED  BY <2>2, <2>3, <2>4, Zenon DEF IInv
<1>2. CASE ~MayRead /\ GoTo(t, "readWait") /\ readersCv' = readersCv \cup {t} /\ UNCHANGED activeReaders
  <2>0. /\ At("reading")' = At("reading")
        /\ At("writing")' = At("writing")
        /\ At("writeWait")' = At("writeWait")
        /\ At("readWait")' = At("readWait") \cup {t}
        /\ pc' \in [Threads -> PC]
    BY <1>0, <1>2, Zenon DEF At, GoTo
  <2>2. TypeOK'
    BY <1>2, <2>0, Zenon DEF TypeOK, IInv, ReadOrSleep
  <2>3. CountersAreExact'
    BY <1>2, <2>0, Zenon DEF CountersAreExact, IInv, ReadOrSleep
  <2>4. WriterIsAlone' /\ NoLostWakeup'
    BY <1>2, <2>0, Zenon DEF WriterIsAlone, NoLostWakeup, IInv, ReadOrSleep, MayRead, MayWrite
  <2> QED  BY <2>2, <2>3, <2>4, Zenon DEF IInv
<1> QED  BY <1>1, <1>2, Zenon DEF ReadOrSleep

(* A writer's passage through the loop of its wait.  From writeLock it is   *)
(* counted in first; after a wake-up it is in the count already.            *)
LEMMA WriteOrSleepPreserves ==
    ASSUME IInv, NEW t \in Threads, NEW queue, WriteOrSleep(t, queue),
           \/ pc[t] = "idle" /\ queue = waitingWriters + 1
           \/ pc[t] = "writeWait" /\ queue = waitingWriters /\ t \notin writersCv
    PROVE  IInv'
<1> USE DEF PC
<1>0. pc \in [Threads -> PC] /\ waitingWriters \in Nat
  BY Zenon DEF IInv, TypeOK
<1>1. CASE MayWrite /\ GoTo(t, "writing") /\ waitingWriters' = queue - 1
           /\ writerActive' = TRUE /\ UNCHANGED writersCv
  <2>0. /\ At("reading")' = At("reading")
        /\ At("writing")' = At("writing") \cup {t}
        /\ At("writeWait")' = At("writeWait") \ {t}
        /\ At("readWait")' = At("readWait")
        /\ waitingWriters' = Cardinality(At("writeWait")')
        /\ waitingWriters' \in Nat
        /\ pc' \in [Threads -> PC]
    <3>1. CASE pc[t] = "idle" /\ queue = waitingWriters + 1
      <4>1. At("writeWait")' = At("writeWait")
        BY <1>0, <1>1, <3>1, GoToCounts, Zenon
      <4>2. waitingWriters' = waitingWriters
        BY <1>0, <1>1, <3>1
      <4> QED  BY <1>0, <1>1, <3>1, <4>1, <4>2, GoToMoves, GoToCounts DEF IInv, CountersAreExact
    <3>2. CASE pc[t] = "writeWait" /\ queue = waitingWriters
      <4>1. Cardinality(At("writeWait")') = Cardinality(At("writeWait")) - 1
        BY <1>0, <1>1, <3>2, GoToCounts, Zenon
      <4>2. At("writeWait") # {}
        BY <3>2, Zenon DEF At
      <4>3. waitingWriters' = waitingWriters - 1 /\ waitingWriters # 0
        BY <1>1, <3>2, <4>2, CountersMean, Zenon
      <4> QED  BY <1>0, <1>1, <3>2, <4>1, <4>3, GoToMoves, GoToCounts DEF IInv, CountersAreExact
    <3> QED  BY <3>1, <3>2, Zenon
  <2>1. At("reading") = {} /\ At("writing") = {}
    BY <1>1, CountersMean, Zenon DEF MayWrite
  <2>2. TypeOK'
    <3>1. writersCv' \subseteq At("writeWait")'
      BY <1>1, <2>0, Zenon DEF TypeOK, IInv, At
    <3> QED  BY <1>1, <2>0, <3>1, Zenon DEF TypeOK, IInv, WriteOrSleep
  <2>3. CountersAreExact'
    BY <1>1, <2>0, Zenon DEF CountersAreExact, IInv, WriteOrSleep
  <2>4. WriterIsAlone' /\ NoLostWakeup'
    BY <1>1, <2>0, <2>1, Zenon DEF WriterIsAlone, NoLostWakeup, MayRead, MayWrite
  <2> QED  BY <2>2, <2>3, <2>4, Zenon DEF IInv
<1>2. CASE ~MayWrite /\ GoTo(t, "writeWait") /\ waitingWriters' = queue
           /\ writersCv' = writersCv \cup {t} /\ UNCHANGED writerActive
  <2>0. /\ At("reading")' = At("reading")
        /\ At("writing")' = At("writing")
        /\ At("writeWait")' = At("writeWait") \cup {t}
        /\ At("readWait")' = At("readWait")
        /\ pc' \in [Threads -> PC]
    BY <1>0, <1>2, Zenon DEF At, GoTo
  <2>1. waitingWriters' = Cardinality(At("writeWait")') /\ waitingWriters' \in Nat
    <3>1. CASE pc[t] = "idle" /\ queue = waitingWriters + 1
      BY <1>0, <1>2, <3>1, GoToCounts DEF IInv, CountersAreExact
    <3>2. CASE pc[t] = "writeWait" /\ queue = waitingWriters
      <4>1. At("writeWait")' = At("writeWait")
        BY <2>0, <3>2, Zenon DEF At
      <4> QED  BY <1>0, <1>2, <3>2, <4>1, Zenon DEF IInv, CountersAreExact
    <3> QED  BY <3>1, <3>2, Zenon
  <2>2. TypeOK'
    BY <1>2, <2>0, <2>1, Zenon DEF TypeOK, IInv, WriteOrSleep
  <2>3. CountersAreExact'
    BY <1>2, <2>0, <2>1, Zenon DEF CountersAreExact, IInv, WriteOrSleep
  <2>4. ~MayRead'
    <3>1. At("writeWait")' # {}
      BY <2>0, Zenon
    <3>2. waitingWriters' # 0
      BY <2>1, <3>1, LocationsFinite, FS_EmptySet, <2>0, ThreadsFinite, FS_Subset, Zenon DEF At
    <3> QED  BY <3>2, Zenon DEF MayRead
  <2>5. WriterIsAlone' /\ NoLostWakeup'
    BY <1>2, <2>0, <2>4, Zenon DEF WriterIsAlone, NoLostWakeup, IInv, WriteOrSleep, MayWrite
  <2> QED  BY <2>2, <2>3, <2>5, Zenon DEF IInv
<1> QED  BY <1>1, <1>2, Zenon DEF WriteOrSleep

(* Notifying a writer leaves nobody asleep, or someone awake. *)
LEMMA NotifyOneWriterWakes ==
    ASSUME writersCv \subseteq At("writeWait"), NotifyOneWriter
    PROVE  /\ writersCv' \subseteq writersCv
           /\ writersCv' = {} \/ writersCv' # At("writeWait")
  BY Zenon DEF NotifyOneWriter

(* readUnlock keeps the invariant: the last reader out wakes a sleeping writer. *)
LEMMA ReadUnlockPreserves ==
    ASSUME IInv, NEW t \in Threads, ReadUnlock(t)
    PROVE  IInv'
<1> USE DEF PC
<1>1. pc \in [Threads -> PC] /\ pc[t] = "reading" /\ GoTo(t, "idle")
  BY Zenon DEF IInv, TypeOK, ReadUnlock
<1>2. /\ At("reading")' = At("reading") \ {t}
      /\ At("writing")' = At("writing")
      /\ At("writeWait")' = At("writeWait")
      /\ At("readWait")' = At("readWait")
      /\ Cardinality(At("reading")') = Cardinality(At("reading")) - 1
      /\ pc' \in [Threads -> PC]
  BY <1>1, GoToMoves, GoToCounts
<1>3. t \in At("reading") /\ activeReaders # 0
  BY <1>1, CountersMean, Zenon DEF At
<1>4. writersCv' \subseteq writersCv
  BY NotifyOneWriterWakes, Zenon DEF ReadUnlock, IInv, TypeOK
<1>5. TypeOK'
  BY <1>2, <1>3, <1>4 DEF TypeOK, IInv, ReadUnlock
<1>6. CountersAreExact'
  BY <1>2, Zenon DEF CountersAreExact, IInv, ReadUnlock
<1>7. WriterIsAlone'
  BY <1>2, Zenon DEF WriterIsAlone, IInv
<1>8. NoLostWakeup'
  <2>1. CASE activeReaders' = 0 /\ NotifyOneWriter
    BY <1>2, <2>1, NotifyOneWriterWakes, Zenon
    DEF NoLostWakeup, IInv, TypeOK, ReadUnlock, MayRead, MayWrite
  <2>2. CASE activeReaders' # 0
    BY <1>2, <2>2, Zenon DEF NoLostWakeup, IInv, ReadUnlock, MayRead, MayWrite
  <2> QED  BY <2>1, <2>2, Zenon DEF ReadUnlock
<1> QED  BY <1>5, <1>6, <1>7, <1>8, Zenon DEF IInv

(* writeUnlock keeps the invariant: it wakes one writer, or else all readers. *)
LEMMA WriteUnlockPreserves ==
    ASSUME IInv, NEW t \in Threads, WriteUnlock(t)
    PROVE  IInv'
<1> USE DEF PC
<1>1. pc \in [Threads -> PC] /\ pc[t] = "writing" /\ GoTo(t, "idle")
  BY Zenon DEF IInv, TypeOK, WriteUnlock
<1>2. At("reading") = {} /\ At("writing") = {t}
  BY <1>1, Zenon DEF At, IInv, WriterIsAlone
<1>3. /\ At("reading")' = {}
      /\ At("writing")' = {}
      /\ At("writeWait")' = At("writeWait")
      /\ At("readWait")' = At("readWait")
      /\ pc' \in [Threads -> PC]
  BY <1>1, <1>2, GoToMoves, GoToCounts
<1>4. writersCv' \subseteq writersCv /\ readersCv' \subseteq readersCv
  BY NotifyOneWriterWakes, Zenon DEF WriteUnlock, IInv, TypeOK
<1>5. TypeOK'
  BY <1>3, <1>4, Zenon DEF TypeOK, IInv, WriteUnlock
<1>6. CountersAreExact'
  BY <1>2, <1>3, Zenon DEF CountersAreExact, IInv, WriteUnlock
<1>7. WriterIsAlone'
  BY <1>3, Zenon DEF WriterIsAlone
<1>8. NoLostWakeup'
  <2>1. CASE waitingWriters > 0 /\ NotifyOneWriter /\ UNCHANGED readersCv
    <3>1. ~MayRead'
      BY <2>1, CountersMean DEF MayRead, WriteUnlock
    <3> QED  BY <1>3, <2>1, <3>1, NotifyOneWriterWakes, Zenon DEF NoLostWakeup, IInv, TypeOK
  <2>2. CASE waitingWriters = 0 /\ readersCv' = {} /\ UNCHANGED writersCv
    <3>1. writersCv = {}
      BY <2>2, CountersMean, Zenon DEF IInv, TypeOK
    <3> QED  BY <2>2, <3>1, Zenon DEF NoLostWakeup
  <2> QED  BY <2>1, <2>2, Zenon DEF WriteUnlock
<1> QED  BY <1>5, <1>6, <1>7, <1>8, Zenon DEF IInv

(* A wake-up without a notify keeps the invariant. *)
LEMMA SpuriousWakeupPreserves ==
    ASSUME IInv, NEW t \in Threads, SpuriousWakeup(t)
    PROVE  IInv'
<1>1. \A l : At(l)' = At(l)
  BY Zenon DEF SpuriousWakeup, At
<1>2. TypeOK'
  BY <1>1, Zenon DEF TypeOK, IInv, SpuriousWakeup
<1>3. CountersAreExact' /\ WriterIsAlone'
  BY <1>1, Zenon DEF CountersAreExact, WriterIsAlone, IInv, SpuriousWakeup
<1>4. NoLostWakeup'
  BY <1>1, Zenon DEF NoLostWakeup, IInv, TypeOK, SpuriousWakeup, MayRead, MayWrite
<1> QED  BY <1>2, <1>3, <1>4, Zenon DEF IInv

(* No step of any thread breaks the invariant. *)
LEMMA NextIInv == IInv /\ [Next]_vars => IInv'
<1> SUFFICES ASSUME IInv, [Next]_vars PROVE IInv'
  OBVIOUS
<1>1. CASE UNCHANGED vars
  BY <1>1, Zenon DEF vars, IInv, TypeOK, WriterIsAlone, CountersAreExact, NoLostWakeup,
              At, MayRead, MayWrite
<1>2. ASSUME NEW t \in Threads, ReadLock(t) \/ ReadWake(t) PROVE IInv'
  <2>1. t \notin readersCv /\ pc[t] \in {"idle", "readWait"}
    BY <1>2, Zenon DEF IInv, TypeOK, At, ReadLock, ReadWake
  <2> QED  BY <1>2, <2>1, ReadOrSleepPreserves, Zenon DEF ReadLock, ReadWake
<1>3. ASSUME NEW t \in Threads, WriteLock(t) PROVE IInv'
  BY <1>3, WriteOrSleepPreserves, Zenon DEF WriteLock
<1>4. ASSUME NEW t \in Threads, WriteWake(t) PROVE IInv'
  BY <1>4, WriteOrSleepPreserves, Zenon DEF WriteWake
<1>5. ASSUME NEW t \in Threads, ReadUnlock(t) \/ WriteUnlock(t) \/ SpuriousWakeup(t) PROVE IInv'
  BY <1>5, ReadUnlockPreserves, WriteUnlockPreserves, SpuriousWakeupPreserves, Zenon
<1> QED  BY <1>1, <1>2, <1>3, <1>4, <1>5, Zenon DEF Next

(* The inductive invariant holds in every reachable state of the lock. *)
THEOREM LockInvariant == Spec => []IInv
  BY InitIInv, NextIInv, PTL DEF Spec

(* Mutual exclusion: readLock and writeLock return only when the caller may *)
(* be inside, for any number of threads.                                    *)
THEOREM LockExclusion == Spec => []WriterIsAlone
<1>1. IInv => WriterIsAlone
  BY Zenon DEF IInv
<1> QED  BY <1>1, LockInvariant, PTL

(* The notifications of readUnlock and writeUnlock suffice: nobody sleeps   *)
(* on a lock that is open to them, for any number of threads.               *)
THEOREM LockLosesNoWakeup == Spec => []NoLostWakeup
<1>1. IInv => NoLostWakeup
  BY Zenon DEF IInv
<1> QED  BY <1>1, LockInvariant, PTL

(* The three counters of the lock are exact, for any number of threads. *)
THEOREM LockCounters == Spec => [](TypeOK /\ CountersAreExact)
<1>1. IInv => TypeOK /\ CountersAreExact
  BY Zenon DEF IInv
<1> QED  BY <1>1, LockInvariant, PTL

-----------------------------------------------------------------------------
(* A step of a reader through its wait is an entry, or changes nothing the  *)
(* abstract lock shows.                                                     *)
LEMMA ReadOrSleepRefines ==
    ASSUME IInv, NEW t \in Threads, pc[t] \in {"idle", "readWait"}, ReadOrSleep(t)
    PROVE  Abstract!EnterRead(t) \/ UNCHANGED Abstract!lockVars
<1>1. CASE MayRead /\ GoTo(t, "reading")
  <2>1. At("writing") = {} /\ At("writeWait") = {}
    BY <1>1, CountersMean, Zenon DEF MayRead
  <2>2. /\ At("reading")' = At("reading") \cup {t}
        /\ At("writing")' = At("writing")
        /\ At("writeWait")' = At("writeWait")
        /\ t \notin At("reading")
    BY <1>1, Zenon DEF At, GoTo, IInv, TypeOK
  <2> QED  BY <2>1, <2>2, Zenon DEF Abstract!EnterRead, Abstract!Inside
<1>2. CASE GoTo(t, "readWait")
  <2>1. /\ At("reading")' = At("reading")
        /\ At("writing")' = At("writing")
        /\ At("writeWait")' = At("writeWait")
    BY <1>2, Zenon DEF At, GoTo, IInv, TypeOK
  <2> QED  BY <2>1, Zenon DEF Abstract!lockVars
<1> QED  BY <1>1, <1>2, Zenon DEF ReadOrSleep

(* A step of a writer through its wait is an entry, the start of its        *)
(* waiting, or invisible.                                                   *)
LEMMA WriteOrSleepRefines ==
    ASSUME IInv, NEW t \in Threads, pc[t] \in {"idle", "writeWait"},
           NEW queue, WriteOrSleep(t, queue)
    PROVE  Abstract!EnterWrite(t) \/ Abstract!QueueWrite(t) \/ UNCHANGED Abstract!lockVars
<1>1. CASE MayWrite /\ GoTo(t, "writing")
  <2>1. At("writing") = {} /\ At("reading") = {}
    BY <1>1, CountersMean, Zenon DEF MayWrite
  <2>2. /\ At("reading")' = At("reading")
        /\ At("writing")' = At("writing") \cup {t}
        /\ At("writeWait")' = At("writeWait") \ {t}
    BY <1>1, Zenon DEF At, GoTo, IInv, TypeOK
  <2> QED  BY <2>1, <2>2, Zenon DEF Abstract!EnterWrite, Abstract!Inside
<1>2. CASE ~MayWrite /\ GoTo(t, "writeWait")
  <2>1. At("writing") # {} \/ At("reading") # {}
    BY <1>2, CountersMean, Zenon DEF MayWrite
  <2>2. /\ At("reading")' = At("reading")
        /\ At("writing")' = At("writing")
        /\ At("writeWait")' = At("writeWait") \cup {t}
        /\ t \notin At("reading") \cup At("writing")
    BY <1>2, Zenon DEF At, GoTo, IInv, TypeOK
  <2> QED  BY <2>1, <2>2, Zenon DEF Abstract!QueueWrite, Abstract!Inside, Abstract!lockVars
<1> QED  BY <1>1, <1>2, Zenon DEF WriteOrSleep

(* The lock built from a mutex and two condition variables implements the   *)
(* abstract readers-writer lock, for any finite set of threads.             *)
THEOREM LockRefinement == Spec => ImplementsReadersWriter
<1>1. Init => Abstract!LockInit
  BY Zenon DEF Init, Abstract!LockInit, At
<1>2. IInv /\ [Next]_vars => [Abstract!LockNext]_(Abstract!lockVars)
  <2> SUFFICES ASSUME IInv, [Next]_vars
               PROVE  [Abstract!LockNext]_(Abstract!lockVars)
    OBVIOUS
  <2>1. CASE UNCHANGED vars
    BY <2>1, Zenon DEF vars, Abstract!lockVars, At
  <2>2. ASSUME NEW t \in Threads, ReadLock(t) \/ ReadWake(t)
        PROVE  Abstract!EnterRead(t) \/ UNCHANGED Abstract!lockVars
    BY <2>2, ReadOrSleepRefines, Zenon DEF ReadLock, ReadWake
  <2>3. ASSUME NEW t \in Threads, WriteLock(t) \/ WriteWake(t)
        PROVE  Abstract!EnterWrite(t) \/ Abstract!QueueWrite(t) \/ UNCHANGED Abstract!lockVars
    BY <2>3, WriteOrSleepRefines, Zenon DEF WriteLock, WriteWake
  <2>4. ASSUME NEW t \in Threads, ReadUnlock(t)
        PROVE  Abstract!LeaveRead(t)
    BY <2>4, Zenon DEF ReadUnlock, GoTo, At, IInv, TypeOK, Abstract!LeaveRead
  <2>5. ASSUME NEW t \in Threads, WriteUnlock(t)
        PROVE  Abstract!LeaveWrite(t)
    BY <2>5, Zenon DEF WriteUnlock, GoTo, At, IInv, TypeOK, Abstract!LeaveWrite
  <2>6. ASSUME NEW t \in Threads, SpuriousWakeup(t)
        PROVE  UNCHANGED Abstract!lockVars
    BY <2>6, Zenon DEF SpuriousWakeup, At, Abstract!lockVars
  <2> QED  BY <2>1, <2>2, <2>3, <2>4, <2>5, <2>6, Zenon DEF Next, Abstract!LockNext
<1> QED  BY <1>1, <1>2, LockInvariant, PTL DEF Spec, ImplementsReadersWriter, Abstract!LockSpec
=============================================================================
