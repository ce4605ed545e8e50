--------------------------- MODULE LockFreeQueue ---------------------------
(***************************************************************************)
(* The multi-producer single-consumer queue                                *)
(* (include/concurrency/LockFreeQueue.hpp).                                *)
(*                                                                         *)
(* A node is an address; `delete` makes the address available to the next  *)
(* `new`, so a stale pointer can come to name somebody else's node.  Each  *)
(* access to a shared atomic is one step.  The acquire/release pairs of    *)
(* the code order a node's payload before the link that publishes it, so   *)
(* the steps are interleaved sequentially consistently.                    *)
(***************************************************************************)
EXTENDS Naturals, Sequences

CONSTANTS Producers, Nodes, Null,
          MaxPushes   \* bound: calls of push() in one behaviour

ASSUME QueueAssumption ==
    /\ Null \notin Nodes
    /\ MaxPushes \in Nat

VARIABLES
    heap,      \* the allocated nodes
    next,      \* Node::next
    value,     \* Node::value; 0 when empty
    head,      \* head_
    tail,      \* tail_
    ppc,       \* where each producer is in push()
    node,      \* its local `node`
    prev,      \* its local `prev`
    seen,      \* the consumer's local `next`; Null outside pop()
    cursor,    \* the destructor's local `node`
    life,      \* "alive", "dying" (in the destructor), "dead"
    pushes,    \* calls of push() so far; names the items
    order,     \* history: the items in the order of the exchanges of tail_
    popped,    \* history: the items pop() has returned
    chain      \* history: the nodes from head_ on, in the order of the exchanges

queueVars == <<heap, next, value, head, tail, ppc, node, prev, seen, cursor, life,
               pushes, order, popped, chain>>

producer == <<ppc, node, prev, pushes, order>>

QueueInit ==
    \E stub \in Nodes :
        /\ heap = {stub}
        /\ next = [n \in Nodes |-> Null]
        /\ value = [n \in Nodes |-> 0]
        /\ head = stub
        /\ tail = stub
        /\ ppc = [p \in Producers |-> "idle"]
        /\ node = [p \in Producers |-> Null]
        /\ prev = [p \in Producers |-> Null]
        /\ seen = Null
        /\ cursor = Null
        /\ life = "alive"
        /\ pushes = 0
        /\ order = <<>>
        /\ popped = <<>>
        /\ chain = <<stub>>

-----------------------------------------------------------------------------
(* push(): new Node(item) ... *)
PushAllocates(p) ==
    /\ life = "alive"
    /\ ppc[p] = "idle"
    /\ pushes < MaxPushes
    /\ \E n \in Nodes \ heap :
          /\ heap' = heap \cup {n}
          /\ pushes' = pushes + 1
          /\ value' = [value EXCEPT ![n] = pushes']
          /\ next' = [next EXCEPT ![n] = Null]
          /\ node' = [node EXCEPT ![p] = n]
    /\ ppc' = [ppc EXCEPT ![p] = "exchange"]
    /\ UNCHANGED <<head, tail, prev, seen, cursor, life, order, popped, chain>>

(* Fault: a load and a store where the exchange must be. *)
PushLoadsTail(p) ==
    \/ /\ ppc[p] = "exchange"
       /\ prev[p] = Null
       /\ prev' = [prev EXCEPT ![p] = tail]
       /\ UNCHANGED <<heap, next, value, head, tail, ppc, node, seen, cursor, life,
                      pushes, order, popped, chain>>
    \/ /\ ppc[p] = "exchange"
       /\ prev[p] # Null
       /\ tail' = node[p]
       /\ order' = Append(order, value[node[p]])
       /\ chain' = Append(chain, node[p])
       /\ ppc' = [ppc EXCEPT ![p] = "link"]
       /\ UNCHANGED <<heap, next, value, head, node, prev, seen, cursor, life,
                      pushes, popped>>

(* ... tail_.exchange(node) ... *)
PushExchanges(p) ==
    /\ ppc[p] = "exchange"
    /\ prev' = [prev EXCEPT ![p] = tail]
    /\ tail' = node[p]
    /\ order' = Append(order, value[node[p]])
    /\ chain' = Append(chain, node[p])
    /\ ppc' = [ppc EXCEPT ![p] = "link"]
    /\ UNCHANGED <<heap, next, value, head, node, seen, cursor, life, pushes, popped>>

(* ... prev->next.store(node) *)
PushLinks(p) ==
    /\ ppc[p] = "link"
    /\ next' = [next EXCEPT ![prev[p]] = node[p]]
    /\ ppc' = [ppc EXCEPT ![p] = "idle"]
    /\ node' = [node EXCEPT ![p] = Null]
    /\ prev' = [prev EXCEPT ![p] = Null]
    /\ UNCHANGED <<heap, value, head, tail, seen, cursor, life, pushes, order, popped, chain>>

-----------------------------------------------------------------------------
(* pop(): the load of head_->next; Null ends the call with false.           *)
PopLoads ==
    /\ life = "alive"
    /\ seen = Null
    /\ next[head] # Null
    /\ seen' = next[head]
    /\ UNCHANGED <<heap, next, value, head, tail, producer, cursor, life, popped, chain>>

PopFindsNothing ==
    /\ life = "alive"
    /\ seen = Null
    /\ next[head] = Null
    /\ UNCHANGED queueVars

(* Fault: the popped node is deleted instead of the old stub. *)
PopDeletesTheWrongNode ==
    /\ seen # Null
    /\ popped' = Append(popped, value[seen])
    /\ value' = [value EXCEPT ![seen] = 0]
    /\ heap' = heap \ {seen}
    /\ head' = seen
    /\ seen' = Null
    /\ chain' = Tail(chain)
    /\ UNCHANGED <<next, tail, producer, cursor, life>>

(* The item is moved out and the old stub deleted. *)
PopTakes ==
    /\ seen # Null
    /\ popped' = Append(popped, value[seen])
    /\ value' = [value EXCEPT ![seen] = 0]
    /\ heap' = heap \ {head}
    /\ head' = seen
    /\ seen' = Null
    /\ chain' = Tail(chain)
    /\ UNCHANGED <<next, tail, producer, cursor, life>>

-----------------------------------------------------------------------------
(* The destructor runs when no other call is in progress. *)
DestroyBegins ==
    /\ life = "alive"
    /\ seen = Null
    /\ \A p \in Producers : ppc[p] = "idle"
    /\ life' = "dying"
    /\ cursor' = head
    /\ UNCHANGED <<heap, next, value, head, tail, producer, seen, popped, chain>>

DestroyDeletes ==
    /\ life = "dying"
    /\ cursor # Null
    /\ heap' = heap \ {cursor}
    /\ cursor' = next[cursor]
    /\ chain' = Tail(chain)
    /\ UNCHANGED <<next, value, head, tail, producer, seen, life, popped>>

DestroyEnds ==
    /\ life = "dying"
    /\ cursor = Null
    /\ life' = "dead"
    /\ UNCHANGED <<heap, next, value, head, tail, producer, seen, cursor, popped, chain>>

Dead ==
    /\ life = "dead"
    /\ UNCHANGED queueVars

-----------------------------------------------------------------------------
QueueNext ==
    \/ \E p \in Producers : PushAllocates(p) \/ PushExchanges(p) \/ PushLinks(p)
    \/ PopLoads
    \/ PopFindsNothing
    \/ PopTakes
    \/ DestroyBegins
    \/ DestroyDeletes
    \/ DestroyEnds
    \/ Dead

QueueSpec == QueueInit /\ [][QueueNext]_queueVars

(* A producer inside push() goes on, and the consumer keeps popping. *)
QueueFairness ==
    /\ \A p \in Producers : WF_queueVars(PushExchanges(p)) /\ WF_queueVars(PushLinks(p))
    /\ WF_queueVars(PopLoads)
    /\ WF_queueVars(PopTakes)

QueueFairSpec == QueueSpec /\ QueueFairness

-----------------------------------------------------------------------------
(* The queue is FIFO in the order in which producers win the exchange, and  *)
(* no item is lost, duplicated or replaced by what a reused node holds.     *)
PopsInExchangeOrder ==
    Len(popped) <= Len(order) /\ popped = SubSeq(order, 1, Len(popped))

(* Every pointer that some thread is about to follow names an allocated     *)
(* node.  In particular the node a producer still has to link, read from    *)
(* tail_ by its exchange, is never deleted under it by the consumer.  And   *)
(* the destructor deletes every node, the stub and undelivered items        *)
(* included.                                                                *)
NodesAreOwned ==
    /\ life = "dead" => heap = {}
    /\ life = "alive" => head \in heap /\ tail \in heap
    /\ \A p \in Producers : ppc[p] = "exchange" => node[p] \in heap
    /\ \A p \in Producers : ppc[p] = "link" => {node[p], prev[p]} \subseteq heap
    /\ seen # Null => seen \in heap
    /\ cursor # Null => cursor \in heap

(* "Nothing ready yet": pop() and empty() see no item, although one has     *)
(* been pushed, only while the producer of the oldest item is between its   *)
(* exchange and its link; it is not enough that some push is under way.     *)
NotReadyMeansUnlinked ==
    (life = "alive" /\ seen = Null /\ next[head] = Null /\ Len(popped) < Len(order))
        => \E p \in Producers : /\ ppc[p] = "link"
                                /\ prev[p] = head
                                /\ value[node[p]] = order[Len(popped) + 1]

(* Every pushed item is delivered, unless the queue is destroyed first. *)
EveryItemArrives ==
    \A i \in 1..MaxPushes :
        (i <= pushes) ~> (life # "alive" \/ \E k \in DOMAIN popped : popped[k] = i)
=============================================================================
