------------------------------- MODULE BTree -------------------------------
(***************************************************************************)
(* The B-tree of include/structures/BTree.hpp, minimum degree t.           *)
(*                                                                         *)
(* A node owns its children exclusively (UniquePtr), so a tree is a value: *)
(* a record of the node's three vectors, the children being trees.  A      *)
(* member function that changes a node in place is an operator that        *)
(* returns the changed node.  Positions count from 1.  Operators that are  *)
(* entered under a precondition stated in the code's comments return in    *)
(* `legal` whether it held at every call they made.                        *)
(***************************************************************************)
EXTENDS Integers, Sequences, FiniteSets, SequencesExt, TLC

CONSTANTS t,        \* minDegree
          Keys,     \* a set of integers
          Value(_)  \* the value inserted with a key

ASSUME BTreeAssumption == t \in Nat /\ t >= 2 /\ Keys \subseteq Int

VARIABLES root,      \* root_: a node, or Null
          size,      \* size_
          contents   \* history: the map the calls so far amount to

vars == <<root, size, contents>>

Null == <<>>

Leaf(k, v) == [keys |-> <<k>>, values |-> <<v>>, children |-> <<>>]

IsLeaf(node) == node.children = <<>>

IsFull(node) == Len(node.keys) = 2 * t - 1

(* Fault: upper_bound where lower_bound is meant. *)
UpperBound(node, key) ==
    1 + Cardinality({i \in DOMAIN node.keys : node.keys[i] <= key})

(* The position of the first key that is not less. *)
LowerBound(node, key) ==
    1 + Cardinality({i \in DOMAIN node.keys : node.keys[i] < key})

HasKeyAt(node, i, key) == i <= Len(node.keys) /\ node.keys[i] = key

-----------------------------------------------------------------------------
(* Fault: the right half of an internal node comes without its children. *)
PartWithoutChildren(node, from, to) ==
    [keys     |-> SubSeq(node.keys, from, to),
     values   |-> SubSeq(node.values, from, to),
     children |-> IF from = 1 THEN node.children ELSE <<>>]

(* The entries from..to of a node with the children around them. *)
Part(node, from, to) ==
    [keys     |-> SubSeq(node.keys, from, to),
     values   |-> SubSeq(node.values, from, to),
     children |-> IF IsLeaf(node) THEN <<>> ELSE SubSeq(node.children, from, to + 1)]

SplitChild(parent, i) ==
    LET child == parent.children[i]
        left  == Part(child, 1, t - 1)
        right == Part(child, t + 1, 2 * t - 1)
    IN  [keys     |-> InsertAt(parent.keys, i, child.keys[t]),
         values   |-> InsertAt(parent.values, i, child.values[t]),
         children |-> InsertAt(ReplaceAt(parent.children, i, left), i + 1, right)]

RECURSIVE InsertNonFull(_, _, _)
InsertNonFull(node, key, value) ==
    LET i == LowerBound(node, key)
        into(n, c) ==
            LET below == InsertNonFull(n.children[c], key, value)
            IN  [node     |-> [n EXCEPT !.children[c] = below.node],
                 inserted |-> below.inserted]
    IN  IF HasKeyAt(node, i, key) THEN [node |-> node, inserted |-> FALSE]
        ELSE IF IsLeaf(node) THEN
            [node     |-> [node EXCEPT !.keys = InsertAt(@, i, key),
                                       !.values = InsertAt(@, i, value)],
             inserted |-> TRUE]
        ELSE IF IsFull(node.children[i]) THEN
            LET split == SplitChild(node, i)
            IN  IF split.keys[i] = key THEN [node |-> split, inserted |-> FALSE]
                ELSE into(split, IF split.keys[i] < key THEN i + 1 ELSE i)
        ELSE into(node, i)

-----------------------------------------------------------------------------
BorrowFromPrev(node, i) ==
    LET child == node.children[i]
        left  == node.children[i - 1]
        child2 == [keys     |-> <<node.keys[i - 1]>> \o child.keys,
                   values   |-> <<node.values[i - 1]>> \o child.values,
                   children |-> IF IsLeaf(left) THEN child.children
                                ELSE <<Last(left.children)>> \o child.children]
        left2  == [keys     |-> Front(left.keys),
                   values   |-> Front(left.values),
                   children |-> IF IsLeaf(left) THEN <<>> ELSE Front(left.children)]
    IN  [keys     |-> ReplaceAt(node.keys, i - 1, Last(left.keys)),
         values   |-> ReplaceAt(node.values, i - 1, Last(left.values)),
         children |-> ReplaceAt(ReplaceAt(node.children, i, child2), i - 1, left2)]

BorrowFromNext(node, i) ==
    LET child == node.children[i]
        right == node.children[i + 1]
        child2 == [keys     |-> Append(child.keys, node.keys[i]),
                   values   |-> Append(child.values, node.values[i]),
                   children |-> IF IsLeaf(right) THEN child.children
                                ELSE Append(child.children, Head(right.children))]
        right2 == [keys     |-> Tail(right.keys),
                   values   |-> Tail(right.values),
                   children |-> IF IsLeaf(right) THEN <<>> ELSE Tail(right.children)]
    IN  [keys     |-> ReplaceAt(node.keys, i, Head(right.keys)),
         values   |-> ReplaceAt(node.values, i, Head(right.values)),
         children |-> ReplaceAt(ReplaceAt(node.children, i, child2), i + 1, right2)]

MergeChildren(node, i) ==
    LET left   == node.children[i]
        right  == node.children[i + 1]
        merged == [keys     |-> Append(left.keys, node.keys[i]) \o right.keys,
                   values   |-> Append(left.values, node.values[i]) \o right.values,
                   children |-> left.children \o right.children]
    IN  [keys     |-> RemoveAt(node.keys, i),
         values   |-> RemoveAt(node.values, i),
         children |-> RemoveAt(ReplaceAt(node.children, i, merged), i + 1)]

(* "Both children have t-1 keys when this is called." *)
MergeIsLegal(node, i) ==
    Len(node.children[i].keys) = t - 1 /\ Len(node.children[i + 1].keys) = t - 1

HasSpare(node) == Len(node.keys) >= t

FillChild(node, i) ==
    IF i > 1 /\ HasSpare(node.children[i - 1]) THEN
        [node |-> BorrowFromPrev(node, i), legal |-> TRUE]
    ELSE IF i < Len(node.children) /\ HasSpare(node.children[i + 1]) THEN
        [node |-> BorrowFromNext(node, i), legal |-> TRUE]
    ELSE LET j == IF i > 1 THEN i - 1 ELSE i
         IN  [node |-> MergeChildren(node, j), legal |-> MergeIsLegal(node, j)]

(* Fault: an off-by-one in the test for minimum occupancy. *)
TopUpTooLate(node, i) ==
    IF Len(node.children[i].keys) >= t - 1 THEN [node |-> node, legal |-> TRUE]
    ELSE FillChild(node, i)

(* fillChild where the child is at minimum occupancy. *)
TopUp(node, i) ==
    IF HasSpare(node.children[i]) THEN [node |-> node, legal |-> TRUE]
    ELSE FillChild(node, i)

RECURSIVE TakeMax(_)
TakeMax(node) ==
    IF IsLeaf(node) THEN
        [key |-> Last(node.keys), value |-> Last(node.values), legal |-> HasSpare(node),
         node |-> [node EXCEPT !.keys = Front(@), !.values = Front(@)]]
    ELSE LET top   == TopUp(node, Len(node.children))
             last  == Len(top.node.children)
             below == TakeMax(top.node.children[last])
         IN  [below EXCEPT !.node  = [top.node EXCEPT !.children[last] = below.node],
                           !.legal = @ /\ top.legal /\ HasSpare(node)]

RECURSIVE TakeMin(_)
TakeMin(node) ==
    IF IsLeaf(node) THEN
        [key |-> Head(node.keys), value |-> Head(node.values), legal |-> HasSpare(node),
         node |-> [node EXCEPT !.keys = Tail(@), !.values = Tail(@)]]
    ELSE LET top   == TopUp(node, 1)
             below == TakeMin(top.node.children[1])
         IN  [below EXCEPT !.node  = [top.node EXCEPT !.children[1] = below.node],
                           !.legal = @ /\ top.legal /\ HasSpare(node)]

(* removeFrom: "every recursive call enters a node that is the root or has  *)
(* at least t keys"; the branch marked "defensive" in the code is taken to  *)
(* be illegal.                                                              *)
RECURSIVE RemoveFrom(_, _, _)
RemoveFrom(node, key, isRoot) ==
    LET i == LowerBound(node, key)
        entered == isRoot \/ HasSpare(node)
        into(n, c, legal) ==
            LET below == RemoveFrom(n.children[c], key, FALSE)
            IN  [node    |-> [n EXCEPT !.children[c] = below.node],
                 removed |-> below.removed,
                 legal   |-> entered /\ legal /\ below.legal]
        replaced(c, taken) ==
            [node    |-> [node EXCEPT !.keys[i] = taken.key, !.values[i] = taken.value,
                                      !.children[c] = taken.node],
             removed |-> TRUE,
             legal   |-> entered /\ taken.legal]
    IN  IF HasKeyAt(node, i, key) /\ IsLeaf(node) THEN
            [node    |-> [node EXCEPT !.keys = RemoveAt(@, i), !.values = RemoveAt(@, i)],
             removed |-> TRUE,
             legal   |-> entered]
        ELSE IF HasKeyAt(node, i, key) THEN
            IF HasSpare(node.children[i]) THEN replaced(i, TakeMax(node.children[i]))
            ELSE IF HasSpare(node.children[i + 1]) THEN replaced(i + 1, TakeMin(node.children[i + 1]))
            ELSE into(MergeChildren(node, i), i, MergeIsLegal(node, i))
        ELSE IF IsLeaf(node) THEN [node |-> node, removed |-> FALSE, legal |-> entered]
        ELSE LET top == TopUp(node, i)
                 j   == LowerBound(top.node, key)
             IN  IF HasKeyAt(top.node, j, key)
                 THEN [RemoveFrom(top.node, key, isRoot) EXCEPT !.legal = FALSE]
                 ELSE into(top.node, j, top.legal)

-----------------------------------------------------------------------------
RECURSIVE SearchIn(_, _)
SearchIn(node, key) ==
    LET i == LowerBound(node, key)
    IN  IF HasKeyAt(node, i, key) THEN <<node.values[i]>>
        ELSE IF IsLeaf(node) THEN <<>>
        ELSE SearchIn(node.children[i], key)

(* search(): the value found, as a sequence of at most one. *)
Search(key) == IF root = Null THEN <<>> ELSE SearchIn(root, key)

RECURSIVE InOrder(_)
InOrder(node) ==
    LET entry(i) == <<<<node.keys[i], node.values[i]>>>>
        visit[i \in 0..Len(node.keys)] ==
            IF i = 0 THEN <<>>
            ELSE visit[i - 1] \o (IF IsLeaf(node) THEN <<>> ELSE InOrder(node.children[i])) \o entry(i)
    IN  visit[Len(node.keys)]
            \o (IF IsLeaf(node) THEN <<>> ELSE InOrder(Last(node.children)))

(* Fault: the upper end of the range is left out. *)
ReachesEnd(node, i, hi) == i > Len(node.keys) \/ hi <= node.keys[i]

(* Nothing after child i is in the range. *)
PastEnd(node, i, hi) == i > Len(node.keys) \/ hi < node.keys[i]

RECURSIVE RangeVisit(_, _, _)
RangeVisit(node, lo, hi) ==
    LET RECURSIVE visit(_)
        visit(i) ==
            (IF IsLeaf(node) THEN <<>> ELSE RangeVisit(node.children[i], lo, hi))
            \o (IF PastEnd(node, i, hi) THEN <<>>
                ELSE <<<<node.keys[i], node.values[i]>>>> \o visit(i + 1))
    IN  visit(LowerBound(node, lo))

ForEachInOrder == IF root = Null THEN <<>> ELSE InOrder(root)

ForEachRange(lo, hi) == IF root = Null THEN <<>> ELSE RangeVisit(root, lo, hi)

-----------------------------------------------------------------------------
Init ==
    /\ root = Null
    /\ size = 0
    /\ contents = [k \in {} |-> 0]

InsertKey(key, value) ==
    LET grown  == [keys |-> <<>>, values |-> <<>>, children |-> <<root>>]
        base   == IF IsFull(root) THEN SplitChild(grown, 1) ELSE root
        result == InsertNonFull(base, key, value)
    IN  IF root = Null
        THEN root' = Leaf(key, value) /\ size' = 1
        ELSE /\ root' = result.node
             /\ size' = IF result.inserted THEN size + 1 ELSE size

RemoveKey(key) ==
    LET result == RemoveFrom(root, key, TRUE)
        node   == result.node
    IN  IF root = Null
        THEN UNCHANGED <<root, size>>
        ELSE /\ size' = IF result.removed THEN size - 1 ELSE size
             /\ root' = IF node.keys # <<>> THEN node
                        ELSE IF IsLeaf(node) THEN Null
                        ELSE node.children[1]

(* The value offered for a key that is present differs from the one stored. *)
InsertStep(key) ==
    IF key \in DOMAIN contents
    THEN InsertKey(key, Value(key) + 1) /\ UNCHANGED contents
    ELSE InsertKey(key, Value(key)) /\ contents' = contents @@ (key :> Value(key))

RemoveStep(key) ==
    /\ RemoveKey(key)
    /\ contents' = [k \in DOMAIN contents \ {key} |-> contents[k]]

Next == \E key \in Keys : InsertStep(key) \/ RemoveStep(key)

Spec == Init /\ [][Next]_vars

-----------------------------------------------------------------------------
(* checkNode, with the depth of the leaves as the result of a recursion on  *)
(* the children; 0 stands for "invariants broken".                          *)
RECURSIVE LeafDepth(_, _, _, _)
LeafDepth(node, isRoot, lower, upper) ==
    LET n == Len(node.keys)
        below(i) == LeafDepth(node.children[i], FALSE,
                              IF i = 1 THEN lower ELSE node.keys[i - 1],
                              IF i = n + 1 THEN upper ELSE node.keys[i])
        sound == /\ Len(node.values) = n
                 /\ n \in (IF isRoot THEN 1 ELSE t - 1)..(2 * t - 1)
                 /\ \A i \in 1..n : /\ lower < node.keys[i] /\ node.keys[i] < upper
                                    /\ i > 1 => node.keys[i - 1] < node.keys[i]
    IN  IF ~sound THEN 0
        ELSE IF IsLeaf(node) THEN 1
        ELSE IF Len(node.children) # n + 1 THEN 0
        ELSE LET depths == {below(i) : i \in 1..n + 1}
             IN  IF 0 \in depths \/ Cardinality(depths) > 1 THEN 0 ELSE 1 + below(1)

(* checkInvariants() holds after every sequence of inserts and removes:     *)
(* sorted and separated keys, occupancy of every node, child counts, all    *)
(* leaves at one depth, and the size.                                       *)
CheckInvariants ==
    /\ size = Cardinality(DOMAIN contents)
    /\ IF root = Null THEN size = 0
       ELSE LeafDepth(root, TRUE, -1, 1000) > 0 /\ Len(InOrder(root)) = size

(* Calls change exactly the map they are meant to change: a search finds    *)
(* every key with its own value and no other key, and the in-order walk is  *)
(* the sorted contents, whatever splits, borrows and merges have happened.  *)
HoldsItsContents ==
    /\ \A k \in Keys : Search(k) = IF k \in DOMAIN contents THEN <<contents[k]>> ELSE <<>>
    /\ LET walk == ForEachInOrder IN
         /\ ToSet(walk) = {<<k, contents[k]>> : k \in DOMAIN contents}
         /\ \A i, j \in DOMAIN walk : i < j => walk[i][1] < walk[j][1]

(* The pruned range walk yields the entries in [lo, hi], all of them and in *)
(* order, also where lo > hi.                                               *)
RangeIsExact ==
    LET walk == ForEachInOrder IN
    \A lo, hi \in Keys :
        ForEachRange(lo, hi) = SelectSeq(walk, LAMBDA e : lo <= e[1] /\ e[1] <= hi)

(* Removal never has to backtrack: whatever key is removed next, every      *)
(* recursive call enters the root or a node with t keys or more, merges     *)
(* only siblings of t - 1 keys, and the branch marked defensive is dead.    *)
RemovalNeverBacktracks ==
    root # Null => \A k \in Keys : RemoveFrom(root, k, TRUE).legal
=============================================================================
