------------------------------ MODULE TableOps ------------------------------
(***************************************************************************)
(* The operations of a table and what each of them means, run alone, on    *)
(* the contents of the table.  A row is a pair <<id, value>>: the primary  *)
(* key and the tuple of the other columns, abstracted to one value.  The   *)
(* contents map every id to its value or to NoRow.                         *)
(***************************************************************************)
EXTENDS Integers, Sequences, FiniteSets

CONSTANTS Ids,      \* primary keys, a set of integers
          Vals,     \* values a row can hold
          NoRow,    \* the key is absent
          Bad,      \* a value that fails the type check of its column
          Threw,    \* the call ended with an exception
          Preds,    \* predicates of WHERE clauses: sets of rows
          Kinds     \* the methods that are called

ASSUME OpsAssumption ==
    /\ Ids \subseteq Int /\ IsFiniteSet(Ids) /\ Ids # {}
    /\ NoRow \notin Vals /\ Bad \notin Vals /\ NoRow # Bad
    /\ Preds \subseteq SUBSET (Ids \X Vals)

Contents == [Ids -> Vals \cup {NoRow}]

Find(id)            == [kind |-> "findById", id |-> id]
Insert(id, val)     == [kind |-> "insert", id |-> id, val |-> val]
DeleteById(id)      == [kind |-> "deleteById", id |-> id]
RowCount            == [kind |-> "rowCount"]
SelectWhere(pred)   == [kind |-> "selectWhere", pred |-> pred]
SelectIdRange(l, h) == [kind |-> "selectIdRange", lo |-> l, hi |-> h]
DeleteWhere(pred)   == [kind |-> "deleteWhere", pred |-> pred]
UpdateWhere(pred, assignments) ==
    [kind |-> "updateWhere", pred |-> pred, assignments |-> assignments]

AllOps ==
    {Find(id) : id \in Ids} \cup {DeleteById(id) : id \in Ids}
    \cup {Insert(id, v) : id \in Ids, v \in Vals \cup {Bad}}
    \cup {RowCount}
    \cup {SelectWhere(p) : p \in Preds} \cup {DeleteWhere(p) : p \in Preds}
    \cup {SelectIdRange(l, h) : l \in Ids, h \in Ids}
    \cup {UpdateWhere(p, a) : p \in Preds, a \in {<<v>> : v \in Vals} \cup {<<v, Bad>> : v \in Vals}}

Ops == {o \in AllOps : o.kind \in Kinds}

ReadKinds == {"findById", "rowCount", "selectWhere", "selectIdRange"}

-----------------------------------------------------------------------------
(* Is the operation's argument acceptable?  Otherwise it throws. *)
IsValid(o) ==
    CASE o.kind = "insert"      -> o.val # Bad
      [] o.kind = "updateWhere" -> \A i \in DOMAIN o.assignments : o.assignments[i] # Bad
      [] OTHER                  -> TRUE

Present(rows) == {id \in Ids : rows[id] # NoRow}

(* The ids the operation selects, in ascending order as the tree is walked. *)
InOrder(ids) ==
    CHOOSE s \in [1..Cardinality(ids) -> ids] :
        \A i, j \in 1..Cardinality(ids) : i < j => s[i] < s[j]

(* An UPDATE that assigns a column twice: the last assignment stays. *)
NewValue(o) == o.assignments[Len(o.assignments)]

Matches(o, id, val) ==
    IF o.kind = "selectIdRange" THEN id \in o.lo..o.hi ELSE <<id, val>> \in o.pred

Matched(o, rows) == {id \in Present(rows) : Matches(o, id, rows[id])}

(* The contents after the operation. *)
Effect(o, rows) ==
    IF ~IsValid(o) THEN rows ELSE
    CASE o.kind = "insert" /\ rows[o.id] = NoRow -> [rows EXCEPT ![o.id] = o.val]
      [] o.kind = "deleteById"  -> [rows EXCEPT ![o.id] = NoRow]
      [] o.kind = "deleteWhere" ->
            [id \in Ids |-> IF id \in Matched(o, rows) THEN NoRow ELSE rows[id]]
      [] o.kind = "updateWhere" ->
            [id \in Ids |-> IF id \in Matched(o, rows) THEN NewValue(o) ELSE rows[id]]
      [] OTHER -> rows

(* What the operation returns: a Boolean, a count, a value or NoRow, or the *)
(* selected rows in order of id; or it throws.                              *)
Result(o, rows) ==
    IF ~IsValid(o) THEN Threw ELSE
    CASE o.kind = "insert"     -> rows[o.id] = NoRow
      [] o.kind = "deleteById" -> rows[o.id] # NoRow
      [] o.kind = "findById"   -> rows[o.id]
      [] o.kind = "rowCount"   -> Cardinality(Present(rows))
      [] o.kind \in {"selectWhere", "selectIdRange"} ->
            LET ids == InOrder(Matched(o, rows))
            IN  [i \in DOMAIN ids |-> <<ids[i], rows[ids[i]]>>]
      [] o.kind \in {"deleteWhere", "updateWhere"} -> Cardinality(Matched(o, rows))
=============================================================================
