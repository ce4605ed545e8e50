------------------------------ MODULE MCTable ------------------------------
(* Small instances of Table.  Two ids and two values; a WHERE clause that   *)
(* selects everything and one that selects by value.                        *)
EXTENDS TableRefinement

MCVals  == {"a", "b"}
MCPreds == {Ids \X MCVals, Ids \X {"a"}}

AllKinds == {o.kind : o \in AllOps}
=============================================================================
