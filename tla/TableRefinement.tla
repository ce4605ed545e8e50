-------------------------- MODULE TableRefinement --------------------------
(***************************************************************************)
(* The table shared by threads implements the atomic one: the effect of    *)
(* every method is at the release of its guard.                            *)
(***************************************************************************)
EXTENDS Table

(* A call has its answer once it has released its guard (or has thrown). *)
Answer == [t \in Threads |-> IF pc[t] = "done" THEN result[t] ELSE Pending]

Atomic == INSTANCE AtomicTable WITH
    store <- published, answer <- Answer, Empty <- [id \in Ids |-> NoRow]

(* Every call on a table is linearizable: findById (from the cache or from  *)
(* the tree), scans, counts, inserts and bulk writes behave as if each had  *)
(* happened at one instant, and a call that throws has changed nothing.     *)
Linearizable == Atomic!TableSpec
=============================================================================
