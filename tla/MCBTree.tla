------------------------------ MODULE MCBTree ------------------------------
(* Small instances of BTree.                                                *)
EXTENDS BTree

MCKeys     == 1..11
MCValue(k) == 10 * k
=============================================================================
