----------------------------- MODULE MCDatabase -----------------------------
(* A small instance of Database.  The two names share a home slot, the last *)
(* one, so that one of them is found past the other or past its tombstone.  *)
EXTENDS Database, TLC

MCNames == 1..2

MCHash(n) == 7

DatabaseSymmetry == Permutations(Threads) \cup Permutations(Objects)
=============================================================================
