-------------------------- MODULE MCLockFreeQueue --------------------------
(* A small instance of LockFreeQueue: with four nodes, addresses of deleted *)
(* nodes are reused while producers are in the middle of push().            *)
EXTENDS LockFreeQueue
=============================================================================
