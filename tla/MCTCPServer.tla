---------------------------- MODULE MCTCPServer ----------------------------
(* Small instances of TCPServer.                                            *)
EXTENDS TCPServer, TLC

WorkerSymmetry == Permutations(Workers)

WorkerAndClientSymmetry == Permutations(Workers) \cup Permutations(Clients)
=============================================================================
