-------------------------- MODULE MCSocketLifetime --------------------------
(* SocketLifetime for TLC: accepted sockets are interchangeable.            *)
EXTENDS SocketLifetime, TLC

ClientSymmetry == Permutations(Clients)
=============================================================================
