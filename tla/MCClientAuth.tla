---------------------------- MODULE MCClientAuth ----------------------------
(* Instances of ClientAuth: requests and connections are interchangeable.      *)
EXTENDS ClientAuth, TLC

ThreadSymmetry == Permutations(Requests) \cup Permutations(Connections) \cup Permutations(Clients)
=============================================================================
