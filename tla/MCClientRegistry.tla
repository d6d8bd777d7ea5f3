-------------------------- MODULE MCClientRegistry --------------------------
(* Instances of ClientRegistry for TLC.  Client ids are interchangeable     *)
(* model values.                                                            *)
EXTENDS ClientRegistry, TLC

Symmetry == Permutations(ClientIds)
=============================================================================
