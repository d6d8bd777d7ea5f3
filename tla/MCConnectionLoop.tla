-------------------------- MODULE MCConnectionLoop --------------------------
(* Instances of ConnectionLoop: the switchback goroutines are interchangeable. *)
EXTENDS ConnectionLoop, TLC

=============================================================================
