----------------------------- MODULE MCMultiJob -----------------------------
(* Instances of MultiJob: the multi-client job asks "a" and then "b"; every single command goes to "a". *)
EXTENDS MultiJob

MCJobClient == [j \in Jobs |-> IF j \in Positions /\ j % 2 = 0 THEN "b" ELSE "a"]
=============================================================================
