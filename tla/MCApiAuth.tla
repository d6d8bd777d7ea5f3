----------------------------- MODULE MCApiAuth ------------------------------
(* Instances of ApiAuth: the requests under way are interchangeable.           *)
EXTENDS ApiAuth, TLC

SlotSymmetry == Permutations(Slots)
=============================================================================
