---------------------------- MODULE MCSpecialLane ----------------------------
(* Instance of SpecialLane for TLC. *)
EXTENDS SpecialLane, TLC

Symmetry == Permutations(Docs) \union Permutations(Users)
=============================================================================
