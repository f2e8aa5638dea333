----------------------------- MODULE MCTypeAhead -----------------------------
(* Instances of TypeAhead for TLC. *)
EXTENDS TypeAhead, TLC

WindowSymmetry == Permutations(Windows)
==============================================================================
