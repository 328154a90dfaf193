---------------------------- MODULE MCRepository ----------------------------
(* Symmetry of the repository's model for TLC: ids and values only ever      *)
(* compare equal or not.                                                     *)
EXTENDS Repository, TLC

Interchangeable == Permutations(Ids) \cup Permutations(Values)
=============================================================================
