------------------------------ MODULE MCCache ------------------------------
(* Cache with interchangeable keys: every hash function is tried, so that  *)
(* exchanging two keys gives another behaviour of the model.               *)
EXTENDS Cache, TLC

Symmetry == Permutations(Url)
=============================================================================
