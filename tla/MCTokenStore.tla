---------------------------- MODULE MCTokenStore -----------------------------
(* TokenStore.tla with two administrators: every race is between two.         *)
EXTENDS TokenStore, TLC

Symmetry == Permutations(Admins) \cup Permutations(Labels)
=============================================================================
