------------------------------ MODULE MCServer ------------------------------
(* Listeners, connections and interpreters are alike.                          *)
EXTENDS Server, TLC

Alike == Permutations(Listeners) \cup Permutations(Conns) \cup Permutations(Interps)
=============================================================================
