--------------------------- MODULE MCLinkedList -----------------------------
(* LinkedList for TLC: which item a node is pushed with.                      *)
EXTENDS LinkedList, TLC

CONSTANTS tcl, ct, n1, n2, n3, n4, x, y

\* A node has the structure it is embedded in as its item; two share one here, so
\* that IocpLLPopAllCompare can match more than one.
Items2 == [n \in Nodes |-> IF n \in {n1, n2} THEN {x} ELSE {y}]

Alike == Permutations({n1, n2}) \cup Permutations({tcl, ct})
=============================================================================
