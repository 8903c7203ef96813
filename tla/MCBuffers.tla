------------------------------ MODULE MCBuffers ------------------------------
(* Which BufferInfo the heap returns does not matter.                         *)
EXTENDS Buffers, TLC

Alike == Permutations(Buffers)
=============================================================================
