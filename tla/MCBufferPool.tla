---------------------------- MODULE MCBufferPool ----------------------------
(***************************************************************************)
(* BufferPool for TLC: worker threads are interchangeable.                 *)
(***************************************************************************)
EXTENDS BufferPool, TLC

Symmetry == Permutations(Threads)
=============================================================================
