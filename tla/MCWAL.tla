------------------------------- MODULE MCWAL -------------------------------
(***************************************************************************)
(* WAL for TLC: threads are interchangeable, and so are heap pages.        *)
(***************************************************************************)
EXTENDS WAL, TLC

Symmetry == Permutations(Threads) \cup Permutations(Pids)
=============================================================================
