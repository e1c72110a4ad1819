---------------------------- MODULE MCBlockRunner ----------------------------
(* BlockRunner for TLC: threads are interchangeable, and so are the         *)
(* assertions that no earlier round has mined.                              *)
EXTENDS BlockRunner, TLC

Threads == Permutations(Workers)
ThreadsAndNews == Threads \cup Permutations(Assertions \ MinedBefore)
=============================================================================
