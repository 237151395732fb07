---------------------------- MODULE MCDumpPublish ----------------------------
(* DumpPublish for TLC: publishers, and directories other than the one     *)
(* that is at the destination first, are interchangeable.                  *)
EXTENDS DumpPublish, TLC

Symmetry == Permutations(Publisher) \cup Permutations(Dir \ {Original})

=============================================================================
