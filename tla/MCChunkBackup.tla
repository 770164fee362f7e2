---------------------------- MODULE MCChunkBackup ----------------------------
(***************************************************************************)
(* Instances of ChunkUses for TLC.                                         *)
(***************************************************************************)
EXTENDS ChunkUses, TLC

CONSTANTS c, d, p, q

\* A file of one chunk, of two, and of twice the same.
SmallFiles == {<<c>>, <<c, d>>}
RepeatedFiles == {<<d>>, <<c, c>>, <<c, d>>}

\* Files of different names.
OwnNames == [x \in Places |-> x]

Symmetric == Permutations(Jobs)

=============================================================================
