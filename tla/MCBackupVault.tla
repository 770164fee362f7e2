--------------------------- MODULE MCBackupVault ----------------------------
(***************************************************************************)
(* Instances of BackupVault for TLC.                                       *)
(***************************************************************************)
EXTENDS BackupVault, TLC

CONSTANTS c1, c2

MCContents == {c1, c2}

\* Two contents of one length: only the mtime tells them apart.
EqualSizes == [c \in MCContents |-> 1]

\* Contents of one length are interchangeable, and so are process slots.
Symmetric == Permutations(MCContents) \cup Permutations(Workers)

=============================================================================
