----------------------------- MODULE MCAuditLog -----------------------------
(***************************************************************************)
(* Instances of AuditLog for TLC.                                          *)
(***************************************************************************)
EXTENDS AuditLog, TLC

\* No two contents have the same characters.
MCCharacters == [b \in Bodies |-> {b}]

\* The contents of entries are interchangeable.
Symmetric == Permutations(Bodies)

=============================================================================
