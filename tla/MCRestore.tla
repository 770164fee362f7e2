------------------------------ MODULE MCRestore ------------------------------
(* Model values and bounds for Restore. *)
EXTENDS Restore, TLC

CONSTANTS a, b, a1, x, y

MCFiles == {a, b}
MCPaths == {a, b, a1}

\* A file may have a name that the rename strategy tries for another one.
MCRenames == (a :> <<b, a1>>) @@ (b :> <<a1>>)

MCOriginal == (a :> x) @@ (b :> y)

MCOptions ==
    {[strategy |-> "rename", verify |-> TRUE, filter |-> {a, b}],
     [strategy |-> "overwrite", verify |-> TRUE, filter |-> {b}],
     [strategy |-> "skip", verify |-> FALSE, filter |-> {b}]}

Symmetric == Permutations(Jobs) \cup Permutations(Masters)

=============================================================================
