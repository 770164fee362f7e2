--------------------------- MODULE MCReplication ----------------------------
(***************************************************************************)
(* Instances of Replication for TLC.                                       *)
(***************************************************************************)
EXTENDS Replication, TLC

CONSTANTS b0, b1, b2

\* All backends are directories, as the command line creates them.
LocalMedia == [b \in Backends |-> "local"]

\* A local primary, a second disk and a bucket.
MixedMedia == (b0 :> "local") @@ (b1 :> "local") @@ (b2 :> "s3")

OffsiteNames == {"s3", "r2", "openlink"}

\* Files are interchangeable, and so are jobs.
Symmetric == Permutations(Files) \cup Permutations(Jobs)

=============================================================================
