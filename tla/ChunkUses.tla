------------------------------ MODULE ChunkUses ------------------------------
(***************************************************************************)
(* The ways a program can call ChunkBackup: collecting, with backups to    *)
(* any snapshots; reloading, with all backups to one snapshot; or both.    *)
(* The library enforces none of them.                                      *)
(***************************************************************************)
EXTENDS ChunkBackup

CONSTANTS first, \* the snapshot metadata is reloaded from
          Uses   \* the ways considered

ASSUME UsesAssumption == first \in Snapshots /\ Uses \subseteq {"collect", "reload", "both"}

VARIABLE use

UseInit == Init /\ use \in Uses

UseNext ==
    /\ UNCHANGED use
    /\ \/ \E j \in Jobs : Backup(j)
       \/ use # "reload" /\ \E s \in Snapshots : gc(s)
       \/ use # "collect" /\ load_meta(first)
       \/ Restart
       \/ Tick
    /\ use = "reload" =>
           \A j \in Jobs : job'[j] = Idle \/ job'[j].snapshot = first

UseSpec == UseInit /\ [][UseNext]_<<vars, use>>

-----------------------------------------------------------------------------
(* Properties.                                                             *)

\* Backups of one snapshot, also concurrent ones and after a restart that loads
\* the metadata again, can be restored from it, but for ruined chunks.
SharedRestores == use = "reload" => SavedRestores

\* The invariant behind it: whatever a saved manifest, a backup under way, the
\* store's knowledge or the saved metadata counts on is whole in that snapshot or
\* ruined, and is known or forgotten.
Here == (whole[first] \cup ruined) \cap Remembered
JobHere(j) ==
    job[j] # Idle =>
        /\ job[j].snapshot = first
        /\ ChunksOf(job[j].manifest.files) \subseteq Here
        /\ ChunksOf(job[j].file) \subseteq Here \cup Elems(job[j].rest)
        /\ job[j].pc # "chunks" => job[j].file = {}
HereInv ==
    /\ Live \subseteq Here
    /\ \A s \in Snapshots \ {first} : manifests[s] = {}
    /\ meta.stored_hashes \subseteq Here
    /\ \A m \in saved[first] : m.stored_hashes \subseteq Here
    /\ \A j \in Jobs : JobHere(j)
ReloadInv == use = "reload" => HereInv

=============================================================================
