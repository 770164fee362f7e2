----------------------------- MODULE ChunkBackup -----------------------------
(***************************************************************************)
(* The deduplicating chunk backup (openvault-core/src/incremental.rs):     *)
(* IncrementalBackup splits files into chunks, ChunkStore keeps each chunk *)
(* once under the id of the snapshot being made, a manifest says which     *)
(* chunks a file consists of, and BackupRestore puts them together again.  *)
(*                                                                         *)
(* A chunk and its hash are the same thing here.  A chunk file counts as   *)
(* there when it is whole: BackupRestore fails on a missing one and, by    *)
(* the hash of the file, on an emptied or truncated one.  Chunks are of    *)
(* size 1.  Several threads may use one IncrementalBackup; store_chunk,    *)
(* save_meta and gc hold its lock.                                         *)
(***************************************************************************)
EXTENDS Integers, FiniteSets, Sequences

CONSTANTS
    Chunks,       \* the chunks files are made of
    Contents,     \* the files: sequences of chunks, as the chunker cuts them
    Places,       \* where files lie in the source tree
    Basename,     \* the last component of each place
    Snapshots,    \* the snapshot ids callers back up to
    Jobs,         \* threads
    Collects,     \* callers use gc
    Reloads,      \* callers use load_meta
    MaxBackups,   \* bound: backups started
    MaxRestarts,  \* bound: restarts of the process
    MaxClock      \* bound: seconds

ASSUME ChunkAssumption ==
    /\ IsFiniteSet(Chunks) /\ Contents \subseteq Seq(Chunks)
    /\ {Collects, Reloads} \subseteq BOOLEAN
    /\ MaxBackups \in Nat /\ MaxRestarts \in Nat /\ MaxClock \in Nat

Names == {Basename[p] : p \in Places}

\* ChunkStoreMeta; the count of duplicates is only reported and left out.
Meta == [stored_hashes : SUBSET Chunks, total_chunks : Nat, total_bytes : Nat]

FileChunks == [path : Names, chunk_hashes : Contents]

\* parent_id is the set of the one parent, or empty; an id is its second.
Manifest == [id : 0..MaxClock, parent_id : SUBSET (0..MaxClock), files : SUBSET FileChunks,
             new_chunk_count : Nat, total_stored_size : Nat]

Idle == [pc |-> "idle"]

Job == {Idle} \cup
    [pc : {"files", "chunks", "manifest", "meta"},
     snapshot : Snapshots, manifest : Manifest,
     done : SUBSET Places,       \* the files read
     file : SUBSET FileChunks,   \* the one at hand, if any,
     rest : Seq(Chunks)]         \* and its chunks not yet stored

Busy(pc, s, m, done, file, rest) ==
    [pc |-> pc, snapshot |-> s, manifest |-> m, done |-> done, file |-> file, rest |-> rest]

VARIABLES
    whole,      \* per snapshot: the chunks whose file is whole
    manifests,  \* per snapshot: the manifests saved
    saved,      \* per snapshot: the metadata saved, if any
    meta,       \* the metadata in memory
    job,
    backups, restarts, clock,
    forgotten,  \* history: chunks once known that a restart or load_meta made unknown
    ruined      \* history: those of them whose file a broken-off write then destroyed

history == <<forgotten, ruined>>

vars == <<whole, manifests, saved, meta, job, backups, restarts, clock, history>>

\* Every part holds values of its kind: in particular total_chunks, an unsigned number
\* from which gc subtracts, never goes below zero.
TypeOK ==
    /\ whole \in [Snapshots -> SUBSET Chunks]
    /\ manifests \in [Snapshots -> SUBSET Manifest]
    /\ saved \in [Snapshots -> SUBSET Meta]
    /\ meta \in Meta
    /\ job \in [Jobs -> Job]
    /\ backups \in 0..MaxBackups /\ restarts \in 0..MaxRestarts /\ clock \in 0..MaxClock
    /\ forgotten \subseteq Chunks /\ ruined \subseteq Chunks

NewMeta == [stored_hashes |-> {}, total_chunks |-> 0, total_bytes |-> 0]

Init ==
    /\ whole = [s \in Snapshots |-> {}]
    /\ manifests = [s \in Snapshots |-> {}]
    /\ saved = [s \in Snapshots |-> {}]
    /\ meta = NewMeta
    /\ job = [j \in Jobs |-> Idle]
    /\ backups = 0 /\ restarts = 0 /\ clock = 0
    /\ forgotten = {} /\ ruined = {}

Elems(seq) == {seq[i] : i \in DOMAIN seq}

ChunksOf(files) == UNION {Elems(f.chunk_hashes) : f \in files}

\* The chunks of all saved manifests (referenced_chunk_hashes).
Live == UNION {ChunksOf(m.files) : m \in UNION {manifests[s] : s \in Snapshots}}

AllIdle == \A j \in Jobs : job[j] = Idle

-----------------------------------------------------------------------------
(* A backup.                                                               *)

NewManifest(parent) ==
    [id |-> clock, parent_id |-> parent, files |-> {},
     new_chunk_count |-> 0, total_stored_size |-> 0]

\* backup_full, and backup_incremental whose parent is a manifest loaded before.
Start(j, s, parent) ==
    /\ job[j] = Idle /\ backups < MaxBackups
    /\ backups' = backups + 1
    /\ job' = [job EXCEPT ![j] = Busy("files", s, NewManifest(parent), {}, {}, <<>>)]
    /\ UNCHANGED <<whole, manifests, saved, meta, restarts, clock, history>>

\* backup_directory calls backup_file with the directory of the file as its base,
\* so a file is known by its last component.  What a read finds is up to the user.
ReadFile(j, p, d) ==
    LET k == job[j] f == [path |-> Basename[p], chunk_hashes |-> d] IN
    /\ k.pc = "files" /\ p \notin k.done
    /\ job' = [job EXCEPT ![j] =
                  Busy("chunks", k.snapshot, k.manifest, k.done \cup {p}, {f}, d)]
    /\ UNCHANGED <<whole, manifests, saved, meta, backups, restarts, clock, history>>

Known(h) == h \in meta.stored_hashes

Counted(h) == [stored_hashes |-> meta.stored_hashes \cup {h},
               total_chunks |-> meta.total_chunks + 1,
               total_bytes |-> meta.total_bytes + 1]

\* store_chunk.
StoreChunk(j) ==
    LET k == job[j]
        h == Head(k.rest)
        m == IF Known(h) THEN k.manifest ELSE [k.manifest EXCEPT !.new_chunk_count = @ + 1]
    IN
    /\ k.pc = "chunks" /\ k.rest # <<>>
    /\ job' = [job EXCEPT ![j] =
                  Busy("chunks", k.snapshot, m, k.done, k.file, Tail(k.rest))]
    /\ IF Known(h)
          THEN UNCHANGED <<whole, meta, history>>
          ELSE /\ whole' = [whole EXCEPT ![k.snapshot] = @ \cup {h}]
               /\ meta' = Counted(h)
               /\ forgotten' = forgotten \ {h} /\ ruined' = ruined \ {h}
    /\ UNCHANGED <<manifests, saved, backups, restarts, clock>>

\* Mutant: the chunk counts as stored before it is.
StoreFailsLate(j) ==
    LET h == Head(job[j].rest) IN
    /\ job[j].pc = "chunks" /\ job[j].rest # <<>> /\ ~Known(h)
    /\ meta' = Counted(h)
    /\ job' = [job EXCEPT ![j] = Idle]
    /\ UNCHANGED <<whole, manifests, saved, backups, restarts, clock, history>>

\* The chunk cannot be written, the backup ends with the error.  The local storage
\* (std::fs::write) has then destroyed a file of that name; another may not have.
StoreFails(j) ==
    LET h == Head(job[j].rest) s == job[j].snapshot IN
    /\ job[j].pc = "chunks" /\ job[j].rest # <<>> /\ ~Known(h)
    /\ \/ UNCHANGED <<whole, ruined>>
       \/ /\ whole' = [whole EXCEPT ![s] = @ \ {h}]
          /\ ruined' = ruined \cup ({h} \cap forgotten)
    /\ job' = [job EXCEPT ![j] = Idle]
    /\ UNCHANGED <<manifests, saved, meta, backups, restarts, clock, forgotten>>

\* add_file: of two files of one path the last remains.
AddFile(files, f) == {g \in files : g.path # f.path} \cup {f}

\* The chunks counted as stored for a file: those the store does not know, now
\* that it has stored them (chunk_exists_before_store).
StoredSize(f) == Cardinality({i \in DOMAIN f.chunk_hashes : ~Known(f.chunk_hashes[i])})

FileDone(j) ==
    LET k == job[j]
        WithFile(f) == [k.manifest EXCEPT !.files = AddFile(@, f),
                                          !.total_stored_size = @ + StoredSize(f)]
    IN
    /\ k.pc = "chunks" /\ k.rest = <<>>
    /\ \E f \in k.file :
          job' = [job EXCEPT ![j] = Busy("files", k.snapshot, WithFile(f), k.done, {}, <<>>)]
    /\ UNCHANGED <<whole, manifests, saved, meta, backups, restarts, clock, history>>

\* The directories have no more files.
Listed(j) ==
    LET k == job[j] IN
    /\ k.pc = "files"
    /\ job' = [job EXCEPT ![j] = Busy("manifest", k.snapshot, k.manifest, k.done, {}, <<>>)]
    /\ UNCHANGED <<whole, manifests, saved, meta, backups, restarts, clock, history>>

\* A manifest of the same id is overwritten.
SaveManifest(j) ==
    LET k == job[j] m == k.manifest s == k.snapshot IN
    /\ k.pc = "manifest"
    /\ manifests' = [manifests EXCEPT ![s] = {n \in @ : n.id # m.id} \cup {m}]
    /\ job' = [job EXCEPT ![j] = Busy("meta", s, m, k.done, {}, <<>>)]
    /\ UNCHANGED <<whole, saved, meta, backups, restarts, clock, history>>

SaveMeta(j) ==
    /\ job[j].pc = "meta"
    /\ saved' = [saved EXCEPT ![job[j].snapshot] = {meta}]
    /\ job' = [job EXCEPT ![j] = Idle]
    /\ UNCHANGED <<whole, manifests, meta, backups, restarts, clock, history>>

\* A file that cannot be read, or a manifest or metadata that cannot be written,
\* ends the backup; what it was to replace is lost or not.
Abort(j) ==
    LET s == job[j].snapshot IN
    /\ job[j].pc \in {"files", "manifest", "meta"}
    /\ manifests' \in {manifests} \cup
          (IF job[j].pc = "manifest"
             THEN {[manifests EXCEPT ![s] = {n \in @ : n.id # job[j].manifest.id}]} ELSE {})
    /\ saved' \in {saved} \cup
          (IF job[j].pc = "meta" THEN {[saved EXCEPT ![s] = {}]} ELSE {})
    /\ job' = [job EXCEPT ![j] = Idle]
    /\ UNCHANGED <<whole, meta, backups, restarts, clock, history>>

-----------------------------------------------------------------------------
(* What callers do with the store between backups; live_hashes would miss  *)
(* the chunks of a backup that has not saved its manifest.                 *)

\* Mutants: the hashes stay known; the count stays.
Dropped(dead) == [meta EXCEPT !.total_chunks = @ - Cardinality(dead)]
\* The metadata without the collected chunks: total_bytes stays.
Collected(dead) == [stored_hashes |-> meta.stored_hashes \ dead,
                    total_chunks |-> meta.total_chunks - Cardinality(dead),
                    total_bytes |-> meta.total_bytes]

\* gc: every known chunk no saved manifest uses is emptied, in one snapshot; an
\* error of the storage is ignored.
gc(s) ==
    LET dead == meta.stored_hashes \ Live IN
    /\ Collects /\ AllIdle
    /\ \E emptied \in SUBSET dead : whole' = [whole EXCEPT ![s] = @ \ emptied]
    /\ meta' = Collected(dead)
    /\ UNCHANGED <<manifests, saved, job, backups, restarts, clock, history>>

load_meta(s) ==
    /\ Reloads /\ AllIdle
    /\ \E m \in saved[s] :
          /\ meta' = m
          /\ forgotten' = (forgotten \cup meta.stored_hashes) \ m.stored_hashes
    /\ UNCHANGED <<whole, manifests, saved, job, backups, restarts, clock, ruined>>

\* The process dies and is started again, with a new ChunkStore.  A death in the
\* middle of a write is that write's failure and then this step.
Restart ==
    /\ restarts < MaxRestarts
    /\ restarts' = restarts + 1
    /\ meta' = NewMeta
    /\ forgotten' = forgotten \cup meta.stored_hashes
    /\ job' = [j \in Jobs |-> Idle]
    /\ UNCHANGED <<whole, manifests, saved, backups, clock, ruined>>

Tick ==
    /\ clock < MaxClock
    /\ clock' = clock + 1
    /\ UNCHANGED <<whole, manifests, saved, meta, job, backups, restarts, history>>

Parents == {{}} \cup {{m.id} : m \in UNION {manifests[s] : s \in Snapshots}}

Backup(j) ==
    \/ \E s \in Snapshots, parent \in Parents : Start(j, s, parent)
    \/ \E p \in Places, d \in Contents : ReadFile(j, p, d)
    \/ StoreChunk(j) \/ StoreFails(j) \/ FileDone(j) \/ Listed(j)
    \/ SaveManifest(j) \/ SaveMeta(j) \/ Abort(j)

Next ==
    \/ \E j \in Jobs : Backup(j)
    \/ \E s \in Snapshots : gc(s) \/ load_meta(s)
    \/ Restart \/ Tick

Spec == Init /\ [][Next]_vars

-----------------------------------------------------------------------------
(* Properties.                                                             *)

\* restore_file finds every chunk of a file, but for ruined ones.
Restorable(s, f) == Elems(f.chunk_hashes) \subseteq whole[s] \cup ruined

\* Every manifest saved under a snapshot can be restored from that snapshot, the only
\* one retrieve_chunk looks in, unless a chunk of it was ruined: a store that knows a
\* chunk does not write it again, one that has forgotten it does, in place.
SavedRestores ==
    \A s \in Snapshots : \A m \in manifests[s] : \A f \in m.files : Restorable(s, f)

Somewhere == UNION {whole[s] : s \in Snapshots}

\* No chunk a saved manifest needs, or the store takes for stored, is lost: some
\* snapshot has it, or the store had forgotten it and a broken-off write ruined it.
NothingLost == Live \cup meta.stored_hashes \subseteq Somewhere \cup ruined

\* Callers do not reload metadata saved before a collection.
CarefulCallers == Reloads => ~Collects

\* The invariant behind it, for such callers: what a saved manifest, a backup under
\* way or the metadata of save_meta counts on is somewhere or ruined, and is known or
\* forgotten, so that no write can destroy it unrecorded.
Remembered == meta.stored_hashes \cup forgotten
Reliable == (Somewhere \cup ruined) \cap Remembered
JobKept(j) ==
    job[j] # Idle =>
        /\ ChunksOf(job[j].manifest.files) \subseteq Reliable
        /\ ChunksOf(job[j].file) \subseteq Reliable \cup Elems(job[j].rest)
        /\ job[j].pc # "chunks" => job[j].file = {} /\ job[j].rest = <<>>
SavedKept ==
    Reloads => \A s \in Snapshots : \A m \in saved[s] : m.stored_hashes \subseteq Reliable
ChunkInv ==
    /\ Live \subseteq Reliable /\ meta.stored_hashes \subseteq Reliable
    /\ \A j \in Jobs : JobKept(j)
    /\ SavedKept

\* total_chunks is the number of known chunks, so that gc cannot underflow it.
CountsKnown == meta.total_chunks = Cardinality(meta.stored_hashes)

=============================================================================
