-------------------------- MODULE ChunkBackupProofs --------------------------
(***************************************************************************)
(* Theorems about ChunkBackup and ChunkUses for every choice of constants. *)
(***************************************************************************)
EXTENDS ChunkUses, FiniteSetTheorems, SequenceTheorems, TLAPS

-----------------------------------------------------------------------------
(* Types.                                                                  *)

\* What a job that is not idle consists of.
LEMMA BusyJob ==
    ASSUME TypeOK, NEW j \in Jobs, job[j] # Idle
    PROVE  /\ job[j].pc \in {"files", "chunks", "manifest", "meta"}
           /\ job[j].snapshot \in Snapshots /\ job[j].manifest \in Manifest
           /\ job[j].done \in SUBSET Places /\ job[j].file \in SUBSET FileChunks
           /\ job[j].rest \in Seq(Chunks)
  <1>1. job[j] \in Job
    BY DEF TypeOK
  <1>. QED  BY <1>1 DEF Job

\* An idle job has no other program counter.
LEMMA BusyByPc ==
    ASSUME NEW j, job[j].pc \in {"files", "chunks", "manifest", "meta"}
    PROVE  job[j] # Idle
  BY DEF Idle

\* The first chunk of a file and the rest of it.
LEMMA HeadTail ==
    ASSUME NEW S, NEW s \in Seq(S), s # <<>>
    PROVE  /\ Head(s) \in S /\ Tail(s) \in Seq(S)
           /\ Elems(s) = {Head(s)} \cup Elems(Tail(s))
  <1>1. Head(s) \in S /\ Tail(s) \in Seq(S)
    BY EmptySeq, HeadTailProperties
  <1>2. Len(s) \in Nat /\ Len(s) > 0 /\ Len(Tail(s)) = Len(s) - 1
    BY EmptySeq, HeadTailProperties
  <1>3. \A i \in 1..Len(Tail(s)) : Tail(s)[i] = s[i + 1]
    BY HeadTailProperties
  <1>4. DOMAIN s = 1..Len(s) /\ DOMAIN Tail(s) = 1..Len(Tail(s)) /\ Head(s) = s[1]
    BY <1>1, <1>2
  <1>5. ASSUME NEW i \in 1..Len(s)
        PROVE  s[i] \in {Head(s)} \cup Elems(Tail(s))
    <2>1. CASE i = 1
      BY <1>4, <2>1
    <2>2. CASE i # 1
      <3>1. i - 1 \in 1..Len(Tail(s)) /\ (i - 1) + 1 = i
        BY <1>2, <1>5, <2>2
      <3>. QED  BY <1>3, <1>4, <3>1 DEF Elems
    <2>. QED  BY <2>1, <2>2
  <1>6. ASSUME NEW i \in 1..Len(Tail(s))
        PROVE  Tail(s)[i] \in Elems(s)
    <2>1. i + 1 \in 1..Len(s)
      BY <1>2, <1>6
    <2>. QED  BY <1>3, <1>4, <2>1 DEF Elems
  <1>7. Head(s) \in Elems(s)
    BY <1>2, <1>4 DEF Elems
  <1>. QED  BY <1>1, <1>4, <1>5, <1>6, <1>7 DEF Elems

\* The number of a file's chunks with any property is a natural number.
LEMMA StoredSizeType ==
    ASSUME NEW f \in FileChunks
    PROVE  StoredSize(f) \in Nat
  <1> DEFINE c == f.chunk_hashes
             unknown == {i \in DOMAIN c : ~Known(c[i])}
  <1>1. c \in Seq(Chunks)
    BY ChunkAssumption DEF FileChunks
  <1>2. DOMAIN c = 1..Len(c) /\ Len(c) \in Nat
    BY <1>1
  <1>3. IsFiniteSet(1..Len(c))
    BY <1>2, FS_Interval
  <1>4. unknown \subseteq 1..Len(c)
    BY <1>2
  <1>5. IsFiniteSet(unknown)
    BY <1>3, <1>4, FS_Subset
  <1>. QED  BY <1>5, FS_CardinalityType DEF StoredSize

\* A new value of one job keeps the type of all.
LEMMA JobUpdate ==
    ASSUME TypeOK, NEW j \in Jobs, NEW r \in Job, job' = [job EXCEPT ![j] = r]
    PROVE  job' \in [Jobs -> Job]
  BY DEF TypeOK

\* A busy job made of values of the right kinds is one.
LEMMA BusyType ==
    ASSUME NEW pc \in {"files", "chunks", "manifest", "meta"}, NEW s \in Snapshots,
           NEW m \in Manifest, NEW done \in SUBSET Places, NEW file \in SUBSET FileChunks,
           NEW rest \in Seq(Chunks)
    PROVE  Busy(pc, s, m, done, file, rest) \in Job
  BY DEF Busy, Job

\* The job after each step of a backup.
LEMMA BackupJobs ==
    ASSUME TypeOK, NEW j \in Jobs, Backup(j)
    PROVE  job' \in [Jobs -> Job]
  <1> DEFINE k == job[j]
  <1>1. ASSUME NEW s \in Snapshots, NEW parent \in Parents, Start(j, s, parent)
        PROVE  job' \in [Jobs -> Job]
    <2>1. parent \in SUBSET (0..MaxClock)
      BY DEF Parents, TypeOK, Manifest
    <2>2. NewManifest(parent) \in Manifest
      BY <2>1 DEF NewManifest, Manifest, TypeOK
    <2>3. <<>> \in Seq(Chunks)
      BY EmptySeq
    <2>4. Busy("files", s, NewManifest(parent), {}, {}, <<>>) \in Job
      BY <2>2, <2>3, BusyType
    <2>. QED  BY <1>1, <2>4, JobUpdate DEF Start
  <1>2. CASE k # Idle
    <2>1. /\ k.snapshot \in Snapshots /\ k.manifest \in Manifest
          /\ k.done \in SUBSET Places /\ k.file \in SUBSET FileChunks
          /\ k.rest \in Seq(Chunks) /\ <<>> \in Seq(Chunks)
      BY <1>2, BusyJob, EmptySeq
    <2>2. ASSUME NEW p \in Places, NEW d \in Contents, ReadFile(j, p, d)
          PROVE  job' \in [Jobs -> Job]
      <3> DEFINE f == [path |-> Basename[p], chunk_hashes |-> d]
                 r == Busy("chunks", k.snapshot, k.manifest, k.done \cup {p}, {f}, d)
      <3>1. f \in FileChunks /\ d \in Seq(Chunks)
        BY ChunkAssumption DEF FileChunks, Names
      <3>2. r \in Job
        <4>. HIDE DEF f, k
        <4>. QED  BY <2>1, <3>1, BusyType
      <3>3. job' = [job EXCEPT ![j] = r]
        BY <2>2 DEF ReadFile
      <3>. QED  BY <3>2, <3>3, JobUpdate
    <2>3. ASSUME StoreChunk(j)
          PROVE  job' \in [Jobs -> Job]
      <3> DEFINE m == IF Known(Head(k.rest)) THEN k.manifest
                      ELSE [k.manifest EXCEPT !.new_chunk_count = @ + 1]
                 r == Busy("chunks", k.snapshot, m, k.done, k.file, Tail(k.rest))
      <3>1. Tail(k.rest) \in Seq(Chunks)
        BY <2>1, <2>3, HeadTail DEF StoreChunk
      <3>2. m \in Manifest
        <4>. HIDE DEF k
        <4>. QED  BY <2>1 DEF Manifest
      <3>3. r \in Job
        <4>. HIDE DEF k, m
        <4>. QED  BY <2>1, <3>1, <3>2, BusyType
      <3>4. job' = [job EXCEPT ![j] = r]
        BY <2>3 DEF StoreChunk
      <3>. QED  BY <3>3, <3>4, JobUpdate
    <2>4. ASSUME FileDone(j)
          PROVE  job' \in [Jobs -> Job]
      <3> DEFINE m(f) == [k.manifest EXCEPT !.files = AddFile(@, f),
                                            !.total_stored_size = @ + StoredSize(f)]
                 r(f) == Busy("files", k.snapshot, m(f), k.done, {}, <<>>)
      <3>1. PICK f \in k.file : job' = [job EXCEPT ![j] = r(f)]
        BY <2>4 DEF FileDone
      <3> DEFINE files == AddFile(k.manifest.files, f)
                 size == k.manifest.total_stored_size + StoredSize(f)
      <3>2. files \in SUBSET FileChunks
        BY <2>1 DEF AddFile, Manifest
      <3>3. size \in Nat
        BY <2>1, StoredSizeType DEF Manifest
      <3>4. [k.manifest EXCEPT !.files = files, !.total_stored_size = size] \in Manifest
        <4>. HIDE DEF files, size, k
        <4>. QED  BY <2>1, <3>2, <3>3 DEF Manifest
      <3>5. m(f) \in Manifest
        BY <3>4
      <3>6. r(f) \in Job
        <4>. HIDE DEF m, k
        <4>. QED  BY <2>1, <3>5, BusyType
      <3>. QED  BY <3>1, <3>6, JobUpdate
    <2>5. ASSUME Listed(j) \/ SaveManifest(j)
          PROVE  job' \in [Jobs -> Job]
      <3> DEFINE r(pc) == Busy(pc, k.snapshot, k.manifest, k.done, {}, <<>>)
      <3>1. r("manifest") \in Job /\ r("meta") \in Job
        <4>. HIDE DEF k
        <4>. QED  BY <2>1, BusyType
      <3>2. job' = [job EXCEPT ![j] = r("manifest")] \/ job' = [job EXCEPT ![j] = r("meta")]
        BY <2>5 DEF Listed, SaveManifest
      <3>. QED  BY <3>1, <3>2, JobUpdate
    <2>6. ASSUME StoreFails(j) \/ SaveMeta(j) \/ Abort(j)
          PROVE  job' \in [Jobs -> Job]
      <3>1. job' = [job EXCEPT ![j] = Idle] /\ Idle \in Job
        BY <2>6 DEF StoreFails, SaveMeta, Abort, Job
      <3>. QED  BY <3>1, JobUpdate
    <2>. QED  BY <1>1, <2>2, <2>3, <2>4, <2>5, <2>6 DEF Backup
  <1>3. CASE k = Idle
    <2>1. k.pc = "idle"
      BY <1>3 DEF Idle
    <2>2. /\ \A p \in Places, d \in Contents : ~ReadFile(j, p, d)
          /\ ~StoreChunk(j) /\ ~StoreFails(j) /\ ~FileDone(j) /\ ~Listed(j)
          /\ ~SaveManifest(j) /\ ~SaveMeta(j) /\ ~Abort(j)
      BY <2>1 DEF ReadFile, StoreChunk, StoreFails, FileDone, Listed, SaveManifest,
                  SaveMeta, Abort
    <2>. QED  BY <1>1, <2>2 DEF Backup
  <1>. QED  BY <1>2, <1>3

\* The saved metadata counts right, as the one in memory does.
SavedCounted ==
    \A s \in Snapshots : \A m \in saved[s] : m.total_chunks = Cardinality(m.stored_hashes)

Counting == TypeOK /\ CountsKnown /\ SavedCounted

\* Sets of chunks are finite.
LEMMA ChunksFinite ==
    ASSUME NEW S \in SUBSET Chunks
    PROVE  IsFiniteSet(S) /\ Cardinality(S) \in Nat
  BY ChunkAssumption, FS_Subset, FS_CardinalityType

\* A chunk that was not known makes one more.
LEMMA CountOne ==
    ASSUME TypeOK, CountsKnown, NEW h \in Chunks, ~Known(h)
    PROVE  /\ Counted(h) \in Meta
           /\ Counted(h).total_chunks = Cardinality(Counted(h).stored_hashes)
  <1>1. meta.stored_hashes \in SUBSET Chunks /\ meta.total_chunks \in Nat
        /\ meta.total_bytes \in Nat
    BY DEF TypeOK, Meta
  <1>2. IsFiniteSet(meta.stored_hashes)
    BY <1>1, ChunksFinite
  <1>3. Cardinality(meta.stored_hashes \cup {h}) = Cardinality(meta.stored_hashes) + 1
    BY <1>2, FS_AddElement DEF Known
  <1>. QED  BY <1>1, <1>3 DEF Counted, Meta, CountsKnown

\* Collecting known chunks never takes the count below zero.
LEMMA CountGone ==
    ASSUME TypeOK, CountsKnown, NEW dead \in SUBSET meta.stored_hashes
    PROVE  /\ Collected(dead) \in Meta
           /\ Collected(dead).total_chunks = Cardinality(Collected(dead).stored_hashes)
  <1>1. meta.stored_hashes \in SUBSET Chunks /\ meta.total_chunks \in Nat
        /\ meta.total_bytes \in Nat
    BY DEF TypeOK, Meta
  <1>2. /\ IsFiniteSet(meta.stored_hashes) /\ Cardinality(meta.stored_hashes) \in Nat
        /\ IsFiniteSet(meta.stored_hashes \ dead)
        /\ Cardinality(meta.stored_hashes \ dead) \in Nat
        /\ IsFiniteSet(dead) /\ Cardinality(dead) \in Nat
    <2>1. /\ meta.stored_hashes \ dead \in SUBSET Chunks
          /\ dead \in SUBSET Chunks
      BY <1>1
    <2>. QED  BY <1>1, <2>1, ChunksFinite
  <1>3. meta.stored_hashes \cap dead = dead
    OBVIOUS
  <1>4. Cardinality(meta.stored_hashes \ dead)
          = Cardinality(meta.stored_hashes) - Cardinality(dead)
    BY <1>2, <1>3, FS_Difference
  <1>. QED  BY <1>1, <1>2, <1>4 DEF Collected, Meta, CountsKnown

\* Every step keeps the types and the counts.
LEMMA CountingStep ==
    ASSUME Counting, [Next]_vars
    PROVE  Counting'
  <1>. USE DEF Counting
  <1>1. ASSUME NEW j \in Jobs, Backup(j)
        PROVE  Counting'
    <2>1. /\ job' \in [Jobs -> Job] /\ restarts' = restarts /\ clock' = clock
          /\ forgotten' \subseteq Chunks /\ ruined' \subseteq Chunks
      <3>1. job' \in [Jobs -> Job]
        BY <1>1, BackupJobs
      <3>2. restarts' = restarts /\ clock' = clock
        BY <1>1 DEF Backup, Start, ReadFile, StoreChunk, StoreFails, FileDone, Listed,
                    SaveManifest, SaveMeta, Abort
      <3>3. forgotten' \subseteq forgotten /\ ruined' \subseteq ruined \cup forgotten
        BY <1>1 DEF Backup, Start, ReadFile, StoreChunk, StoreFails, FileDone, Listed,
                    SaveManifest, SaveMeta, Abort, history
      <3>. QED  BY <3>1, <3>2, <3>3 DEF TypeOK
    <2>2. CASE \/ \E s \in Snapshots, parent \in Parents : Start(j, s, parent)
               \/ \E p \in Places, d \in Contents : ReadFile(j, p, d)
               \/ FileDone(j) \/ Listed(j)
      <3>1. UNCHANGED <<whole, manifests, saved, meta>>
        BY <2>2 DEF Start, ReadFile, FileDone, Listed
      <3>2. backups' = backups \/ (backups < MaxBackups /\ backups' = backups + 1)
        BY <2>2 DEF Start, ReadFile, FileDone, Listed
      <3>3. backups' \in 0..MaxBackups
        BY <3>2, ChunkAssumption DEF TypeOK
      <3>. QED  BY <2>1, <3>1, <3>3 DEF TypeOK, CountsKnown, SavedCounted
    <2>. SUFFICES ASSUME StoreChunk(j) \/ StoreFails(j) \/ SaveManifest(j) \/ SaveMeta(j)
                         \/ Abort(j)
                  PROVE  Counting'
      BY <1>1, <2>2 DEF Backup
    <2>3. /\ job[j] # Idle
          /\ job[j].snapshot \in Snapshots /\ job[j].manifest \in Manifest
          /\ job[j].rest \in Seq(Chunks)
      <3>1. job[j] # Idle
        BY BusyByPc DEF StoreChunk, StoreFails, SaveManifest, SaveMeta, Abort
      <3>. QED  BY <3>1, BusyJob
    <2>4. CASE StoreChunk(j) \/ StoreFails(j)
      <3> DEFINE h == Head(job[j].rest)
      <3>1. h \in Chunks
        BY <2>3, <2>4, HeadTail DEF StoreChunk, StoreFails
      <3>2. whole' \in [Snapshots -> SUBSET Chunks]
        BY <2>3, <2>4, <3>1 DEF StoreChunk, StoreFails, TypeOK
      <3>3. meta' = meta \/ (~Known(h) /\ meta' = Counted(h))
        BY <2>4 DEF StoreChunk, StoreFails
      <3>4. meta' \in Meta /\ CountsKnown'
        <4>1. CASE meta' = meta
          BY <4>1 DEF TypeOK, CountsKnown
        <4>2. CASE ~Known(h) /\ meta' = Counted(h)
          <5>. HIDE DEF h
          <5>. QED  BY <3>1, <4>2, CountOne DEF CountsKnown
        <4>. QED  BY <3>3, <4>1, <4>2
      <3>5. UNCHANGED <<manifests, saved, backups>>
        BY <2>4 DEF StoreChunk, StoreFails
      <3>. QED  BY <2>1, <3>2, <3>4, <3>5 DEF TypeOK, SavedCounted
    <2>5. CASE SaveManifest(j)
      BY <2>1, <2>3, <2>5 DEF SaveManifest, TypeOK, CountsKnown, SavedCounted
    <2>6. CASE SaveMeta(j)
      BY <2>1, <2>3, <2>6 DEF SaveMeta, TypeOK, CountsKnown, SavedCounted
    <2>7. CASE Abort(j)
      <3>1. /\ manifests' \in [Snapshots -> SUBSET Manifest]
            /\ saved' \in [Snapshots -> SUBSET Meta] /\ SavedCounted'
        BY <2>3, <2>7 DEF Abort, TypeOK, SavedCounted
      <3>. QED  BY <2>1, <2>7, <3>1 DEF Abort, TypeOK, CountsKnown
    <2>. QED  BY <2>4, <2>5, <2>6, <2>7
  <1>2. ASSUME NEW s \in Snapshots, gc(s)
        PROVE  Counting'
    <2> DEFINE dead == meta.stored_hashes \ Live
    <2>1. meta' \in Meta /\ CountsKnown'
      <3>1. meta' = Collected(dead) /\ dead \in SUBSET meta.stored_hashes
        BY <1>2 DEF gc
      <3>. HIDE DEF dead
      <3>. QED  BY <3>1, CountGone DEF CountsKnown
    <2>2. whole' \in [Snapshots -> SUBSET Chunks]
      BY <1>2 DEF gc, TypeOK
    <2>. QED  BY <1>2, <2>1, <2>2 DEF gc, history, TypeOK, SavedCounted
  <1>3. ASSUME NEW s \in Snapshots, load_meta(s)
        PROVE  Counting'
    <2>1. PICK m \in saved[s] : /\ meta' = m
                                /\ forgotten' = (forgotten \cup meta.stored_hashes) \ m.stored_hashes
      BY <1>3 DEF load_meta
    <2>2. forgotten' \subseteq Chunks
      BY <2>1 DEF TypeOK, Meta
    <2>. QED  BY <1>3, <2>1, <2>2 DEF load_meta, TypeOK, CountsKnown, SavedCounted
  <1>4. CASE Restart
    <2>1. NewMeta \in Meta /\ NewMeta.total_chunks = Cardinality(NewMeta.stored_hashes)
      BY FS_EmptySet DEF NewMeta, Meta
    <2>2. job' \in [Jobs -> Job] /\ restarts' \in 0..MaxRestarts
      BY <1>4, ChunkAssumption DEF Restart, TypeOK, Job
    <2>3. forgotten' \subseteq Chunks
      BY <1>4 DEF Restart, TypeOK, Meta
    <2>. QED  BY <1>4, <2>1, <2>2, <2>3 DEF Restart, TypeOK, CountsKnown, SavedCounted
  <1>5. CASE Tick \/ UNCHANGED vars
    BY <1>5, ChunkAssumption DEF Tick, vars, history, TypeOK, CountsKnown, SavedCounted
  <1>. QED  BY <1>1, <1>2, <1>3, <1>4, <1>5 DEF Next

\* The counts and types hold at the start and after every step.
LEMMA CountingInvariant == Spec => []Counting
  <1>1. Init => Counting
    BY ChunkAssumption, FS_EmptySet
       DEF Init, Counting, TypeOK, CountsKnown, SavedCounted, NewMeta, Meta, Job
  <1>. QED  BY <1>1, CountingStep, PTL DEF Spec

\* Store, manifests and backups under way only ever hold values of their declared
\* kinds; in particular total_chunks, an unsigned number gc subtracts from, never
\* gets below zero.
THEOREM TypeCorrect == Spec => []TypeOK
  <1>1. Counting => TypeOK
    BY DEF Counting
  <1>. QED  BY <1>1, CountingInvariant, PTL

\* The chunk store counts the chunks it knows exactly, whatever is stored,
\* collected, saved and loaded again.
THEOREM CountsExact == Spec => []CountsKnown
  <1>1. Counting => CountsKnown
    BY DEF Counting
  <1>. QED  BY <1>1, CountingInvariant, PTL

-----------------------------------------------------------------------------
(* No chunk is lost.                                                       *)

\* What a chunk counts as that a manifest, known or saved, refers to.
LEMMA InChunksOf ==
    ASSUME NEW files, NEW h
    PROVE  h \in ChunksOf(files) <=> \E f \in files : h \in Elems(f.chunk_hashes)
  BY DEF ChunksOf

\* A chunk is live when a manifest of some snapshot uses it.
LEMMA InLive ==
    ASSUME NEW h
    PROVE  h \in Live <=> \E s \in Snapshots : \E m \in manifests[s] : h \in ChunksOf(m.files)
  BY DEF Live

\* The same after a step.
LEMMA InLivePrime ==
    ASSUME NEW h
    PROVE  h \in Live' <=> \E s \in Snapshots : \E m \in manifests'[s] : h \in ChunksOf(m.files)
  BY DEF Live

\* A step that loses nothing, and after which every job that changed can count on
\* its chunks, keeps the invariant.
LEMMA NothingTaken ==
    ASSUME ChunkInv, Reliable \subseteq Reliable', Live' \subseteq Reliable',
           meta'.stored_hashes \subseteq Reliable', SavedKept',
           \A i \in Jobs : job'[i] = job[i] \/ JobKept(i)'
    PROVE  ChunkInv'
  <1>1. ASSUME NEW i \in Jobs, job'[i] = job[i]
        PROVE  JobKept(i)'
    <2>1. JobKept(i)
      BY DEF ChunkInv
    <2>. QED  BY <1>1, <2>1 DEF JobKept
  <1>. QED  BY <1>1 DEF ChunkInv

\* In particular a step that only moves jobs.
LEMMA OnlyJobs ==
    ASSUME ChunkInv, UNCHANGED <<whole, manifests, saved, meta, history>>,
           \A i \in Jobs : job'[i] = job[i] \/ JobKept(i)'
    PROVE  ChunkInv'
  <1>1. /\ Reliable' = Reliable /\ Live' = Live
        /\ SavedKept <=> SavedKept'
    BY DEF Reliable, Remembered, history, Live, Somewhere, SavedKept
  <1>. QED  BY <1>1, NothingTaken DEF ChunkInv

\* An idle job counts on nothing.
LEMMA IdleKept ==
    ASSUME NEW i, job'[i] = Idle
    PROVE  JobKept(i)'
  BY DEF JobKept

\* Steps of a backup that neither store nor save.
Moves(j) ==
    \/ \E s \in Snapshots, parent \in Parents : Start(j, s, parent)
    \/ \E p \in Places, d \in Contents : ReadFile(j, p, d)
    \/ FileDone(j) \/ Listed(j)

\* They keep the invariant.
LEMMA JobSteps ==
    ASSUME TypeOK, ChunkInv, NEW j \in Jobs, Moves(j)
    PROVE  ChunkInv'
  <1>1. /\ UNCHANGED <<whole, manifests, saved, meta, history>>
        /\ \A i \in Jobs \ {j} : job'[i] = job[i]
    BY DEF Moves, TypeOK, Start, ReadFile, FileDone, Listed
  <1>2. Reliable' = Reliable
    BY <1>1 DEF Reliable, Remembered, history, Somewhere
  <1>3. JobKept(j)
    BY DEF ChunkInv
  <1>4. JobKept(j)'
    <2>1. ASSUME NEW s \in Snapshots, NEW parent \in Parents, Start(j, s, parent)
          PROVE  JobKept(j)'
      <3>1. job'[j] = Busy("files", s, NewManifest(parent), {}, {}, <<>>)
        BY <2>1 DEF Start, TypeOK
      <3>2. /\ job'[j].manifest.files = {} /\ job'[j].file = {} /\ job'[j].rest = <<>>
        BY <3>1 DEF Busy, NewManifest
      <3>3. ChunksOf({}) = {}
        BY DEF ChunksOf
      <3>. QED  BY <3>2, <3>3 DEF JobKept
    <2>2. ASSUME NEW p \in Places, NEW d \in Contents, ReadFile(j, p, d)
          PROVE  JobKept(j)'
      <3>1. job[j] # Idle
        BY <2>2, BusyByPc DEF ReadFile
      <3>2. /\ job'[j].manifest = job[j].manifest /\ job'[j].pc = "chunks"
            /\ job'[j].file = {[path |-> Basename[p], chunk_hashes |-> d]}
            /\ job'[j].rest = d
        BY <2>2 DEF ReadFile, TypeOK, Busy
      <3>3. ChunksOf(job'[j].file) = Elems(d)
        BY <3>2 DEF ChunksOf
      <3>. QED  BY <1>2, <1>3, <3>1, <3>2, <3>3 DEF JobKept
    <2>3. ASSUME FileDone(j)
          PROVE  JobKept(j)'
      <3>1. job[j] # Idle /\ job[j].rest = <<>>
        BY <2>3, BusyByPc DEF FileDone
      <3> DEFINE m(f) == [job[j].manifest EXCEPT !.files = AddFile(@, f),
                                                 !.total_stored_size = @ + StoredSize(f)]
      <3>2. PICK f \in job[j].file :
              job' = [job EXCEPT ![j] = Busy("files", job[j].snapshot, m(f), job[j].done, {}, <<>>)]
        BY <2>3 DEF FileDone
      <3>3. job[j].manifest \in Manifest
        BY <3>1, BusyJob
      <3>4. /\ job'[j].manifest.files = AddFile(job[j].manifest.files, f)
            /\ job'[j].file = {} /\ job'[j].rest = <<>>
        <4>1. m(f).files = AddFile(job[j].manifest.files, f)
          BY <3>3 DEF Manifest
        <4>. HIDE DEF m
        <4>. QED  BY <3>2, <4>1 DEF TypeOK, Busy
      <3>5. ChunksOf(job'[j].manifest.files)
              \subseteq ChunksOf(job[j].manifest.files) \cup ChunksOf(job[j].file)
        BY <3>2, <3>4 DEF ChunksOf, AddFile
      <3>6. Elems(job[j].rest) = {}
        BY <3>1 DEF Elems
      <3>7. ChunksOf(job'[j].file) = {}
        BY <3>4 DEF ChunksOf
      <3>. QED  BY <1>2, <1>3, <3>1, <3>4, <3>5, <3>6, <3>7 DEF JobKept
    <2>4. ASSUME Listed(j)
          PROVE  JobKept(j)'
      <3>1. job[j] # Idle /\ job[j].pc # "chunks"
        BY <2>4, BusyByPc DEF Listed
      <3>2. /\ job'[j].manifest = job[j].manifest /\ job'[j].file = {}
            /\ job'[j].rest = <<>>
        BY <2>4 DEF Listed, TypeOK, Busy
      <3>3. ChunksOf(job'[j].file) = {}
        BY <3>2 DEF ChunksOf
      <3>. QED  BY <1>2, <1>3, <3>1, <3>2, <3>3 DEF JobKept
    <2>. QED  BY <2>1, <2>2, <2>3, <2>4 DEF Moves
  <1>. QED  BY <1>1, <1>4, OnlyJobs

\* Storing a chunk, or finding it stored, takes nothing away.
LEMMA StoreKeeps ==
    ASSUME TypeOK, ChunkInv, NEW j \in Jobs, StoreChunk(j)
    PROVE  ChunkInv'
  <1> DEFINE k == job[j]
             h == Head(k.rest)
             m == IF Known(h) THEN k.manifest ELSE [k.manifest EXCEPT !.new_chunk_count = @ + 1]
  <1>1. k # Idle /\ k.pc = "chunks" /\ k.rest # <<>>
    BY BusyByPc DEF StoreChunk
  <1>2. /\ k.snapshot \in Snapshots /\ k.manifest \in Manifest /\ k.rest \in Seq(Chunks)
        /\ Elems(k.rest) = {h} \cup Elems(Tail(k.rest))
    BY <1>1, BusyJob, HeadTail
  <1>3. /\ UNCHANGED <<manifests, saved>>
        /\ job' = [job EXCEPT ![j] =
                     Busy("chunks", k.snapshot, m, k.done, k.file, Tail(k.rest))]
    BY DEF StoreChunk
  <1>4. /\ m.files = k.manifest.files
        /\ job'[j].manifest = m /\ job'[j].file = k.file /\ job'[j].rest = Tail(k.rest)
        /\ job'[j].pc = "chunks"
        /\ \A i \in Jobs \ {j} : job'[i] = job[i]
    <2>1. m.files = k.manifest.files
      BY <1>2 DEF Manifest
    <2>. HIDE DEF m
    <2>. QED  BY <1>3, <2>1 DEF TypeOK, Busy
  <1>. HIDE DEF m
  <1>5. /\ Reliable' = Reliable \cup {h}
        /\ meta'.stored_hashes = meta.stored_hashes \cup {h}
    <2>1. CASE Known(h)
      <3>1. UNCHANGED <<whole, meta, history>>
        BY <2>1 DEF StoreChunk
      <3>2. h \in Reliable /\ h \in meta.stored_hashes
        BY <2>1 DEF Known, ChunkInv
      <3>3. Reliable' = Reliable
        BY <3>1 DEF Reliable, Remembered, history, Somewhere
      <3>. QED  BY <3>1, <3>2, <3>3
    <2>2. CASE ~Known(h)
      <3>1. /\ whole' = [whole EXCEPT ![k.snapshot] = @ \cup {h}] /\ meta' = Counted(h)
            /\ forgotten' = forgotten \ {h} /\ ruined' = ruined \ {h}
        BY <2>2 DEF StoreChunk
      <3>2. meta'.stored_hashes = meta.stored_hashes \cup {h}
        BY <3>1 DEF Counted
      <3>3. Somewhere' = Somewhere \cup {h}
        BY <1>2, <3>1 DEF Somewhere, TypeOK
      <3>. QED  BY <3>1, <3>2, <3>3 DEF Reliable, Remembered
    <2>. QED  BY <2>1, <2>2
  <1>6. meta'.stored_hashes \subseteq Reliable'
    BY <1>5 DEF ChunkInv
  <1>7. Live' = Live
    BY <1>3 DEF Live
  <1>8. SavedKept'
    BY <1>3, <1>5 DEF SavedKept, ChunkInv
  <1>9. JobKept(j)'
    <2>1. JobKept(j)
      BY DEF ChunkInv
    <2>. QED  BY <1>1, <1>2, <1>4, <1>5, <2>1 DEF JobKept
  <1>. QED  BY <1>4, <1>5, <1>6, <1>7, <1>8, <1>9, NothingTaken DEF ChunkInv

\* A write that breaks off is of a chunk the store does not know: what counted on it
\* had been forgotten, and the chunk is now ruined.
LEMMA StoreFailsKeeps ==
    ASSUME TypeOK, ChunkInv, NEW j \in Jobs, StoreFails(j)
    PROVE  ChunkInv'
  <1> DEFINE h == Head(job[j].rest)
             s == job[j].snapshot
  <1>1. s \in Snapshots
    BY BusyByPc, BusyJob DEF StoreFails
  <1>2. /\ ~Known(h) /\ UNCHANGED <<manifests, saved, meta, forgotten>>
        /\ job' = [job EXCEPT ![j] = Idle]
        /\ \/ UNCHANGED <<whole, ruined>>
           \/ /\ whole' = [whole EXCEPT ![s] = @ \ {h}]
              /\ ruined' = ruined \cup ({h} \cap forgotten)
    BY DEF StoreFails
  <1>3. \A i \in Jobs : job'[i] = job[i] \/ JobKept(i)'
    BY <1>2, IdleKept DEF TypeOK
  <1>4. Somewhere \subseteq Somewhere' \cup {h}
    BY <1>1, <1>2 DEF Somewhere, TypeOK
  <1>5. CASE UNCHANGED <<whole, ruined>>
    BY <1>2, <1>3, <1>5, OnlyJobs DEF history
  <1>6. CASE ruined' = ruined \cup ({h} \cap forgotten)
    <2>1. h \notin meta.stored_hashes /\ Remembered' = Remembered
      BY <1>2 DEF Known, Remembered
    <2>2. Reliable \subseteq Reliable'
      BY <1>4, <1>6, <2>1 DEF Reliable, Remembered
    <2>3. Live' = Live
      BY <1>2 DEF Live
    <2>4. meta'.stored_hashes \subseteq Reliable' /\ Live' \subseteq Reliable'
      BY <1>2, <2>2, <2>3 DEF ChunkInv
    <2>5. SavedKept'
      BY <1>2, <2>2 DEF SavedKept, ChunkInv
    <2>. QED  BY <1>3, <2>2, <2>4, <2>5, NothingTaken DEF ChunkInv
  <1>. QED  BY <1>2, <1>5, <1>6

\* Saving a manifest makes live what the backup counted on.
LEMMA SaveManifestKeeps ==
    ASSUME TypeOK, ChunkInv, NEW j \in Jobs, SaveManifest(j)
    PROVE  ChunkInv'
  <1> DEFINE k == job[j]
             m == k.manifest
  <1>1. k # Idle
    BY BusyByPc DEF SaveManifest
  <1>2. k.snapshot \in Snapshots
    BY <1>1, BusyJob
  <1>3. /\ UNCHANGED <<whole, saved, meta, history>>
        /\ manifests' = [manifests EXCEPT ![k.snapshot] = {n \in @ : n.id # m.id} \cup {m}]
        /\ job' = [job EXCEPT ![j] = Busy("meta", k.snapshot, m, k.done, {}, <<>>)]
    BY DEF SaveManifest
  <1>4. Reliable' = Reliable
    BY <1>3 DEF Reliable, Remembered, history, Somewhere
  <1>5. ChunksOf(m.files) \subseteq Reliable
    BY <1>1 DEF ChunkInv, JobKept
  <1>6. Live' \subseteq Reliable'
    <2>1. ASSUME NEW c \in Live'
          PROVE  c \in Live \cup ChunksOf(m.files)
      <3>1. PICK s \in Snapshots : \E n \in manifests'[s] : c \in ChunksOf(n.files)
        BY <2>1, InLivePrime
      <3>2. PICK n \in manifests'[s] : c \in ChunksOf(n.files)
        BY <3>1
      <3>3. n \in manifests[s] \/ n = m
        BY <1>2, <1>3 DEF TypeOK
      <3>. QED  BY <3>2, <3>3, InLive
    <2>. QED  BY <1>4, <1>5, <2>1 DEF ChunkInv
  <1>7. SavedKept'
    BY <1>3, <1>4 DEF SavedKept, ChunkInv
  <1>8. JobKept(j)'
    <2>1. /\ job'[j].manifest = m /\ job'[j].file = {} /\ job'[j].rest = <<>>
      BY <1>3 DEF TypeOK, Busy
    <2>2. ChunksOf({}) = {}
      BY DEF ChunksOf
    <2>. QED  BY <1>4, <1>5, <2>1, <2>2 DEF JobKept
  <1>9. \A i \in Jobs : job'[i] = job[i] \/ JobKept(i)'
    BY <1>3, <1>8 DEF TypeOK
  <1>. QED  BY <1>3, <1>4, <1>6, <1>7, <1>9, NothingTaken DEF ChunkInv

\* Saving metadata, and giving up.
LEMMA EndKeeps ==
    ASSUME TypeOK, ChunkInv, NEW j \in Jobs, SaveMeta(j) \/ Abort(j)
    PROVE  ChunkInv'
  <1>1. job[j].snapshot \in Snapshots
    BY BusyByPc, BusyJob DEF SaveMeta, Abort
  <1>2. UNCHANGED <<whole, meta, history>> /\ job' = [job EXCEPT ![j] = Idle]
    BY DEF SaveMeta, Abort
  <1>3. \A i \in Jobs : job'[i] = job[i] \/ JobKept(i)'
    BY <1>2, IdleKept DEF TypeOK
  <1>4. Reliable' = Reliable
    BY <1>2 DEF Reliable, Remembered, history, Somewhere
  <1>5. \A s \in Snapshots : manifests'[s] \subseteq manifests[s]
    BY <1>1 DEF SaveMeta, Abort, TypeOK
  <1>6. Live' \subseteq Live
    BY <1>5, InLive, InLivePrime
  <1>7. \A s \in Snapshots : saved'[s] \subseteq saved[s] \cup {meta}
    BY <1>1 DEF SaveMeta, Abort, TypeOK
  <1>8. SavedKept'
    BY <1>4, <1>7 DEF SavedKept, ChunkInv
  <1>. QED  BY <1>2, <1>3, <1>4, <1>6, <1>8, NothingTaken DEF ChunkInv

\* What is collected is live nowhere.
LEMMA CollectKeeps ==
    ASSUME CarefulCallers, TypeOK, ChunkInv, NEW s \in Snapshots, gc(s)
    PROVE  ChunkInv'
  <1> DEFINE dead == meta.stored_hashes \ Live
  <1>1. PICK emptied \in SUBSET dead : whole' = [whole EXCEPT ![s] = @ \ emptied]
    BY DEF gc
  <1>2. /\ meta'.stored_hashes = meta.stored_hashes \ dead
        /\ UNCHANGED <<manifests, saved, job, history>> /\ AllIdle /\ Collects
    BY DEF gc, Collected
  <1>3. Somewhere \ dead \subseteq Somewhere'
    BY <1>1 DEF Somewhere, TypeOK
  <1>4. Live' = Live
    BY <1>2 DEF Live
  <1>5. Reliable \ dead \subseteq Reliable'
    BY <1>2, <1>3 DEF Reliable, Remembered, history
  <1>6. Live \subseteq Reliable' /\ meta'.stored_hashes \subseteq Reliable'
    BY <1>2, <1>5 DEF ChunkInv
  <1>7. \A i \in Jobs : JobKept(i)'
    BY <1>2, IdleKept DEF AllIdle
  <1>8. SavedKept'
    BY <1>2 DEF SavedKept, CarefulCallers
  <1>. QED  BY <1>4, <1>6, <1>7, <1>8 DEF ChunkInv

\* Metadata loaded is metadata saved, a new process knows of nothing, and what the
\* store no longer knows it has forgotten.
LEMMA ForgetKeeps ==
    ASSUME TypeOK, ChunkInv, Restart \/ \E s \in Snapshots : load_meta(s)
    PROVE  ChunkInv'
  <1>1. UNCHANGED <<whole, manifests, saved, ruined>>
    BY DEF Restart, load_meta
  <1>2. Somewhere' = Somewhere /\ Live' = Live
    BY <1>1 DEF Somewhere, Live
  <1>3. Remembered \subseteq Remembered'
    <2>1. CASE Restart
      BY <2>1 DEF Restart, Remembered
    <2>2. ASSUME NEW s \in Snapshots, load_meta(s)
          PROVE  Remembered \subseteq Remembered'
      <3>1. PICK m \in saved[s] :
              /\ meta' = m
              /\ forgotten' = (forgotten \cup meta.stored_hashes) \ m.stored_hashes
        BY <2>2 DEF load_meta
      <3>. QED  BY <3>1 DEF Remembered
    <2>. QED  BY <2>1, <2>2
  <1>4. Reliable \subseteq Reliable'
    BY <1>1, <1>2, <1>3 DEF Reliable
  <1>5. meta'.stored_hashes \subseteq Reliable'
    <2>1. CASE Restart
      BY <2>1 DEF Restart, NewMeta
    <2>2. ASSUME NEW s \in Snapshots, load_meta(s)
          PROVE  meta'.stored_hashes \subseteq Reliable'
      BY <1>4, <2>2 DEF load_meta, ChunkInv, SavedKept
    <2>. QED  BY <2>1, <2>2
  <1>6. SavedKept'
    BY <1>1, <1>4 DEF SavedKept, ChunkInv
  <1>7. \A i \in Jobs : job'[i] = job[i] \/ job'[i] = Idle
    BY DEF Restart, load_meta
  <1>. QED  BY <1>2, <1>4, <1>5, <1>6, <1>7, IdleKept, NothingTaken DEF ChunkInv

\* The invariant, for callers who are careful.
LEMMA Invariant ==
    ASSUME CarefulCallers
    PROVE  Spec => []ChunkInv
  <1>1. Init => ChunkInv
    <2>. SUFFICES ASSUME Init PROVE ChunkInv
      OBVIOUS
    <2>1. Live = {} /\ meta.stored_hashes = {}
      BY DEF Init, Live, NewMeta
    <2>. QED  BY <2>1 DEF Init, ChunkInv, JobKept, SavedKept
  <1>2. TypeOK /\ ChunkInv /\ [Next]_vars => ChunkInv'
    <2>. SUFFICES ASSUME TypeOK, ChunkInv, [Next]_vars PROVE ChunkInv'
      OBVIOUS
    <2>1. ASSUME NEW j \in Jobs, Backup(j)
          PROVE  ChunkInv'
      <3>1. \/ Moves(j) \/ StoreChunk(j) \/ StoreFails(j) \/ SaveManifest(j)
            \/ SaveMeta(j) \/ Abort(j)
        BY <2>1 DEF Backup, Moves
      <3>. QED  BY <3>1, JobSteps, StoreKeeps, StoreFailsKeeps, SaveManifestKeeps, EndKeeps
    <2>2. CASE Tick \/ UNCHANGED vars
      <3>1. UNCHANGED <<whole, manifests, saved, meta, job, history>>
        BY <2>2 DEF Tick, vars
      <3>. QED  BY <3>1, OnlyJobs
    <2>3. ASSUME NEW s \in Snapshots, gc(s) \/ load_meta(s)
          PROVE  ChunkInv'
      BY <2>3, CollectKeeps, ForgetKeeps
    <2>. QED  BY <2>1, <2>2, <2>3, ForgetKeeps DEF Next
  <1>. QED  BY <1>1, <1>2, TypeCorrect, PTL DEF Spec

\* Deduplication loses nothing: whatever threads store at the same time, whatever
\* fails, is collected, restarted or loaded again, every chunk that a saved manifest
\* needs or the store takes for stored is whole in some snapshot, unless the store had
\* forgotten it and destroyed its file in writing it again.
THEOREM NoChunkLost ==
    ASSUME CarefulCallers
    PROVE  Spec => []NothingLost
  <1>1. ChunkInv => NothingLost
    BY DEF ChunkInv, NothingLost, Reliable
  <1>. QED  BY <1>1, Invariant, PTL

\* With a single snapshot id that is the one the manifest is restored from.
THEOREM SavedAreRestorable ==
    ASSUME CarefulCallers, NEW s0, Snapshots = {s0}
    PROVE  Spec => []SavedRestores
  <1>1. NothingLost => SavedRestores
    <2>. SUFFICES ASSUME NothingLost,
                         NEW s \in Snapshots, NEW m \in manifests[s], NEW f \in m.files,
                         NEW h \in Elems(f.chunk_hashes)
                  PROVE  h \in whole[s] \cup ruined
      BY DEF SavedRestores, Restorable
    <2>1. h \in Live
      BY InLive, InChunksOf
    <2>. QED  BY <2>1 DEF NothingLost, Somewhere
  <1>. QED  BY <1>1, NoChunkLost, PTL

-----------------------------------------------------------------------------
(* Programs that reload metadata and make all backups to one snapshot.     *)

\* A step after which no chunk is gone from the snapshot, and whatever is new counts
\* only on chunks that are there, keeps the invariant.
LEMMA HereStays ==
    ASSUME HereInv, Here \subseteq Here', Live' \subseteq Here',
           \A s \in Snapshots \ {first} : manifests'[s] = {},
           meta'.stored_hashes \subseteq Here',
           \A m \in saved'[first] : m.stored_hashes \subseteq Here',
           \A i \in Jobs : job'[i] = job[i] \/ JobHere(i)'
    PROVE  HereInv'
  <1>1. ASSUME NEW i \in Jobs, job'[i] = job[i]
        PROVE  JobHere(i)'
    <2>1. JobHere(i)
      BY DEF HereInv
    <2>. QED  BY <1>1, <2>1 DEF JobHere
  <1>. QED  BY <1>1 DEF HereInv

\* In particular a step that only moves jobs.
LEMMA HereMoves ==
    ASSUME HereInv, UNCHANGED <<whole, manifests, saved, meta, history>>,
           \A i \in Jobs : job'[i] = job[i] \/ JobHere(i)'
    PROVE  HereInv'
  <1>1. Here' = Here /\ Live' = Live
    BY DEF Here, Remembered, history, Live
  <1>. QED  BY <1>1, HereStays DEF HereInv

\* A job that is idle, or starts a backup of that snapshot, counts on nothing.
LEMMA IdleHere ==
    ASSUME NEW i, job'[i] = Idle
    PROVE  JobHere(i)'
  BY DEF JobHere

\* The steps of a backup that neither store nor save.
LEMMA MovesHere ==
    ASSUME TypeOK, HereInv, NEW j \in Jobs, Moves(j),
           job'[j] = Idle \/ job'[j].snapshot = first
    PROVE  HereInv'
  <1>1. /\ UNCHANGED <<whole, manifests, saved, meta, history>>
        /\ \A i \in Jobs \ {j} : job'[i] = job[i]
    BY DEF Moves, TypeOK, Start, ReadFile, FileDone, Listed
  <1>2. Here' = Here
    BY <1>1 DEF Here, Remembered, history
  <1>3. JobHere(j)
    BY DEF HereInv
  <1>4. ChunksOf({}) = {}
    BY DEF ChunksOf
  <1>5. JobHere(j)'
    <2>1. ASSUME NEW s \in Snapshots, NEW parent \in Parents, Start(j, s, parent)
          PROVE  JobHere(j)'
      <3>1. job'[j] = Busy("files", s, NewManifest(parent), {}, {}, <<>>)
        BY <2>1 DEF Start, TypeOK
      <3>2. /\ job'[j].manifest.files = {} /\ job'[j].file = {}
            /\ job'[j].snapshot = s /\ job'[j].pc = "files"
        BY <3>1 DEF Busy, NewManifest
      <3>3. job'[j] # Idle
        BY <3>2 DEF Idle
      <3>. QED  BY <1>4, <3>2, <3>3 DEF JobHere
    <2>2. ASSUME NEW p \in Places, NEW d \in Contents, ReadFile(j, p, d)
          PROVE  JobHere(j)'
      <3>1. job[j] # Idle
        BY <2>2, BusyByPc DEF ReadFile
      <3>2. /\ job'[j].manifest = job[j].manifest /\ job'[j].pc = "chunks"
            /\ job'[j].snapshot = job[j].snapshot
            /\ job'[j].file = {[path |-> Basename[p], chunk_hashes |-> d]}
            /\ job'[j].rest = d
        BY <2>2 DEF ReadFile, TypeOK, Busy
      <3>3. ChunksOf(job'[j].file) = Elems(d)
        BY <3>2 DEF ChunksOf
      <3>. QED  BY <1>2, <1>3, <3>1, <3>2, <3>3 DEF JobHere
    <2>3. ASSUME FileDone(j)
          PROVE  JobHere(j)'
      <3>1. job[j] # Idle /\ job[j].rest = <<>>
        BY <2>3, BusyByPc DEF FileDone
      <3> DEFINE m(f) == [job[j].manifest EXCEPT !.files = AddFile(@, f),
                                                 !.total_stored_size = @ + StoredSize(f)]
      <3>2. PICK f \in job[j].file :
              job' = [job EXCEPT ![j] = Busy("files", job[j].snapshot, m(f), job[j].done, {}, <<>>)]
        BY <2>3 DEF FileDone
      <3>3. job[j].manifest \in Manifest
        BY <3>1, BusyJob
      <3>4. /\ job'[j].manifest.files = AddFile(job[j].manifest.files, f)
            /\ job'[j].snapshot = job[j].snapshot
            /\ job'[j].file = {} /\ job'[j].rest = <<>>
        <4>1. m(f).files = AddFile(job[j].manifest.files, f)
          BY <3>3 DEF Manifest
        <4>. HIDE DEF m
        <4>. QED  BY <3>2, <4>1 DEF TypeOK, Busy
      <3>5. ChunksOf(job'[j].manifest.files)
              \subseteq ChunksOf(job[j].manifest.files) \cup ChunksOf(job[j].file)
        BY <3>2, <3>4 DEF ChunksOf, AddFile
      <3>6. Elems(job[j].rest) = {}
        BY <3>1 DEF Elems
      <3>. QED  BY <1>2, <1>3, <1>4, <3>1, <3>4, <3>5, <3>6 DEF JobHere
    <2>4. ASSUME Listed(j)
          PROVE  JobHere(j)'
      <3>1. job[j] # Idle
        BY <2>4, BusyByPc DEF Listed
      <3>2. /\ job'[j].manifest = job[j].manifest /\ job'[j].file = {}
            /\ job'[j].snapshot = job[j].snapshot
        BY <2>4 DEF Listed, TypeOK, Busy
      <3>. QED  BY <1>2, <1>3, <1>4, <3>1, <3>2 DEF JobHere
    <2>. QED  BY <2>1, <2>2, <2>3, <2>4 DEF Moves
  <1>. QED  BY <1>1, <1>5, HereMoves

\* A chunk stored is stored in that snapshot, and one found known is there already.
LEMMA StoreHere ==
    ASSUME TypeOK, HereInv, NEW j \in Jobs, StoreChunk(j)
    PROVE  HereInv'
  <1> DEFINE k == job[j]
             h == Head(k.rest)
             m == IF Known(h) THEN k.manifest ELSE [k.manifest EXCEPT !.new_chunk_count = @ + 1]
  <1>1. k # Idle /\ k.pc = "chunks" /\ k.rest # <<>>
    BY BusyByPc DEF StoreChunk
  <1>2. /\ k.snapshot \in Snapshots /\ k.manifest \in Manifest /\ k.rest \in Seq(Chunks)
        /\ Elems(k.rest) = {h} \cup Elems(Tail(k.rest))
    BY <1>1, BusyJob, HeadTail
  <1>3. /\ UNCHANGED <<manifests, saved>>
        /\ job' = [job EXCEPT ![j] =
                     Busy("chunks", k.snapshot, m, k.done, k.file, Tail(k.rest))]
    BY DEF StoreChunk
  <1>4. /\ m.files = k.manifest.files
        /\ job'[j].manifest = m /\ job'[j].file = k.file /\ job'[j].rest = Tail(k.rest)
        /\ job'[j].pc = "chunks" /\ job'[j].snapshot = k.snapshot
        /\ \A i \in Jobs \ {j} : job'[i] = job[i]
    <2>1. m.files = k.manifest.files
      BY <1>2 DEF Manifest
    <2>. HIDE DEF m
    <2>. QED  BY <1>3, <2>1 DEF TypeOK, Busy
  <1>. HIDE DEF m
  <1>5. JobHere(j) /\ k.snapshot = first
    BY <1>1 DEF HereInv, JobHere
  <1>6. /\ Here' = Here \cup {h}
        /\ meta'.stored_hashes = meta.stored_hashes \cup {h}
    <2>1. CASE Known(h)
      <3>1. UNCHANGED <<whole, meta, history>>
        BY <2>1 DEF StoreChunk
      <3>2. h \in Here /\ h \in meta.stored_hashes
        BY <2>1 DEF Known, HereInv
      <3>3. Here' = Here
        BY <3>1 DEF Here, Remembered, history
      <3>. QED  BY <3>1, <3>2, <3>3
    <2>2. CASE ~Known(h)
      <3>1. /\ whole' = [whole EXCEPT ![k.snapshot] = @ \cup {h}] /\ meta' = Counted(h)
            /\ forgotten' = forgotten \ {h} /\ ruined' = ruined \ {h}
        BY <2>2 DEF StoreChunk
      <3>2. meta'.stored_hashes = meta.stored_hashes \cup {h}
        BY <3>1 DEF Counted
      <3>3. whole'[first] = whole[first] \cup {h}
        BY <1>2, <1>5, <3>1 DEF TypeOK
      <3>. QED  BY <3>1, <3>2, <3>3 DEF Here, Remembered
    <2>. QED  BY <2>1, <2>2
  <1>7. Live' = Live
    BY <1>3 DEF Live
  <1>8. JobHere(j)'
    BY <1>1, <1>2, <1>4, <1>5, <1>6 DEF JobHere
  <1>9. \A i \in Jobs : job'[i] = job[i] \/ JobHere(i)'
    BY <1>4, <1>8
  <1>. QED  BY <1>3, <1>6, <1>7, <1>9, HereStays DEF HereInv

\* A write that breaks off is of a chunk the store does not know.
LEMMA StoreFailsHere ==
    ASSUME TypeOK, HereInv, NEW j \in Jobs, StoreFails(j)
    PROVE  HereInv'
  <1> DEFINE h == Head(job[j].rest)
             s == job[j].snapshot
  <1>1. /\ ~Known(h) /\ UNCHANGED <<manifests, saved, meta, forgotten>>
        /\ job' = [job EXCEPT ![j] = Idle]
        /\ \/ UNCHANGED <<whole, ruined>>
           \/ /\ whole' = [whole EXCEPT ![s] = @ \ {h}]
              /\ ruined' = ruined \cup ({h} \cap forgotten)
    BY DEF StoreFails
  <1>2. s = first /\ s \in Snapshots
    <2>1. job[j] # Idle
      BY BusyByPc DEF StoreFails
    <2>2. s = first
      BY <2>1 DEF HereInv, JobHere
    <2>. QED  BY <2>1, <2>2, BusyJob
  <1>3. \A i \in Jobs : job'[i] = job[i] \/ JobHere(i)'
    BY <1>1, IdleHere DEF TypeOK
  <1>4. h \notin meta.stored_hashes /\ Remembered' = Remembered
    BY <1>1 DEF Known, Remembered
  <1>5. /\ whole[first] \subseteq whole'[first] \cup {h}
        /\ \/ UNCHANGED <<whole, ruined>>
           \/ ruined' = ruined \cup ({h} \cap forgotten)
    BY <1>1, <1>2 DEF TypeOK
  <1>6. Here \subseteq Here'
    BY <1>4, <1>5 DEF Here, Remembered
  <1>7. Live' = Live
    BY <1>1 DEF Live
  <1>. QED  BY <1>1, <1>3, <1>6, <1>7, HereStays DEF HereInv

\* A manifest is saved in that snapshot and counts on what the backup counted on.
LEMMA SaveManifestHere ==
    ASSUME TypeOK, HereInv, NEW j \in Jobs, SaveManifest(j)
    PROVE  HereInv'
  <1> DEFINE k == job[j]
             m == k.manifest
  <1>1. k # Idle
    BY BusyByPc DEF SaveManifest
  <1>2. JobHere(j) /\ k.snapshot = first /\ k.snapshot \in Snapshots
        /\ ChunksOf(m.files) \subseteq Here
    BY <1>1, BusyJob DEF HereInv, JobHere
  <1>3. /\ UNCHANGED <<whole, saved, meta, history>>
        /\ manifests' = [manifests EXCEPT ![first] = {n \in @ : n.id # m.id} \cup {m}]
        /\ job' = [job EXCEPT ![j] = Busy("meta", k.snapshot, m, k.done, {}, <<>>)]
    BY <1>2 DEF SaveManifest
  <1>4. Here' = Here
    BY <1>3 DEF Here, Remembered, history
  <1>5. Live' \subseteq Here'
    <2>1. ASSUME NEW c \in Live'
          PROVE  c \in Live \cup ChunksOf(m.files)
      <3>1. PICK s \in Snapshots : \E n \in manifests'[s] : c \in ChunksOf(n.files)
        BY <2>1, InLivePrime
      <3>2. PICK n \in manifests'[s] : c \in ChunksOf(n.files)
        BY <3>1
      <3>3. n \in manifests[s] \/ n = m
        BY <1>2, <1>3 DEF TypeOK
      <3>. QED  BY <3>2, <3>3, InLive
    <2>. QED  BY <1>2, <1>4, <2>1 DEF HereInv
  <1>6. \A s \in Snapshots \ {first} : manifests'[s] = {}
    BY <1>2, <1>3 DEF HereInv, TypeOK
  <1>7. JobHere(j)'
    <2>1. /\ job'[j].manifest = m /\ job'[j].file = {} /\ job'[j].snapshot = first
      BY <1>2, <1>3 DEF TypeOK, Busy
    <2>2. ChunksOf({}) = {}
      BY DEF ChunksOf
    <2>. QED  BY <1>2, <1>4, <2>1, <2>2 DEF JobHere
  <1>8. \A i \in Jobs : job'[i] = job[i] \/ JobHere(i)'
    BY <1>3, <1>7 DEF TypeOK
  <1>. QED  BY <1>3, <1>4, <1>5, <1>6, <1>8, HereStays DEF HereInv

\* Saving metadata, and giving up.
LEMMA EndHere ==
    ASSUME first \in Snapshots, TypeOK, HereInv, NEW j \in Jobs, SaveMeta(j) \/ Abort(j)
    PROVE  HereInv'
  <1>1. job[j].snapshot \in Snapshots
    BY BusyByPc, BusyJob DEF SaveMeta, Abort
  <1>2. UNCHANGED <<whole, meta, history>> /\ job' = [job EXCEPT ![j] = Idle]
    BY DEF SaveMeta, Abort
  <1>3. \A i \in Jobs : job'[i] = job[i] \/ JobHere(i)'
    BY <1>2, IdleHere DEF TypeOK
  <1>4. Here' = Here
    BY <1>2 DEF Here, Remembered, history
  <1>5. \A s \in Snapshots : manifests'[s] \subseteq manifests[s]
    BY <1>1 DEF SaveMeta, Abort, TypeOK
  <1>6. Live' \subseteq Live
    BY <1>5, InLive, InLivePrime
  <1>7. saved'[first] \subseteq saved[first] \cup {meta}
    BY <1>1 DEF SaveMeta, Abort, TypeOK
  <1>8. \A s \in Snapshots \ {first} : manifests'[s] = {}
    BY <1>5 DEF HereInv
  <1>. QED  BY <1>2, <1>3, <1>4, <1>6, <1>7, <1>8, HereStays DEF HereInv

\* Metadata loaded from that snapshot was saved there; a new process knows of nothing.
LEMMA ForgetHere ==
    ASSUME HereInv, Restart \/ load_meta(first)
    PROVE  HereInv'
  <1>1. UNCHANGED <<whole, manifests, saved, ruined>>
    BY DEF Restart, load_meta
  <1>2. Live' = Live
    BY <1>1 DEF Live
  <1>3. Here \subseteq Here' /\ meta'.stored_hashes \subseteq Here'
    <2>1. CASE Restart
      BY <1>1, <2>1 DEF Restart, NewMeta, Here, Remembered
    <2>2. CASE load_meta(first)
      <3>1. PICK m \in saved[first] :
              /\ meta' = m
              /\ forgotten' = (forgotten \cup meta.stored_hashes) \ m.stored_hashes
        BY <2>2 DEF load_meta
      <3>2. Remembered \subseteq Remembered'
        BY <3>1 DEF Remembered
      <3>3. Here \subseteq Here'
        BY <1>1, <3>2 DEF Here
      <3>. QED  BY <3>1, <3>3 DEF HereInv
    <2>. QED  BY <2>1, <2>2
  <1>4. \A i \in Jobs : job'[i] = job[i] \/ job'[i] = Idle
    BY DEF Restart, load_meta
  <1>. QED  BY <1>1, <1>2, <1>3, <1>4, IdleHere, HereStays DEF HereInv

\* A program's steps are steps of the library.
LEMMA UseIsSpec == UseSpec => Spec
  <1>1. UseInit => Init
    BY DEF UseInit
  <1>2. [UseNext]_<<vars, use>> => [Next]_vars
    BY UsesAssumption DEF UseNext, Next
  <1>. QED  BY <1>1, <1>2, PTL DEF UseSpec, Spec

\* The invariant of such programs.
LEMMA ReloadInvariant == UseSpec => []ReloadInv
  <1>1. UseInit => ReloadInv
    <2>. SUFFICES ASSUME Init PROVE HereInv
      BY DEF UseInit, ReloadInv
    <2>1. Live = {} /\ meta.stored_hashes = {}
      BY DEF Init, Live, NewMeta
    <2>. QED  BY <2>1, UsesAssumption DEF Init, HereInv, JobHere
  <1>2. TypeOK /\ ReloadInv /\ [UseNext]_<<vars, use>> => ReloadInv'
    <2>. SUFFICES ASSUME TypeOK, HereInv, [UseNext]_<<vars, use>>, use = "reload"
                  PROVE  HereInv'
      BY DEF ReloadInv, UseNext
    <2>1. ASSUME NEW j \in Jobs, Backup(j), job'[j] = Idle \/ job'[j].snapshot = first
          PROVE  HereInv'
      <3>1. \/ Moves(j) \/ StoreChunk(j) \/ StoreFails(j) \/ SaveManifest(j)
            \/ SaveMeta(j) \/ Abort(j)
        BY <2>1 DEF Backup, Moves
      <3>. QED  BY <2>1, <3>1, UsesAssumption, MovesHere, StoreHere, StoreFailsHere,
                   SaveManifestHere, EndHere
    <2>2. CASE Tick \/ UNCHANGED <<vars, use>>
      <3>1. UNCHANGED <<whole, manifests, saved, meta, job, history>>
        BY <2>2 DEF Tick, vars
      <3>. QED  BY <3>1, HereMoves
    <2>3. CASE Restart \/ load_meta(first)
      BY <2>3, ForgetHere
    <2>. QED  BY <2>1, <2>2, <2>3 DEF UseNext
  <1>. QED  BY <1>1, <1>2, UseIsSpec, TypeCorrect, PTL DEF UseSpec

\* A program that makes all its backups to one snapshot and reloads that snapshot's
\* metadata can restore every one of them, also with several threads, after errors and
\* after restarts: store_chunk only ever relies on chunks that are in that snapshot, or
\* that it had forgotten and destroyed in writing them again.
THEOREM OneSnapshotRestores == UseSpec => []SharedRestores
  <1>1. ReloadInv => SharedRestores
    <2>. SUFFICES ASSUME HereInv,
                         NEW s \in Snapshots, NEW m \in manifests[s], NEW f \in m.files,
                         NEW h \in Elems(f.chunk_hashes)
                  PROVE  h \in whole[s] \cup ruined
      BY DEF ReloadInv, SharedRestores, SavedRestores, Restorable
    <2>1. h \in Live /\ s = first
      BY InLive, InChunksOf DEF HereInv
    <2>. QED  BY <2>1 DEF HereInv, Here
  <1>. QED  BY <1>1, ReloadInvariant, PTL


=============================================================================
